----------------------------- MODULE Migrations -----------------------------
(***************************************************************************)
(* Opening the database.  Every command and the server open it, apply the  *)
(* migration files not yet recorded, in order, and record each.  Nothing   *)
(* holds the query, the file and the record together: processes overlap,   *)
(* and may die between any two.  A statement of its own commits at once;   *)
(* of the files only the last is a transaction.                            *)
(***************************************************************************)
EXTENDS Naturals, FiniteSets

CONSTANTS
  Process,   \* that may have the database open at once
  Target,    \* what is scanned, as it identifies its project: a path or a
             \* URL; an upload by its file name, a host and port by itself
  Name,      \* of projects: last parts of paths, file names, hosts
  NameOf,    \* of a target: what its project is called
  MaxScans,  \* scans recorded, those of before included
  MaxKills   \* processes that may be killed

ASSUME TargetAssumption ==
  NameOf \in [Target -> Name] /\ IsFiniteSet(Name)
ASSUME BoundAssumption == MaxScans \in Nat /\ MaxKills \in Nat

VARIABLES
  recorded,  \* schema_migrations
  created,   \* the files whose tables are there
  columns,   \* of the four that the third file adds
  projects,  \* key: the name, or from the fifth file on what identifies it
  scans,     \* the project of each scan
  process,   \* how far each process is, in which file, and, as history,
             \* whether no other has migrated since it looked
  kills

vars == <<recorded, created, columns, projects, scans, process, kills>>

File == 1..5
Columns == 3
Rebuild == 5
Column == 1..4

Place == {"out", "look", "apply", "record", "open", "failed"}

Progress(at, file, alone) ==
  [at |-> at, file |-> file, column |-> 1, alone |-> alone]

Out == Progress("out", 1, TRUE)

(* A new database, or one an older release left: it knew some of the files, *)
(* and it told projects apart by their names.                              *)
Init ==
  /\ \E known \in 0..4, names \in SUBSET Name :
       /\ known = 0 => names = {}
       /\ recorded = 1..known
       /\ created = 1..known \ {Columns}
       /\ columns = IF known >= Columns THEN Column ELSE {}
       /\ \E id \in [names -> 1..Cardinality(names)] :
            /\ \A m, n \in names : id[m] = id[n] => m = n
            /\ projects = {[id |-> id[n], name |-> n, key |-> n] : n \in names}
       /\ scans = [i \in 1..Cardinality(names) |-> i]
  /\ process = [p \in Process |-> Out]
  /\ kills = 0

Goto(p, at) == process' = [process EXCEPT ![p].at = at]

Migrating(p) == process[p].at \in {"look", "apply", "record"}

database == <<recorded, created, columns, projects, scans>>

-----------------------------------------------------------------------------
(* Open and migrate *)

Open(p) ==
  /\ process[p].at \in {"out", "failed"}
  /\ process' = [q \in Process |->
       IF q = p THEN Progress("look", 1, \A other \in Process \ {p} : ~Migrating(other))
       ELSE IF Migrating(q) THEN [process[q] EXCEPT !.alone = FALSE] ELSE process[q]]
  /\ UNCHANGED <<database, kills>>

(* Mutant: what is recorded is applied again.                              *)
Forgotten(file) == TRUE

Missing(file) == file \notin recorded

(* The next file that is not recorded; files are few and the records of    *)
(* those that are skipped stay, so skipping them is one step.              *)
Look(p) ==
  /\ process[p].at = "look"
  /\ LET left == {f \in process[p].file..Rebuild : Missing(f)}
         next == CHOOSE f \in left : \A g \in left : f <= g
     IN process' = [process EXCEPT ![p] =
          IF left = {} THEN Progress("open", 1, TRUE)
          ELSE Progress("apply", next, @.alone)]
  /\ UNCHANGED <<database, kills>>

At(p, file) == process[p].at = "apply" /\ process[p].file = file

(* Files of CREATE IF NOT EXISTS and INSERT OR IGNORE                      *)
ApplyTables(p) ==
  /\ \E f \in {1, 2, 4} : At(p, f) /\ created' = created \cup {f}
  /\ Goto(p, "record")
  /\ UNCHANGED <<recorded, columns, projects, scans, kills>>

(* One ALTER TABLE; a column that is there already is an error.            *)
AddColumn(p) ==
  /\ At(p, Columns)
  /\ LET c == process[p].column
     IN /\ c \notin columns
        /\ columns' = columns \cup {c}
        /\ IF c = 4 THEN Goto(p, "record")
           ELSE process' = [process EXCEPT ![p].column = c + 1]
  /\ UNCHANGED <<recorded, created, projects, scans, kills>>

(* Mutant: a column that exists means that the file has been applied.      *)
ColumnExistsIsApplied(p) ==
  /\ At(p, Columns) /\ process[p].column \in columns
  /\ Goto(p, "record")
  /\ UNCHANGED <<database, kills>>

ColumnExists(p) ==
  /\ At(p, Columns) /\ process[p].column \in columns
  /\ Goto(p, "failed")
  /\ UNCHANGED <<database, kills>>

(* The projects are copied into a new table, each under its name, and the  *)
(* old one is dropped; foreign keys are off, or it would take the scans    *)
(* with it.  Two of one name violate the new index, which undoes it all.   *)
NamesDiffer == \A x, y \in projects : x.name = y.name => x = y

Renamed == {[x EXCEPT !.key = x.name] : x \in projects}

(* Mutant: foreign keys are on.                                            *)
RebuildCascades(p) ==
  /\ At(p, Rebuild) /\ NamesDiffer
  /\ projects' = Renamed
  /\ scans' = <<>>
  /\ created' = created \cup {Rebuild}
  /\ Goto(p, "record")
  /\ UNCHANGED <<recorded, columns, kills>>

RebuildProjects(p) ==
  /\ At(p, Rebuild) /\ NamesDiffer
  /\ projects' = Renamed
  /\ created' = created \cup {Rebuild}
  /\ Goto(p, "record")
  /\ UNCHANGED <<recorded, columns, scans, kills>>

RebuildFails(p) ==
  /\ At(p, Rebuild) /\ ~NamesDiffer
  /\ Goto(p, "failed")
  /\ UNCHANGED <<database, kills>>

(* The version is a primary key.                                           *)
Record(p) ==
  /\ process[p].at = "record"
  /\ LET f == process[p].file
     IN IF f \in recorded
        THEN Goto(p, "failed") /\ UNCHANGED recorded
        ELSE /\ recorded' = recorded \cup {f}
             /\ process' = [process EXCEPT ![p] =
                  IF f = Rebuild THEN Progress("open", 1, TRUE)
                  ELSE Progress("look", f + 1, @.alone)]
  /\ UNCHANGED <<created, columns, projects, scans, kills>>

-----------------------------------------------------------------------------
(* With the database open *)

(* UpsertProject and CreateScan.  The name is only shown, and may repeat.  *)
Scan(p, t) ==
  /\ process[p].at = "open"
  /\ Cardinality(DOMAIN scans) < MaxScans
  /\ LET known == {x \in projects : x.key = t}
         new == [id |-> Cardinality(projects) + 1, name |-> NameOf[t], key |-> t]
         its == IF known = {} THEN new ELSE CHOOSE x \in known : TRUE
     IN /\ projects' = projects \cup {its}
        /\ scans' = [i \in 1..Cardinality(DOMAIN scans) + 1 |->
                       IF i \in DOMAIN scans THEN scans[i] ELSE its.id]
  /\ UNCHANGED <<recorded, created, columns, process, kills>>

Close(p) ==
  /\ process[p].at = "open"
  /\ process' = [process EXCEPT ![p] = Out]
  /\ UNCHANGED <<database, kills>>

(* Killed, or a statement that failed of its own                           *)
Kill(p) ==
  /\ Migrating(p)
  /\ kills < MaxKills /\ kills' = kills + 1
  /\ process' = [process EXCEPT ![p] = Out]
  /\ UNCHANGED database

Step(p) ==
  \/ Open(p) \/ Look(p) \/ ApplyTables(p) \/ AddColumn(p) \/ ColumnExists(p)
  \/ RebuildProjects(p) \/ RebuildFails(p) \/ Record(p)
  \/ (\E t \in Target : Scan(p, t)) \/ Close(p) \/ Kill(p)

Next == \E p \in Process : Step(p)

Spec == Init /\ [][Next]_vars

-----------------------------------------------------------------------------
(* What is recorded has been applied, whoever else was applying it and     *)
(* wherever they were cut short, and so has everything when a process has  *)
(* the database open.                                                      *)
Applied(f) == IF f = Columns THEN columns = Column ELSE f \in created

RecordedIsApplied ==
  /\ \A f \in recorded : Applied(f)
  /\ (\E p \in Process : process[p].at = "open") => recorded = File

(* No migration loses a project or a scan, or gives a scan to another      *)
(* project; and a project keeps its key, except that a process which       *)
(* looked before another recorded the last file rebuilds them once more.   *)
ProjectsKept ==
  [][/\ \A i \in DOMAIN scans : i \in DOMAIN scans' /\ scans'[i] = scans[i]
     /\ \A x \in projects : \E y \in projects' :
          /\ y.id = x.id /\ y.name = x.name
          /\ \/ y.key = x.key
             \/ Rebuild \in recorded /\ \E p \in Process : At(p, Rebuild)]_vars

(* A process that migrates while no other does opens the database, as long *)
(* as no migration was ever cut short in it.                               *)
AloneOpens ==
  [][\A p \in Process :
       Migrating(p) /\ process[p].alone /\ kills = 0 => process'[p].at # "failed"]_vars
=============================================================================
