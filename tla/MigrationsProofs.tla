-------------------------- MODULE MigrationsProofs --------------------------
(***************************************************************************)
(* What is recorded has been applied, no migration loses or exchanges a    *)
(* project or a scan, and one that runs alone succeeds: for any number of  *)
(* processes, kills, projects and scans.                                   *)
(***************************************************************************)
EXTENDS Migrations, FiniteSetTheorems, TLAPS

Progresses == [at : Place, file : 1..6, column : Column, alone : BOOLEAN]

ProcessType == process \in [Process -> Progresses]

(* The files before the one a process is at are recorded, so is every file *)
(* once it is through, and the columns before the one it adds are there.   *)
Behind(p) ==
  /\ process[p].at \in {"look", "apply", "record"} =>
       \A f \in File : f < process[p].file => f \in recorded
  /\ process[p].at \in {"apply", "record"} => process[p].file \in File
  /\ process[p].at = "apply" /\ process[p].file = Columns =>
       \A c \in Column : c < process[p].column => c \in columns
  /\ process[p].at = "record" => Applied(process[p].file)
  /\ process[p].at = "open" => recorded = File

IInv ==
  /\ ProcessType
  /\ recorded \subseteq File /\ columns \subseteq Column
  /\ \A f \in recorded : Applied(f)
  /\ \A p \in Process : Behind(p)

-----------------------------------------------------------------------------
LEMMA Moves ==
  ASSUME ProcessType, NEW p \in Process, NEW new \in Progresses,
         process' = [process EXCEPT ![p] = new]
  PROVE  /\ ProcessType'
         /\ process'[p] = new
         /\ \A q \in Process \ {p} : process'[q] = process[q]
BY DEF ProcessType

(* Of the files that are left one is the next.                             *)
LEMMA NextFile ==
  ASSUME NEW file \in 1..6, NEW left, left \subseteq file..5, left # {}
  PROVE  \E f \in left : \A g \in left : f <= g
<1>1. \A f \in left : f \in Nat /\ f <= 5 /\ f >= 1  OBVIOUS
<1>2. SUFFICES ASSUME \A f \in left : \E g \in left : g < f PROVE FALSE
  BY <1>1
<1>3. 1 \notin left  BY <1>1, <1>2
<1>4. 2 \notin left  BY <1>1, <1>2, <1>3
<1>5. 3 \notin left  BY <1>1, <1>2, <1>3, <1>4
<1>6. 4 \notin left  BY <1>1, <1>2, <1>3, <1>4, <1>5
<1>7. 5 \notin left  BY <1>1, <1>2, <1>3, <1>4, <1>5, <1>6
<1>8. PICK f \in left : TRUE  OBVIOUS
<1>9. f \in 1..5  BY <1>1, <1>8
<1>10. QED  BY <1>3, <1>4, <1>5, <1>6, <1>7, <1>8, <1>9

LEMMA InitInv == Init => IInv
<1> SUFFICES ASSUME Init PROVE IInv  OBVIOUS
<1>1. ProcessType
  BY DEF Init, Out, Progress, ProcessType, Progresses, Place, Column
<1>2. \A p \in Process : Behind(p)
  BY DEF Init, Out, Progress, Behind
<1>3. PICK known \in 0..4 :
        /\ recorded = 1..known
        /\ created = 1..known \ {Columns}
        /\ columns = IF known >= Columns THEN Column ELSE {}
  BY DEF Init
<1>4. recorded \subseteq File /\ columns \subseteq Column /\ \A f \in recorded : Applied(f)
  BY <1>3 DEF File, Columns, Applied
<1>5. QED  BY <1>1, <1>2, <1>4 DEF IInv

(* Nothing that is there goes away, so what the others have behind them    *)
(* stays behind them.                                                      *)
LEMMA OthersKeep ==
  ASSUME IInv, NEW p \in Process,
         recorded \subseteq recorded', created \subseteq created',
         columns \subseteq columns', recorded' \subseteq File, columns' \subseteq Column,
         \A q \in Process \ {p} :
           /\ process'[q].at = process[q].at
           /\ process'[q].file = process[q].file
           /\ process'[q].column = process[q].column
  PROVE  /\ \A q \in Process \ {p} : Behind(q)'
         /\ \A f \in recorded : Applied(f)'
<1>1. ASSUME NEW f \in File, Applied(f) PROVE Applied(f)'
  <2>1. CASE f = Columns
    <3>1. columns = Column  BY <1>1, <2>1 DEF Applied
    <3>2. columns' = Column  BY <3>1
    <3>3. QED  BY <2>1, <3>2 DEF Applied
  <2>2. CASE f # Columns
    BY <1>1, <2>2 DEF Applied
  <2>3. QED  BY <2>1, <2>2
<1>2. ASSUME NEW q \in Process \ {p} PROVE Behind(q)'
  <2>1. Behind(q) /\ process[q] \in Progresses  BY DEF IInv, ProcessType
  <2>2. /\ process'[q].at = process[q].at
        /\ process'[q].file = process[q].file
        /\ process'[q].column = process[q].column
    OBVIOUS
  <2>3. process'[q].at = "record" => Applied(process[q].file)'
    <3>1. SUFFICES ASSUME process[q].at = "record" PROVE Applied(process[q].file)'
      BY <2>2
    <3>2. process[q].file \in File /\ Applied(process[q].file)
      BY <2>1, <3>1 DEF Behind
    <3>3. QED  BY <1>1, <2>2, <3>2 DEF Applied
  <2>4. process[q].at = "open" => recorded' = File
    BY <2>1 DEF Behind
  <2>5. QED  BY <2>1, <2>2, <2>3, <2>4 DEF Behind
<1>3. QED  BY <1>1, <1>2 DEF IInv

LEMMA StepInv == IInv /\ [Next]_vars => IInv'
<1> SUFFICES ASSUME IInv, [Next]_vars PROVE IInv'  OBVIOUS
<1> USE DEF File, Columns, Rebuild, Column
<1>1. ASSUME NEW p \in Process, Step(p) PROVE IInv'
  <2> DEFINE Same(q) ==
        /\ process'[q].at = process[q].at
        /\ process'[q].file = process[q].file
        /\ process'[q].column = process[q].column
  <2>0. /\ ProcessType /\ process[p] \in Progresses
        /\ Behind(p) /\ recorded \subseteq File /\ columns \subseteq Column
    BY DEF IInv, ProcessType
  <2>1. /\ ProcessType'
        /\ recorded \subseteq recorded' /\ created \subseteq created'
        /\ columns \subseteq columns' /\ recorded' \subseteq File /\ columns' \subseteq Column
        /\ \A q \in Process \ {p} : Same(q)
        /\ \A f \in recorded' \ recorded : Applied(f)
        /\ Behind(p)'
    <3>1. CASE Open(p)
      <4> DEFINE alone == \A other \in Process \ {p} : ~Migrating(other)
                 new == Progress("look", 1, alone)
      <4>1. /\ process' = [q \in Process |->
                 IF q = p THEN new
                 ELSE IF Migrating(q) THEN [process[q] EXCEPT !.alone = FALSE]
                 ELSE process[q]]
            /\ UNCHANGED database
        BY <3>1 DEF Open
      <4>2. /\ new \in Progresses /\ new.at = "look" /\ new.file = 1
        <5> HIDE DEF alone
        <5>1. alone \in BOOLEAN  BY DEF alone
        <5>2. QED  BY <5>1 DEF Out, Place, Progress, Progresses
      <4> HIDE DEF new
      <4>3. ProcessType' /\ process'[p] = new /\ \A q \in Process \ {p} : Same(q)
        BY <2>0, <4>1, <4>2 DEF ProcessType, Progresses
      <4>4. Behind(p)'  BY <4>2, <4>3 DEF Behind
      <4>5. QED  BY <2>0, <4>1, <4>3, <4>4 DEF database
    <3>2. CASE Look(p)
      <4> DEFINE left == {f \in process[p].file..Rebuild : Missing(f)}
                 next == CHOOSE f \in left : \A g \in left : f <= g
      <4>1. CASE left = {}
        <5>1. process[p].at = "look" /\ process' = [process EXCEPT ![p] = Progress("open", 1, TRUE)]
              /\ UNCHANGED database
          BY <3>2, <4>1 DEF Look
        <5>2. recorded = File
          <6>1. ASSUME NEW f \in File PROVE f \in recorded
            <7>1. process[p].file \in 1..6  BY <2>0 DEF Progresses
            <7>2. CASE f < process[p].file  BY <2>0, <5>1, <7>2 DEF Behind
            <7>3. CASE ~(f < process[p].file)
              <8>1. f \in process[p].file..Rebuild  BY <7>1, <7>3
              <8>2. QED  BY <4>1, <8>1 DEF Missing
            <7>4. QED  BY <7>2, <7>3
          <6>2. QED  BY <2>0, <6>1
        <5> DEFINE new == Progress("open", 1, TRUE)
        <5>3. new \in Progresses /\ new.at = "open"
          BY DEF Out, Place, Progress, Progresses
        <5> HIDE DEF new
        <5>4. ProcessType' /\ process'[p] = new /\ \A q \in Process \ {p} : Same(q)
          BY <2>0, <5>1, <5>3, Moves DEF new
        <5>5. Behind(p)'  BY <5>1, <5>2, <5>3, <5>4 DEF Behind, database
        <5>6. QED  BY <2>0, <5>1, <5>4, <5>5 DEF database
      <4>2. CASE left # {}
        <5>1. /\ process[p].at = "look" /\ UNCHANGED database
              /\ process' = [process EXCEPT ![p] = Progress("apply", next, @.alone)]
          BY <3>2, <4>2 DEF Look
        <5>2. \E f \in left : \A g \in left : f <= g
          <6>1. process[p].file \in 1..6  BY <2>0 DEF Progresses
          <6>2. left \subseteq process[p].file..5  OBVIOUS
          <6>3. QED  BY <4>2, <6>1, <6>2, NextFile
        <5>3. next \in left /\ \A g \in left : next <= g  BY <5>2
        <5> HIDE DEF next
        <5>4. next \in File /\ \A f \in File : f < next => f \in recorded
          <6>1. process[p].file \in 1..6  BY <2>0 DEF Progresses
          <6>2. next \in File  BY <5>3, <6>1
          <6>3. ASSUME NEW f \in File, f < next PROVE f \in recorded
            <7>1. CASE f < process[p].file  BY <2>0, <5>1, <7>1 DEF Behind
            <7>2. CASE ~(f < process[p].file)
              <8>1. f \in process[p].file..Rebuild  BY <6>1, <7>2
              <8>2. f \notin left  BY <5>3, <6>2, <6>3
              <8>3. QED  BY <8>1, <8>2 DEF Missing
            <7>3. QED  BY <7>1, <7>2
          <6>4. QED  BY <6>2, <6>3
        <5> DEFINE new == Progress("apply", next, process[p].alone)
        <5>5. new \in Progresses /\ new.at = "apply" /\ new.file = next /\ new.column = 1
          BY <2>0, <5>4 DEF Place, Progress, Progresses
        <5> HIDE DEF new
        <5>6. ProcessType' /\ process'[p] = new /\ \A q \in Process \ {p} : Same(q)
          BY <2>0, <5>1, <5>5, Moves DEF new
        <5>7. Behind(p)'  BY <5>1, <5>4, <5>5, <5>6 DEF Behind, database
        <5>8. QED  BY <2>0, <5>1, <5>6, <5>7 DEF database
      <4>3. QED  BY <4>1, <4>2
    <3>3. CASE ApplyTables(p)
      BY <2>0, <3>3 DEF ApplyTables, At, Goto, Place, IInv, ProcessType, Progresses, Behind, Applied
    <3>4. CASE AddColumn(p)
      <4>1. /\ process[p].at = "apply" /\ process[p].file = Columns
            /\ columns' = columns \cup {process[p].column}
            /\ UNCHANGED <<recorded, created>>
        BY <3>4 DEF AddColumn, At
      <4>2. CASE process[p].column = 4
        BY <2>0, <3>4, <4>1, <4>2
           DEF AddColumn, Goto, Place, IInv, ProcessType, Progresses, Behind, Applied
      <4>3. CASE process[p].column # 4
        BY <2>0, <3>4, <4>1, <4>3
           DEF AddColumn, Goto, Place, IInv, ProcessType, Progresses, Behind, Applied
      <4>4. QED  BY <4>2, <4>3
    <3>5. CASE ColumnExists(p)
      BY <2>0, <3>5 DEF ColumnExists, At, Goto, database, Place, IInv, ProcessType, Progresses, Behind
    <3>6. CASE RebuildProjects(p)
      BY <2>0, <3>6 DEF RebuildProjects, At, Goto, Place, IInv, ProcessType, Progresses, Behind, Applied
    <3>7. CASE RebuildFails(p)
      BY <2>0, <3>7 DEF RebuildFails, At, Goto, database, Place, IInv, ProcessType, Progresses, Behind
    <3>8. CASE Record(p)
      <4> DEFINE f == process[p].file
      <4>1. f \in File /\ Applied(f) /\ process[p].at = "record"
            /\ UNCHANGED <<created, columns>>
        BY <2>0, <3>8 DEF Record, Behind
      <4>2. CASE f \in recorded
        BY <2>0, <3>8, <4>1, <4>2 DEF Record, Goto, Place, IInv, ProcessType, Progresses, Behind
      <4>3. CASE f \notin recorded
        <5> DEFINE new == IF f = Rebuild THEN Progress("open", 1, TRUE)
                          ELSE Progress("look", f + 1, process[p].alone)
        <5>1. recorded' = recorded \cup {f} /\ process' = [process EXCEPT ![p] = new]
          BY <3>8, <4>3 DEF Record
        <5>2. /\ new \in Progresses
              /\ f = Rebuild => new.at = "open"
              /\ f # Rebuild => new.at = "look" /\ new.file = f + 1
          <6>1. CASE f = Rebuild  BY <6>1 DEF Out, Place, Progress, Progresses
          <6>2. CASE f # Rebuild  BY <2>0, <4>1, <6>2 DEF Place, Progress, Progresses
          <6>3. QED  BY <6>1, <6>2
        <5> HIDE DEF new
        <5>3. ProcessType' /\ process'[p] = new /\ \A q \in Process \ {p} : Same(q)
          BY <2>0, <5>1, <5>2, Moves
        <5>4. \A g \in File : g <= f => g \in recorded'
          BY <2>0, <4>1, <5>1 DEF Behind
        <5>5. recorded' \subseteq File  BY <2>0, <4>1, <5>1
        <5>6. Behind(p)'
          <6>1. CASE f = Rebuild
            <7>1. \A g \in File : g \in recorded'  BY <5>4, <6>1
            <7>2. recorded' = File  BY <5>5, <7>1
            <7>3. QED  BY <5>2, <5>3, <6>1, <7>2 DEF Behind
          <6>2. CASE f # Rebuild
            BY <4>1, <5>2, <5>3, <5>4, <6>2 DEF Behind
          <6>3. QED  BY <6>1, <6>2
        <5>7. \A g \in recorded' \ recorded : Applied(g)  BY <4>1, <5>1
        <5>8. QED  BY <2>0, <4>1, <5>1, <5>3, <5>5, <5>6, <5>7
      <4>4. QED  BY <4>2, <4>3
    <3>9. CASE \E t \in Target : Scan(p, t)
      BY <2>0, <3>9 DEF Scan, IInv, ProcessType, Progresses, Behind
    <3>10. CASE Close(p)
      BY <2>0, <3>10 DEF Close, Out, Progress, database, Place, IInv, ProcessType, Progresses, Behind
    <3>11. CASE Kill(p)
      BY <2>0, <3>11 DEF Kill, Out, Progress, database, Place, IInv, ProcessType, Progresses, Behind
    <3>12. QED
      BY <1>1, <3>1, <3>2, <3>3, <3>4, <3>5, <3>6, <3>7, <3>8, <3>9, <3>10, <3>11 DEF Step
  <2>2. /\ \A q \in Process \ {p} : Behind(q)'
        /\ \A f \in recorded : Applied(f)'
    BY <2>1, OthersKeep
  <2>3. \A f \in recorded' : Applied(f)'
    <3>1. ASSUME NEW f \in recorded' \ recorded PROVE Applied(f)'
      BY <2>1, <3>1 DEF Applied
    <3>2. QED  BY <2>2, <3>1
  <2>4. QED  BY <2>1, <2>2, <2>3 DEF IInv
<1>2. CASE UNCHANGED vars
  BY <1>2 DEF vars, IInv, ProcessType, Progresses, Behind, Applied
<1>3. QED  BY <1>1, <1>2 DEF Next

LEMMA InvHolds == IInv => RecordedIsApplied
BY DEF IInv, Behind, RecordedIsApplied

(* Whatever is recorded in schema_migrations has been applied, and a       *)
(* process that has the database open finds all of it applied: for any     *)
(* number of processes that open it at once and are killed (migrate).      *)
THEOREM RecordIsTruthful == Spec => []RecordedIsApplied
BY InitInv, StepInv, InvHolds, PTL DEF Spec

-----------------------------------------------------------------------------
(* Until the last file is recorded no scan was made by this release, and   *)
(* projects are still told apart by their names.                           *)
ProjectInv ==
  /\ \A x \in projects : x = [id |-> x.id, name |-> x.name, key |-> x.key]
  /\ Rebuild \notin recorded =>
       NamesDiffer /\ \A x \in projects : x.key = x.name
  /\ \E n \in Nat : DOMAIN scans = 1..n

(* A process that has added one of the columns of the third file and not   *)
(* yet the last; and one that is past the last.                            *)
Ahead(p) == At(p, Columns) /\ process[p].column > 1
Through(p) == process[p].at = "record" /\ process[p].file = Columns

(* The columns are added in order, by one process: another that comes      *)
(* meanwhile fails at the first.  As long as none was killed, that process *)
(* is still there until the file is recorded.                              *)
ColumnInv ==
  /\ kills \in Nat
  /\ \E n \in 0..4 : columns = 1..n
  /\ \A p, q \in Process : Ahead(p) /\ Ahead(q) => p = q
  /\ \A p \in Process : Ahead(p) => columns = 1..(process[p].column - 1)
  /\ kills = 0 /\ columns # {} /\ Columns \notin recorded =>
       \E p \in Process : Ahead(p) \/ Through(p)

(* A process that migrates alone is the only one, and nobody records the   *)
(* file it is in.                                                          *)
AloneInv ==
  \A p \in Process : Migrating(p) /\ process[p].alone =>
    /\ \A q \in Process \ {p} : ~Migrating(q)
    /\ process[p].at # "look" => process[p].file \notin recorded

-----------------------------------------------------------------------------
(* A step moves one process; the others keep their places.                 *)
LEMMA OthersStay ==
  ASSUME IInv, NEW p \in Process, Step(p), NEW q \in Process \ {p}
  PROVE  /\ process'[q].at = process[q].at
         /\ process'[q].file = process[q].file
         /\ process'[q].column = process[q].column
         /\ process'[q].alone => process[q].alone
         /\ Migrating(q)' = Migrating(q)
<1>1. process \in [Process -> Progresses]  BY DEF IInv, ProcessType
<1>2. CASE Open(p)
  <2>1. process'[q] = IF Migrating(q) THEN [process[q] EXCEPT !.alone = FALSE]
                      ELSE process[q]
    BY <1>2 DEF Open
  <2>2. QED  BY <1>1, <2>1 DEF Progresses, Migrating
<1>3. CASE ~Open(p)
  <2>1. process'[q] = process[q]
    BY <1>1, <1>3 DEF Step, Look, ApplyTables, AddColumn, ColumnExists, RebuildProjects,
       RebuildFails, Record, Scan, Close, Kill, Goto
  <2>2. QED  BY <2>1 DEF Migrating
<1>4. QED  BY <1>2, <1>3

(* The rebuild gives every project its name for a key and nothing else.    *)
LEMMA RenamedProjects ==
  ASSUME ProjectInv, projects' = Renamed
  PROVE  /\ \A x \in projects : \E y \in projects' :
              y.id = x.id /\ y.name = x.name /\ y.key = x.name
         /\ \A y \in projects' : \E x \in projects :
              y = [id |-> x.id, name |-> x.name, key |-> x.name]
<1>1. ASSUME NEW x \in projects
      PROVE  [x EXCEPT !.key = x.name] = [id |-> x.id, name |-> x.name, key |-> x.name]
  <2>1. x = [id |-> x.id, name |-> x.name, key |-> x.key]  BY DEF ProjectInv
  <2>2. PICK i, n, k : x = [id |-> i, name |-> n, key |-> k]  BY <2>1
  <2>3. QED  BY <2>2
<1>2. QED  BY <1>1 DEF Renamed

LEMMA InitProjects == Init => ProjectInv
<1> SUFFICES ASSUME Init PROVE ProjectInv  OBVIOUS
<1>1. PICK names \in SUBSET Name :
        /\ \E id \in [names -> 1..Cardinality(names)] :
             projects = {[id |-> id[n], name |-> n, key |-> n] : n \in names}
        /\ scans = [i \in 1..Cardinality(names) |-> i]
  BY DEF Init
<1>2. PICK id : projects = {[id |-> id[n], name |-> n, key |-> n] : n \in names}
  BY <1>1
<1>3. \A x \in projects : \E n \in names : x = [id |-> id[n], name |-> n, key |-> n]
  BY <1>2
<1>4. \A x \in projects : x = [id |-> x.id, name |-> x.name, key |-> x.key] /\ x.key = x.name
  BY <1>3
<1>5. NamesDiffer
  <2>1. SUFFICES ASSUME NEW x \in projects, NEW y \in projects, x.name = y.name PROVE x = y
    BY DEF NamesDiffer
  <2>2. PICK m \in names : x = [id |-> id[m], name |-> m, key |-> m]  BY <1>3
  <2>3. PICK n \in names : y = [id |-> id[n], name |-> n, key |-> n]  BY <1>3
  <2>4. QED  BY <2>1, <2>2, <2>3
<1>6. Cardinality(names) \in Nat
  BY TargetAssumption, FS_Subset, FS_CardinalityType
<1>7. DOMAIN scans = 1..Cardinality(names)  BY <1>1
<1>8. QED  BY <1>4, <1>5, <1>6, <1>7 DEF ProjectInv

(* A new scan is added after the others, which stay as they are.           *)
LEMMA ScanAdds ==
  ASSUME ProjectInv, NEW p \in Process, NEW t \in Target, Scan(p, t)
  PROVE  /\ projects \subseteq projects'
         /\ \A i \in DOMAIN scans : i \in DOMAIN scans' /\ scans'[i] = scans[i]
         /\ \A x \in projects' : x = [id |-> x.id, name |-> x.name, key |-> x.key]
         /\ \E n \in Nat : DOMAIN scans' = 1..n
<1> DEFINE known == {x \in projects : x.key = t}
           new == [id |-> Cardinality(projects) + 1, name |-> NameOf[t], key |-> t]
           its == IF known = {} THEN new ELSE CHOOSE x \in known : TRUE
<1>1. /\ projects' = projects \cup {its}
      /\ scans' = [i \in 1..Cardinality(DOMAIN scans) + 1 |->
                     IF i \in DOMAIN scans THEN scans[i] ELSE its.id]
  BY DEF Scan
<1>2. its = new \/ its \in projects  OBVIOUS
<1>3. new = [id |-> new.id, name |-> new.name, key |-> new.key]  OBVIOUS
<1> HIDE DEF its, new
<1>4. \A x \in projects' : x = [id |-> x.id, name |-> x.name, key |-> x.key]
  BY <1>1, <1>2, <1>3 DEF ProjectInv
<1>5. PICK n \in Nat : DOMAIN scans = 1..n  BY DEF ProjectInv
<1>6. Cardinality(1..n) = n  BY <1>5, FS_Interval
<1>7. DOMAIN scans' = 1..(n + 1)  BY <1>1, <1>5, <1>6
<1>8. \A i \in 1..n : i \in 1..(n + 1)  BY <1>5
<1>9. \A i \in DOMAIN scans : scans'[i] = scans[i]  BY <1>1, <1>5, <1>6, <1>8
<1>10. \A i \in DOMAIN scans : i \in DOMAIN scans'  BY <1>5, <1>7, <1>8
<1>11. \E m \in Nat : DOMAIN scans' = 1..m  BY <1>5, <1>7
<1>12. QED  BY <1>1, <1>4, <1>9, <1>10, <1>11

LEMMA StepProjects == IInv /\ ProjectInv /\ [Next]_vars => ProjectInv'
<1> SUFFICES ASSUME IInv, ProjectInv, [Next]_vars PROVE ProjectInv'  OBVIOUS
<1>1. CASE UNCHANGED vars
  BY <1>1 DEF vars, ProjectInv, NamesDiffer
<1>2. ASSUME NEW p \in Process, Step(p) PROVE ProjectInv'
  <2>1. CASE \E t \in Target : Scan(p, t)
    <3>1. PICK t \in Target : Scan(p, t)  BY <2>1
    <3>2. Rebuild \in recorded /\ recorded' = recorded
      BY <3>1 DEF Scan, IInv, Behind, File, Rebuild
    <3>3. QED  BY <3>1, <3>2, ScanAdds DEF ProjectInv
  <2>2. CASE RebuildProjects(p)
    <3>1. NamesDiffer /\ projects' = Renamed /\ scans' = scans
      BY <2>2 DEF RebuildProjects
    <3>2. \A y \in projects' : \E x \in projects :
              y = [id |-> x.id, name |-> x.name, key |-> x.name]
      BY <3>1, RenamedProjects
    <3>3. \A y \in projects' : /\ y = [id |-> y.id, name |-> y.name, key |-> y.key]
                               /\ y.key = y.name
      BY <3>2
    <3>4. ASSUME NEW y \in projects', NEW z \in projects', y.name = z.name PROVE y = z
      <4>1. PICK u \in projects : y = [id |-> u.id, name |-> u.name, key |-> u.name]  BY <3>2
      <4>2. PICK v \in projects : z = [id |-> v.id, name |-> v.name, key |-> v.name]  BY <3>2
      <4>3. u = v  BY <3>1, <3>4, <4>1, <4>2 DEF NamesDiffer
      <4>4. QED  BY <4>1, <4>2, <4>3
    <3>5. QED  BY <3>1, <3>3, <3>4 DEF ProjectInv, NamesDiffer
  <2>3. CASE ~RebuildProjects(p) /\ ~ \E t \in Target : Scan(p, t)
    <3>1. projects' = projects /\ scans' = scans /\ recorded \subseteq recorded'
      BY <1>2, <2>3 DEF Step, Open, Look, ApplyTables, AddColumn, ColumnExists, RebuildFails,
         Record, Close, Kill, database
    <3>2. QED  BY <3>1 DEF ProjectInv, NamesDiffer
  <2>4. QED  BY <2>1, <2>2, <2>3
<1>3. QED  BY <1>1, <1>2 DEF Next

(* No migration, whoever else migrates and wherever it is killed, loses a  *)
(* project or a scan, gives a scan to another project or changes a key,    *)
(* the repeated rebuild excepted: for any number of processes (migrate).   *)
THEOREM ProjectsAreKept == Spec => ProjectsKept
<1> DEFINE Kept == /\ \A i \in DOMAIN scans : i \in DOMAIN scans' /\ scans'[i] = scans[i]
                   /\ \A x \in projects : \E y \in projects' :
                        /\ y.id = x.id /\ y.name = x.name
                        /\ \/ y.key = x.key
                           \/ Rebuild \in recorded /\ \E p \in Process : At(p, Rebuild)
<1>1. ASSUME IInv, ProjectInv, [Next]_vars PROVE [Kept]_vars
  <2>1. SUFFICES ASSUME NEW p \in Process, Step(p) PROVE Kept
    BY <1>1 DEF Next
  <2>2. CASE \E t \in Target : Scan(p, t)
    BY <1>1, <2>2, ScanAdds
  <2>3. CASE RebuildProjects(p)
    <3>1. projects' = Renamed /\ scans' = scans /\ At(p, Rebuild)
      BY <2>3 DEF RebuildProjects
    <3>2. ASSUME NEW x \in projects
          PROVE  \E y \in projects' :
                   /\ y.id = x.id /\ y.name = x.name
                   /\ \/ y.key = x.key
                      \/ Rebuild \in recorded /\ \E q \in Process : At(q, Rebuild)
      <4>1. PICK y \in projects' : y.id = x.id /\ y.name = x.name /\ y.key = x.name
        BY <1>1, <3>1, RenamedProjects
      <4>2. Rebuild \notin recorded => x.key = x.name  BY <1>1 DEF ProjectInv
      <4>3. QED  BY <3>1, <4>1, <4>2
    <3>3. QED  BY <3>1, <3>2
  <2>4. CASE ~RebuildProjects(p) /\ ~ \E t \in Target : Scan(p, t)
    <3>1. projects' = projects /\ scans' = scans
      BY <2>1, <2>4 DEF Step, Open, Look, ApplyTables, AddColumn, ColumnExists, RebuildFails,
         Record, Close, Kill, database
    <3>2. QED  BY <3>1
  <2>5. QED  BY <2>2, <2>3, <2>4
<1>2. QED
  BY <1>1, InitInv, StepInv, InitProjects, StepProjects, PTL DEF Spec, ProjectsKept

-----------------------------------------------------------------------------
LEMMA InitColumns == Init => ColumnInv
<1> SUFFICES ASSUME Init PROVE ColumnInv  OBVIOUS
<1>1. PICK known \in 0..4 :
        recorded = 1..known /\ columns = IF known >= Columns THEN Column ELSE {}
  BY DEF Init
<1>2. \A p \in Process : process[p].at = "out"  BY DEF Init, Out, Progress
<1>3. columns = 1..4 \/ columns = 1..0  BY <1>1 DEF Column
<1>4. columns # {} => Columns \in recorded  BY <1>1 DEF Columns
<1>5. kills = 0  BY DEF Init
<1>6. QED  BY <1>2, <1>3, <1>4, <1>5 DEF ColumnInv, Ahead, At

(* What a step leaves of the columns' part when it adds none.              *)
LEMMA SameColumns ==
  ASSUME IInv, ColumnInv, NEW p \in Process, Step(p), ~AddColumn(p)
  PROVE  ColumnInv'
<1>0. kills' = kills \/ (Kill(p) /\ kills' = kills + 1)
  BY DEF Step, Open, Look, ApplyTables, ColumnExists, RebuildProjects, RebuildFails,
     Record, Scan, Close, Kill, database
<1>1. /\ process[p] \in Progresses /\ columns' = columns
      /\ recorded \subseteq recorded' /\ recorded' \subseteq recorded \cup {process[p].file}
  BY DEF IInv, ProcessType, Step, Open, Look, ApplyTables, AddColumn, ColumnExists,
     RebuildProjects, RebuildFails, Record, Scan, Close, Kill, database
<1>2. \A q \in Process : Ahead(q)' => Ahead(q) /\ process'[q].column = process[q].column
  <2>1. ASSUME NEW q \in Process \ {p}, Ahead(q)'
        PROVE  Ahead(q) /\ process'[q].column = process[q].column
    BY <2>1, OthersStay DEF Ahead, At
  <2>2. ~Ahead(p)'
    <3>1. process \in [Process -> Progresses]  BY DEF IInv, ProcessType
    <3>2. CASE Look(p)
      <4> DEFINE left == {f \in process[p].file..Rebuild : Missing(f)}
                 next == CHOOSE f \in left : \A g \in left : f <= g
      <4>1. process' = [process EXCEPT ![p] =
              IF left = {} THEN Progress("open", 1, TRUE)
              ELSE Progress("apply", next, @.alone)]
        BY <3>2 DEF Look
      <4> HIDE DEF left, next
      <4>2. \/ process'[p] = Progress("open", 1, TRUE)
            \/ process'[p] = Progress("apply", next, process[p].alone)
        BY <3>1, <4>1
      <4>3. process'[p].column = 1  BY <4>2 DEF Progress
      <4>4. QED  BY <4>3 DEF Ahead
    <3>3. CASE Open(p)
      <4> DEFINE alone == \A other \in Process \ {p} : ~Migrating(other)
      <4>1. process'[p] = Progress("look", 1, alone)  BY <3>3 DEF Open
      <4>2. process'[p].at = "look"  BY <4>1 DEF Progress
      <4>3. QED  BY <4>2 DEF Ahead, At
    <3>4. CASE Record(p)
      <4>1. process'[p].at \in {"failed", "open", "look"}
        <5>1. CASE process[p].file \in recorded
          BY <3>1, <3>4, <5>1 DEF Record, Goto, Progresses
        <5>2. CASE process[p].file \notin recorded
          BY <3>1, <3>4, <5>2 DEF Record, Progress
        <5>3. QED  BY <5>1, <5>2
      <4>2. QED  BY <4>1 DEF Ahead, At
    <3>5. CASE \E t \in Target : Scan(p, t)
      BY <3>5 DEF Scan, Ahead, At
    <3>6. CASE ApplyTables(p) \/ ColumnExists(p) \/ RebuildProjects(p) \/ RebuildFails(p)
               \/ Close(p) \/ Kill(p)
      <4>1. process'[p].at \in {"record", "failed", "out"}
        BY <3>1, <3>6 DEF ApplyTables, ColumnExists, RebuildProjects, RebuildFails, Close, Kill,
           Goto, Out, Progress, Progresses
      <4>2. QED  BY <4>1 DEF Ahead, At
    <3>7. QED  BY <3>2, <3>3, <3>4, <3>5, <3>6 DEF Step
  <2>3. QED  BY <2>1, <2>2
<1>3. ASSUME kills' = 0, columns # {}, Columns \notin recorded'
      PROVE  \E q \in Process : (Ahead(q) \/ Through(q))'
  <2>1. kills = 0 /\ ~Kill(p)
    <3>1. ~Kill(p)  BY <1>3 DEF Kill, ColumnInv
    <3>2. kills' = kills  BY <1>0, <3>1
    <3>3. QED  BY <1>3, <3>1, <3>2
  <2>2. PICK q \in Process : Ahead(q) \/ Through(q)
    BY <1>1, <1>3, <2>1 DEF ColumnInv
  <2>3. CASE q # p
    BY <2>2, <2>3, OthersStay DEF Ahead, Through, At
  <2>4. CASE q = p
    <3>1. process[p].at \in {"apply", "record"} /\ process[p].file = Columns
      BY <2>2, <2>4 DEF Ahead, Through, At
    <3>2. Ahead(p) => process[p].column \notin columns
      BY <1>1 DEF ColumnInv, Progresses, Column
    <3>3. ~ColumnExists(p)
      BY <2>2, <2>4, <3>2 DEF ColumnExists, Through, At
    <3>4. ~ApplyTables(p) /\ ~RebuildProjects(p) /\ ~RebuildFails(p)
      BY <3>1 DEF ApplyTables, RebuildProjects, RebuildFails, At, Columns, Rebuild
    <3>5. ~Open(p) /\ ~Look(p) /\ ~Close(p) /\ ~ \E t \in Target : Scan(p, t)
      BY <3>1 DEF Open, Look, Close, Scan
    <3>6. Record(p)  BY <2>1, <3>3, <3>4, <3>5 DEF Step
    <3>7. Columns \in recorded'  BY <3>1, <3>6 DEF Record
    <3>8. QED  BY <1>3, <3>7
  <2>5. QED  BY <2>3, <2>4
<1>4. QED
  <2>1. \E n \in 0..4 : columns' = 1..n  BY <1>1 DEF ColumnInv
  <2>2. \A q, r \in Process : Ahead(q)' /\ Ahead(r)' => q = r  BY <1>2 DEF ColumnInv
  <2>3. \A q \in Process : Ahead(q)' => columns' = 1..(process'[q].column - 1)
    BY <1>1, <1>2 DEF ColumnInv
  <2>4. kills' = 0 /\ columns' # {} /\ Columns \notin recorded' =>
          \E q \in Process : (Ahead(q) \/ Through(q))'
    BY <1>1, <1>3
  <2>5. kills' \in Nat  BY <1>0 DEF ColumnInv
  <2>6. QED  BY <2>1, <2>2, <2>3, <2>4, <2>5 DEF ColumnInv

(* A column is added by the process that is ahead or, if it is the first   *)
(* one, by one that gets ahead by it.                                      *)
LEMMA AddColumnKeeps ==
  ASSUME IInv, ColumnInv, NEW p \in Process, AddColumn(p)
  PROVE  ColumnInv'
<1> DEFINE c == process[p].column
<1>1. process \in [Process -> Progresses] /\ process[p] \in Progresses  BY DEF IInv, ProcessType
<1>2. At(p, Columns) /\ c \in 1..4 /\ c \notin columns
      /\ columns' = columns \cup {c} /\ UNCHANGED <<recorded, kills>>
  BY <1>1 DEF AddColumn, Progresses, Column
<1>3. columns = 1..(c - 1)
  <2>1. PICK n \in 0..4 : columns = 1..n  BY DEF ColumnInv
  <2>2. CASE c = 1  BY <1>2, <2>1, <2>2
  <2>3. CASE c # 1  BY <1>2, <2>3 DEF ColumnInv, Ahead
  <2>4. QED  BY <2>2, <2>3
<1>4. ASSUME NEW q \in Process \ {p} PROVE ~Ahead(q)'
  <2>1. ~Ahead(q)
    <3>1. SUFFICES ASSUME Ahead(q) PROVE FALSE  OBVIOUS
    <3>2. process[q].column \in 2..4 /\ columns = 1..(process[q].column - 1)
      BY <1>1, <3>1 DEF Ahead, ColumnInv, Progresses, Column
    <3>3. 1 \in columns  BY <3>2
    <3>4. Ahead(p)  BY <1>2, <3>3 DEF Ahead
    <3>5. QED  BY <3>1, <3>4 DEF ColumnInv
  <2>2. Step(p)  BY DEF Step
  <2>3. QED  BY <2>1, <2>2, OthersStay DEF Ahead, At
<1>5. columns' = 1..c  BY <1>2, <1>3
<1>6. Ahead(p)' => process'[p].column = c + 1 /\ c # 4
  <2>1. CASE c = 4
    BY <1>1, <2>1 DEF AddColumn, Goto, Ahead, At, Progresses
  <2>2. CASE c # 4
    BY <1>1, <1>2, <2>2 DEF AddColumn, Progresses
  <2>3. QED  BY <2>1, <2>2
<1>7. Ahead(p)' \/ Through(p)'
  <2>1. CASE c = 4
    BY <1>1, <1>2, <2>1 DEF AddColumn, Goto, Through, At, Progresses
  <2>2. CASE c # 4
    BY <1>1, <1>2, <2>2 DEF AddColumn, Ahead, At, Progresses
  <2>3. QED  BY <2>1, <2>2
<1>8. \A q \in Process : Ahead(q)' => q = p  BY <1>4
<1>9. \A q \in Process : Ahead(q)' => columns' = 1..(process'[q].column - 1)
  <2>1. c \in 1..4  BY <1>2
  <2> HIDE DEF c
  <2>2. SUFFICES ASSUME Ahead(p)' PROVE columns' = 1..(process'[p].column - 1)
    BY <1>8
  <2>3. process'[p].column - 1 = c  BY <1>6, <2>1, <2>2
  <2>4. QED  BY <1>5, <2>3
<1>10. \E n \in 0..4 : columns' = 1..n  BY <1>2, <1>5
<1>11. QED  BY <1>2, <1>7, <1>8, <1>9, <1>10 DEF ColumnInv

LEMMA StepColumns == IInv /\ ColumnInv /\ [Next]_vars => ColumnInv'
<1> SUFFICES ASSUME IInv, ColumnInv, [Next]_vars PROVE ColumnInv'  OBVIOUS
<1>1. CASE UNCHANGED vars
  BY <1>1 DEF vars, ColumnInv, Ahead, Through, At
<1>2. CASE Next
  BY <1>2, AddColumnKeeps, SameColumns DEF Next
<1>3. QED  BY <1>1, <1>2

-----------------------------------------------------------------------------
LEMMA InitAlone == Init => AloneInv
BY DEF Init, Out, Progress, AloneInv, Migrating

(* What a process that migrates knows of itself after its own step.        *)
LEMMA OwnStep ==
  ASSUME IInv, AloneInv, NEW p \in Process, Step(p),
         Migrating(p)', process'[p].alone
  PROVE  /\ Open(p) \/ (Migrating(p) /\ process[p].alone)
         /\ process'[p].at # "look" => process'[p].file \notin recorded'
<1>1. process \in [Process -> Progresses] /\ process[p] \in Progresses  BY DEF IInv, ProcessType
<1>2. CASE Open(p)
  <2> DEFINE alone == \A other \in Process \ {p} : ~Migrating(other)
  <2>1. process'[p] = Progress("look", 1, alone)  BY <1>2 DEF Open
  <2>2. QED  BY <1>2, <2>1 DEF Progress
<1>3. CASE Look(p)
  <2> DEFINE left == {f \in process[p].file..Rebuild : Missing(f)}
             next == CHOOSE f \in left : \A g \in left : f <= g
  <2>1. recorded' = recorded /\ process[p].at = "look"
        /\ process' = [process EXCEPT ![p] =
            IF left = {} THEN Progress("open", 1, TRUE)
            ELSE Progress("apply", next, @.alone)]
    BY <1>3 DEF Look, database
  <2>2. left # {} => next \in left
    <3>1. process[p].file \in 1..6  BY <1>1 DEF Progresses
    <3>2. left \subseteq process[p].file..5  BY DEF Rebuild
    <3>3. QED  BY <3>1, <3>2, NextFile
  <2>3. next \in left => next \notin recorded  BY DEF Missing
  <2> HIDE DEF left, next
  <2>4. CASE left = {}
    <3>1. process'[p] = Progress("open", 1, TRUE)  BY <1>1, <2>1, <2>4
    <3>2. QED  BY <3>1 DEF Progress, Migrating
  <2>5. CASE left # {}
    <3>1. process'[p] = Progress("apply", next, process[p].alone)  BY <1>1, <2>1, <2>5
    <3>2. QED  BY <2>1, <2>2, <2>3, <2>5, <3>1 DEF Progress, Migrating
  <2>6. QED  BY <2>4, <2>5
<1>4. CASE Record(p)
  <2>1. CASE process[p].file \in recorded
    BY <1>1, <1>4, <2>1 DEF Record, Goto, Migrating, Progresses
  <2>2. CASE process[p].file \notin recorded
    BY <1>1, <1>4, <2>2 DEF Record, Progress, Migrating, Progresses
  <2>3. QED  BY <2>1, <2>2
<1>5. CASE ApplyTables(p) \/ AddColumn(p) \/ RebuildProjects(p)
  <2>1. /\ process[p].at = "apply" /\ recorded' = recorded
        /\ process'[p].file = process[p].file /\ process'[p].alone = process[p].alone
    BY <1>1, <1>5 DEF ApplyTables, AddColumn, RebuildProjects, At, Goto, Progresses
  <2>2. QED  BY <2>1 DEF AloneInv, Migrating
<1>6. CASE \E t \in Target : Scan(p, t)
  BY <1>6 DEF Scan, Migrating
<1>7. CASE ColumnExists(p) \/ RebuildFails(p) \/ Close(p) \/ Kill(p)
  <2>1. process'[p].at \in {"failed", "out"}
    BY <1>1, <1>7 DEF ColumnExists, RebuildFails, Close, Kill, Goto, Out, Progress, Progresses
  <2>2. QED  BY <2>1 DEF Migrating
<1>8. QED  BY <1>2, <1>3, <1>4, <1>5, <1>6, <1>7 DEF Step

LEMMA StepAlone == IInv /\ AloneInv /\ [Next]_vars => AloneInv'
<1> SUFFICES ASSUME IInv, AloneInv, [Next]_vars PROVE AloneInv'  OBVIOUS
<1>1. CASE UNCHANGED vars
  BY <1>1 DEF vars, AloneInv, Migrating
<1>2. ASSUME NEW p \in Process, Step(p) PROVE AloneInv'
  <2>1. ASSUME NEW q \in Process, Migrating(q)', process'[q].alone
        PROVE  /\ \A other \in Process \ {q} : ~Migrating(other)'
               /\ process'[q].at # "look" => process'[q].file \notin recorded'
    <3>1. CASE q = p
      <4>1. /\ Open(p) \/ (Migrating(p) /\ process[p].alone)
            /\ process'[p].at # "look" => process'[p].file \notin recorded'
        BY <1>2, <2>1, <3>1, OwnStep
      <4>2. \A other \in Process \ {p} : ~Migrating(other)
        <5>1. CASE Open(p)
          <6> DEFINE alone == \A other \in Process \ {p} : ~Migrating(other)
          <6>1. process'[p] = Progress("look", 1, alone)  BY <5>1 DEF Open
          <6>2. process'[p].alone = alone  BY <6>1 DEF Progress
          <6>3. QED  BY <2>1, <3>1, <6>2
        <5>2. CASE Migrating(p) /\ process[p].alone  BY <5>2 DEF AloneInv
        <5>3. QED  BY <4>1, <5>1, <5>2
      <4>3. QED  BY <1>2, <3>1, <4>1, <4>2, OthersStay
    <3>2. CASE q # p
      <4>1. /\ Migrating(q) /\ process[q].alone
            /\ process'[q].at = process[q].at /\ process'[q].file = process[q].file
        BY <1>2, <2>1, <3>2, OthersStay
      <4>2. /\ \A other \in Process \ {q} : ~Migrating(other)
            /\ process[q].at # "look" => process[q].file \notin recorded
        BY <4>1 DEF AloneInv
      <4>3. ~Open(p)
        <5>1. SUFFICES ASSUME Open(p) PROVE FALSE  OBVIOUS
        <5>2. process'[q] = [process[q] EXCEPT !.alone = FALSE]
          BY <3>2, <4>1, <5>1 DEF Open
        <5>3. process[q] \in Progresses  BY DEF IInv, ProcessType
        <5>4. QED  BY <2>1, <5>2, <5>3 DEF Progresses
      <4>4. ~Migrating(p)  BY <3>2, <4>2
      <4>5. Close(p) \/ \E t \in Target : Scan(p, t)
        BY <1>2, <4>3, <4>4 DEF Step, Look, ApplyTables, AddColumn, ColumnExists,
           RebuildProjects, RebuildFails, Record, Kill, At, Migrating
      <4>6. recorded' = recorded /\ ~Migrating(p)'
        <5>1. CASE Close(p)
          BY <5>1 DEF Close, Out, Progress, Migrating, database, IInv, ProcessType
        <5>2. CASE \E t \in Target : Scan(p, t)
          BY <4>4, <5>2 DEF Scan, Migrating
        <5>3. QED  BY <4>5, <5>1, <5>2
      <4>7. \A other \in Process \ {q} : ~Migrating(other)'
        BY <1>2, <4>2, <4>6, OthersStay
      <4>8. QED  BY <4>1, <4>2, <4>6, <4>7
    <3>3. QED  BY <3>1, <3>2
  <2>2. QED  BY <2>1 DEF AloneInv
<1>3. QED  BY <1>1, <1>2 DEF Next

(* A process that is the only one to migrate from its look at the records  *)
(* to its end gets the database open, in whatever state an older release   *)
(* or processes that failed left it, provided that none was ever killed:   *)
(* for any number of processes (migrate).                                  *)
THEOREM AloneDoesOpen == Spec => AloneOpens
<1> DEFINE Opens == \A p \in Process :
             Migrating(p) /\ process[p].alone /\ kills = 0 => process'[p].at # "failed"
<1>1. ASSUME IInv, ProjectInv, ColumnInv, AloneInv, [Next]_vars PROVE [Opens]_vars
  <2>1. SUFFICES ASSUME NEW p \in Process, Step(p), NEW q \in Process,
                        Migrating(q), process[q].alone, kills = 0
                 PROVE  process'[q].at # "failed"
    BY <1>1 DEF Next
  <2>2. CASE q # p
    BY <1>1, <2>1, <2>2, OthersStay DEF Migrating
  <2>3. CASE q = p
    <3>1. /\ process \in [Process -> Progresses] /\ process[p] \in Progresses
          /\ \A other \in Process \ {p} : ~Migrating(other)
          /\ process[p].at # "look" => process[p].file \notin recorded
      BY <1>1, <2>1, <2>3 DEF AloneInv, IInv, ProcessType
    <3>2. ~ColumnExists(p)
      <4>1. SUFFICES ASSUME At(p, Columns), process[p].column \in columns PROVE FALSE
        BY DEF ColumnExists
      <4>2. PICK r \in Process : Ahead(r) \/ Through(r)
        BY <1>1, <2>1, <3>1, <4>1 DEF ColumnInv, At
      <4>3. r = p  BY <3>1, <4>2 DEF Ahead, Through, At, Migrating
      <4>4. Ahead(p)  BY <4>1, <4>2, <4>3 DEF Through, At
      <4>5. columns = 1..(process[p].column - 1)  BY <1>1, <4>4 DEF ColumnInv
      <4>6. process[p].column \in 1..4  BY <3>1 DEF Progresses, Column
      <4>7. QED  BY <4>1, <4>5, <4>6
    <3>3. ~RebuildFails(p)
      BY <1>1, <3>1 DEF RebuildFails, At, ProjectInv
    <3>4. CASE Record(p)
      BY <2>3, <3>1, <3>4 DEF Record, Progress
    <3>5. CASE Look(p)
      BY <2>3, <3>1, <3>5 DEF Look, Progress
    <3>6. CASE ApplyTables(p) \/ AddColumn(p) \/ RebuildProjects(p) \/ Kill(p)
      BY <2>3, <3>1, <3>6 DEF ApplyTables, AddColumn, RebuildProjects, Kill, At, Goto, Out, Progress,
         Progresses
    <3>7. QED
      BY <2>1, <2>3, <3>2, <3>3, <3>4, <3>5, <3>6 DEF Step, Open, Close, Scan, Migrating
  <2>4. QED  BY <2>2, <2>3
<1>2. QED
  BY <1>1, InitInv, StepInv, InitProjects, StepProjects, InitColumns, StepColumns,
     InitAlone, StepAlone, PTL DEF Spec, AloneOpens
=============================================================================
