------------------------- MODULE ScanHistoryProofs -------------------------
(***************************************************************************)
(* What a scan that ended left on record, for every set of scans, projects *)
(* and hashes, every job and every output of the engines: that it is       *)
(* complete, that it is what the engines reported, what made a statement   *)
(* fail, and what was published of it; that the tables implement the       *)
(* ledger of ScanLedger; and what no step does: which records can go, and  *)
(* with what, and that every worker comes to an end.                       *)
(*                                                                         *)
(* Six invariants are added to IInv of ScanFlowProofs, one per question:   *)
(* where a worker is in its plan and what its row says of it (PlaceInv),   *)
(* what its plan still lacks (PlanInv), which rows it can count on         *)
(* (ErrorInv), who has observed a finding (LatestInv), what of a report is *)
(* stored (HistoryInv) and what was announced (EventInv).  Each is shown   *)
(* to survive the steps of runEngine, the worker's other steps, and the    *)
(* steps that are no worker's.                                             *)
(***************************************************************************)
EXTENDS ScanFlowProofs

----------------------------------------------------------------------------
(* Where a worker is *)

Storing == {"upsert", "assoc"}
Closing == {"sbom", "finish", "announce", "done"}

(* A worker is at an engine of its plan until it is past the last, or past  *)
(* the one whose failure stops it; and it holds an output only while it     *)
(* stores it.                                                               *)
PlaceSound(s, t) ==
  /\ t.pos >= 1
  /\ t.pc \in Storing \cup {"engine"} =>
       Job[s].kind = "engines" /\ t.pos <= Job[s].engines
  /\ t.pc \in Closing /\ t.err = "none" /\ Job[s].kind = "engines" =>
       t.pos >= Job[s].engines
  /\ t.pc \notin Storing \cup {"dead"} => t.out = <<>>
  /\ Job[s].kind = "sbom" => t.err = "none"
  /\ t.pc \in {"idle", "project"} =>
       t.pos = 1 /\ t.ran = 0 /\ t.skipped = {} /\ t.reported = {} /\ t.err = "none"

(* Its scan has a row from beginScan on, until it is deleted, and the row   *)
(* says completed only when the worker has written that.                    *)
RowSound(s, t) ==
  /\ t.pc \in {"idle", "project"} => scanStatus[s] = "none"
  /\ scanStatus[s] = "none" => t.pc \in {"idle", "project", "refused", "dead"}
  /\ scanStatus[s] = "completed" =>
       t.pc \in {"announce", "done", "dead"} /\ t.err = "none"
  /\ t.pc \in Live => ProjectOf[s] \in projects

PlaceInv == \A s \in Scan : PlaceSound(s, task[s]) /\ RowSound(s, task[s])

----------------------------------------------------------------------------
(* Plans *)

RanWell(s, i) == [run |-> <<s, i>>, status |-> "completed"] \in engineRuns

(* Of the engines a worker is past none is missing, as long as no error was *)
(* noted and the scan was not deleted.                                      *)
PlanSound(s, t) ==
  Present(s) /\ t.err = "none" /\ t.pc \in Storing \cup Closing \cup {"engine"} =>
    IF Job[s].kind = "sbom"
      THEN t.pc \in Closing \ {"sbom"} /\ ~t.sbomErr => s \in artifacts
      ELSE /\ \A i \in 1..Job[s].engines :
                RunUsed(t, i) => RanWell(s, i) \/ i \in t.skipped
           /\ t.ran # 0 => \E i \in 1..Job[s].engines : RanWell(s, i)

PlanInv == (\A s \in Scan : PlanSound(s, task[s])) /\ CompletedIsComplete

----------------------------------------------------------------------------
(* Errors *)

(* The row a worker is about to tie to its scan is there, unless the scan   *)
(* that reported it last was deleted meanwhile.                             *)
ErrorInv ==
  /\ StoreErrorNeedsDeletion
  /\ \A s \in Scan :
       task[s].pc = "assoc" /\ ~ProjectLostAScan(s) =>
         \E f \in findings : f.id = task[s].row

----------------------------------------------------------------------------
(* Observations *)

(* A finding was observed by the scan it names as its latest, or is about   *)
(* to be, or never will be by a scan that does not complete.                *)
LatestSound(f) ==
  LET s == f.scan IN
  /\ Job[s].kind = "engines"
  /\ \/ \E a \in scanFindings : a.scan = s /\ a.finding = f.id
     \/ task[s].pc = "assoc" /\ task[s].row = f.id
     \/ task[s].err # "none"
     \/ task[s].pc = "dead" /\ scanStatus[s] # "completed"

LatestInv == \A f \in findings : LatestSound(f)

Held(t) == {t.out[i] : i \in DOMAIN t.out}

(* What was reported has been observed or is still held.                    *)
HistoryInv ==
  /\ HistoryIsWhatWasReported
  /\ \A s \in Scan :
       /\ task[s].pc \in Storing => Held(task[s]) \subseteq task[s].reported
       /\ task[s].err = "none" /\ task[s].pc # "dead" /\ ~ProjectLostAScan(s) =>
            task[s].reported = Observed(s) \cup Held(task[s])

----------------------------------------------------------------------------
(* Events *)

EventInv ==
  /\ EventsMatchRows
  /\ \A e \in events :
       /\ task[e.scan].pc \notin {"idle", "project"}
       /\ e.pos = 0 => task[e.scan].pc = "done"
  /\ \A s \in Scan : faults = 0 /\ task[s].pc \in {"announce", "done"} /\ Present(s) =>
       scanStatus[s] = Verdict(s)

----------------------------------------------------------------------------
(* What a worker's step does to the worker *)

Alone(s) == \A x \in Scan : x # s => task'[x] = task[x]

(* It is past the engine it was at, at the next one or past them all. *)
Onward(s, t, u) ==
  /\ u.out = <<>>
  /\ IF t.pos = Job[s].engines \/ (Job[s].failFast /\ u.err # "none")
       THEN u.pc = AfterEngines(s) /\ u.pos = t.pos
       ELSE u.pc = "engine" /\ u.pos = t.pos + 1

SameNotes(t, u) ==
  /\ u.ran = t.ran /\ u.skipped = t.skipped /\ u.err = t.err
  /\ u.sbomErr = t.sbomErr /\ u.reported = t.reported

LEMMA PastEngine ==
  ASSUME NEW s \in Scan, NEW v \in Task
  PROVE  /\ AfterEngine(s, v) \in Task
         /\ Onward(s, v, AfterEngine(s, v))
         /\ SameNotes(v, AfterEngine(s, v))
<1>1. AfterEngine(s, v) \in Task
  BY AfterEngineType
<1>2. DOMAIN v = DOMAIN NewTask
  BY DEF Task, NewTask
<1>3. Onward(s, v, AfterEngine(s, v)) /\ SameNotes(v, AfterEngine(s, v))
  <2>1. CASE v.pos = Job[s].engines \/ (Job[s].failFast /\ v.err # "none")
    BY <1>2, <2>1 DEF AfterEngine, AfterEngines, Onward, SameNotes, Task
  <2>2. CASE ~(v.pos = Job[s].engines \/ (Job[s].failFast /\ v.err # "none"))
    BY <1>2, <2>2 DEF AfterEngine, Onward, SameNotes, Task
  <2> QED
    BY <2>1, <2>2
<1> QED
  BY <1>1, <1>3

LEMMA Moved ==
  ASSUME TypeOK, NEW s \in Scan, NEW u, Goto(s, u)
  PROVE  task'[s] = u /\ Alone(s) /\ task[s] \in Task
BY DEF TypeOK, Goto, Alone

LEMMA SkipEffect ==
  ASSUME TypeOK, NEW s \in Scan, SkipEngine(s)
  PROVE  /\ task[s].pc = "engine" /\ Alone(s)
         /\ Onward(s, task[s], task'[s])
         /\ task'[s].skipped = task[s].skipped \cup {task[s].pos}
         /\ task'[s].ran = task[s].ran /\ task'[s].err = task[s].err
         /\ task'[s].sbomErr = task[s].sbomErr
         /\ task'[s].reported = task[s].reported
<1> DEFINE t == task[s]
<1>1. PICK v : v = [t EXCEPT !.skipped = @ \cup {t.pos}]
  OBVIOUS
<1>2. Goto(s, AfterEngine(s, v)) /\ t.pc = "engine"
  BY <1>1 DEF SkipEngine, At
<1>3. t \in Task /\ task'[s] = AfterEngine(s, v) /\ Alone(s)
  BY <1>2, Moved
<1>4. v \in Task
  BY <1>1, <1>3, ResultType
<1>5. /\ v.pos = t.pos /\ v.skipped = t.skipped \cup {t.pos}
      /\ v.ran = t.ran /\ v.err = t.err /\ v.sbomErr = t.sbomErr
      /\ v.reported = t.reported
  BY <1>1, <1>3 DEF Task
<1> QED
  BY <1>2, <1>3, <1>4, <1>5, PastEngine DEF Onward, SameNotes

(* An error is noted of an engine that was run, or only of a statement. *)
LEMMA ErrorEffect ==
  ASSUME TypeOK, NEW s \in Scan, NEW e \in {"engine", "store"},
         NEW v \in {task[s], Started(task[s])},
         Goto(s, AfterEngine(s, WithErr(v, e)))
  PROVE  /\ Alone(s) /\ Onward(s, task[s], task'[s])
         /\ task'[s].err = e /\ task'[s].skipped = task[s].skipped
         /\ task'[s].sbomErr = task[s].sbomErr
         /\ task'[s].reported = task[s].reported
<1> DEFINE t == task[s]
<1>1. PICK w : w = WithErr(v, e)
  OBVIOUS
<1>2. t \in Task /\ task'[s] = AfterEngine(s, w) /\ Alone(s)
  BY <1>1, Moved
<1>3. w \in Task
  BY <1>1, <1>2, ResultType
<1>4. /\ w.pos = t.pos /\ w.skipped = t.skipped /\ w.err = e
      /\ w.sbomErr = t.sbomErr /\ w.reported = t.reported
  BY <1>1, <1>2 DEF Task, WithErr, Started
<1> QED
  BY <1>2, <1>3, <1>4, PastEngine DEF Onward, SameNotes

LEMMA ReportEffect ==
  ASSUME TypeOK, NEW s \in Scan, NEW report \in Reports, EngineReports(s, report)
  PROVE  /\ task[s].pc = "engine" /\ Alone(s)
         /\ task'[s].skipped = task[s].skipped /\ task'[s].err = task[s].err
         /\ task'[s].sbomErr = task[s].sbomErr
         /\ IF report = <<>>
              THEN Onward(s, task[s], task'[s])
                   /\ task'[s].reported = task[s].reported
              ELSE /\ task'[s].pc = "upsert" /\ task'[s].pos = task[s].pos
                   /\ task'[s].out = report
                   /\ task'[s].reported =
                        task[s].reported \cup {report[i] : i \in DOMAIN report}
<1> DEFINE t == task[s]
<1>1. PICK v : v = Started(t)
  OBVIOUS
<1>2. t \in Task /\ t.pc = "engine"
  BY DEF EngineReports, TypeOK, At
<1>3. v \in Task
  BY <1>1, <1>2, ResultType
<1>4. /\ v.pos = t.pos /\ v.skipped = t.skipped /\ v.err = t.err
      /\ v.sbomErr = t.sbomErr /\ v.reported = t.reported
  BY <1>1, <1>2 DEF Task, Started
<1>5. CASE report = <<>>
  <2>1. task'[s] = AfterEngine(s, v) /\ Alone(s)
    BY <1>1, <1>5, Moved DEF EngineReports
  <2> QED
    BY <1>2, <1>3, <1>4, <1>5, <2>1, PastEngine DEF Onward, SameNotes
<1>6. CASE report # <<>>
  <2>1. PICK u : u = [v EXCEPT
                 !.pc = "upsert", !.out = report,
                 !.reported = @ \cup {report[i] : i \in DOMAIN report}]
    OBVIOUS
  <2>2. task'[s] = u /\ Alone(s)
    BY <1>1, <1>6, <2>1, Moved DEF EngineReports
  <2>3. /\ u.pc = "upsert" /\ u.out = report
        /\ u.reported = v.reported \cup {report[i] : i \in DOMAIN report}
        /\ u.pos = v.pos /\ u.skipped = v.skipped /\ u.err = v.err
        /\ u.sbomErr = v.sbomErr
    BY <1>3, <2>1 DEF Task
  <2> QED
    BY <1>2, <1>4, <1>6, <2>2, <2>3
<1> QED
  BY <1>5, <1>6

LEMMA RecordEffect ==
  ASSUME IInv, IInv', NEW s \in Scan, RecordFinding(s)
  PROVE  /\ task[s].pc = "upsert" /\ task'[s].pc = "assoc" /\ Alone(s)
         /\ SameNotes(task[s], task'[s])
         /\ task'[s].pos = task[s].pos /\ task'[s].out = task[s].out
         /\ \E f \in findings' : f.id = task'[s].row /\ f.scan = s
         /\ \A g \in findings' : g \in findings \/ (g.scan = s /\ g.id = task'[s].row)
         /\ \A g \in findings : \E f \in findings' : f.id = g.id
<1> DEFINE t == task[s]
<1>0. PICK new : new = NextFinding(s)
  OBVIOUS
<1>1. /\ TypeOK /\ t \in Task /\ t.pc = "upsert" /\ UpsertFinding(new)
      /\ new.project = ProjectOf[s] /\ new.hash = Head(t.out) /\ new.scan = s
  BY <1>0 DEF IInv, TypeOK, RecordFinding, At, NextFinding
<1>2. PICK f \in findings' :
        /\ f.project = ProjectOf[s] /\ f.hash = Head(t.out)
        /\ Goto(s, [t EXCEPT !.pc = "assoc", !.row = f.id])
  BY DEF RecordFinding
<1>3. /\ task'[s].pc = "assoc" /\ task'[s].row = f.id /\ Alone(s)
      /\ task'[s].pos = t.pos /\ task'[s].out = t.out /\ SameNotes(t, task'[s])
  <2>1. task'[s] = [t EXCEPT !.pc = "assoc", !.row = f.id] /\ Alone(s)
    BY <1>1, <1>2, Moved
  <2> QED
    BY <1>1, <2>1 DEF Task, SameNotes
<1>4. \A g \in findings' : g.project = ProjectOf[s] /\ g.hash = Head(t.out) => g = f
  BY <1>2 DEF IInv, OneRowPerKey
<1>5. CASE SameFinding(new) = {}
  <2>1. findings' = findings \cup {new}
    BY <1>1, <1>5 DEF UpsertFinding
  <2>2. f = new
    BY <1>1, <1>4, <2>1
  <2> QED
    BY <1>1, <1>3, <2>1, <2>2
<1>6. CASE SameFinding(new) # {}
  <2>1. findings' = (findings \ SameFinding(new)) \cup
                      {Merged(g, new) : g \in SameFinding(new)}
    BY <1>1, <1>6 DEF UpsertFinding
  <2>2. ASSUME NEW g \in SameFinding(new)
        PROVE  Merged(g, new) = f /\ f.scan = s /\ f.id = g.id
    <3>1. /\ g \in Finding /\ g.project = ProjectOf[s] /\ g.hash = Head(t.out)
      BY <1>1 DEF SameFinding, TypeOK, StoreTypeOK
    <3>2. /\ Merged(g, new).project = g.project /\ Merged(g, new).hash = g.hash
          /\ Merged(g, new).scan = s /\ Merged(g, new).id = g.id
      BY <1>1, <3>1 DEF Merged, Finding
    <3>3. Merged(g, new) \in findings'
      BY <2>1
    <3> QED
      BY <1>4, <3>1, <3>2, <3>3
  <2>3. SameFinding(new) \subseteq findings
    BY DEF SameFinding
  <2>4. \A g \in findings' : g \in findings \/ g = f
    BY <2>1, <2>2
  <2>5. \A g \in findings : \E h \in findings' : h.id = g.id
    BY <1>2, <2>1, <2>2
  <2>6. f.scan = s
    BY <1>6, <2>2
  <2> QED
    BY <1>1, <1>2, <1>3, <2>4, <2>5, <2>6
<1> QED
  BY <1>5, <1>6

LEMMA AssociateEffect ==
  ASSUME IInv, NEW s \in Scan, AssociateFinding(s)
  PROVE  /\ task[s].pc = "assoc" /\ Alone(s)
         /\ SameNotes(task[s], task'[s])
         /\ IF Tail(task[s].out) = <<>> THEN Onward(s, task[s], task'[s])
            ELSE /\ task'[s].pc = "upsert" /\ task'[s].pos = task[s].pos
                 /\ task'[s].out = Tail(task[s].out)
         /\ \/ scanFindings' = scanFindings /\ Associated(NextObservation(s))
            \/ /\ scanFindings' = scanFindings \cup {NextObservation(s)}
               /\ ScanFindingKeysExist(NextObservation(s))
<1> DEFINE t == task[s]
<1>1. t \in Task /\ TypeOK /\ t.pc = "assoc"
  BY DEF IInv, TypeOK, AssociateFinding, At
<1>2. /\ Alone(s) /\ SameNotes(t, task'[s])
      /\ IF Tail(t.out) = <<>> THEN Onward(s, t, task'[s])
         ELSE /\ task'[s].pc = "upsert" /\ task'[s].pos = t.pos
              /\ task'[s].out = Tail(t.out)
  <2>1. CASE Tail(t.out) = <<>>
    <3>1. task'[s] = AfterEngine(s, t) /\ Alone(s)
      BY <1>1, <2>1, Moved DEF AssociateFinding
    <3> QED
      BY <1>1, <2>1, <3>1, PastEngine
  <2>2. CASE Tail(t.out) # <<>>
    <3>1. /\ task'[s] = [t EXCEPT !.pc = "upsert", !.out = Tail(@), !.row = NoRow]
          /\ Alone(s)
      BY <1>1, <2>2, Moved DEF AssociateFinding
    <3> QED
      BY <1>1, <2>2, <3>1 DEF Task, SameNotes
  <2> QED
    BY <2>1, <2>2
<1>3. \/ scanFindings' = scanFindings /\ Associated(NextObservation(s))
      \/ /\ scanFindings' = scanFindings \cup {NextObservation(s)}
         /\ ScanFindingKeysExist(NextObservation(s))
  BY DEF AssociateFinding, CreateScanFinding
<1> QED
  BY <1>1, <1>2, <1>3

(* Only its place in the code changes, or an SBOM's error is noted with it. *)
LEMMA PlainEffect ==
  ASSUME TypeOK, NEW s \in Scan, NEW pc,
         Goto(s, [task[s] EXCEPT !.pc = pc])
  PROVE  /\ task'[s].pc = pc /\ Alone(s) /\ SameNotes(task[s], task'[s])
         /\ task'[s].pos = task[s].pos /\ task'[s].out = task[s].out
<1>1. task[s] \in Task /\ task'[s] = [task[s] EXCEPT !.pc = pc] /\ Alone(s)
  BY Moved
<1> QED
  BY <1>1 DEF Task, SameNotes

LEMMA SBOMErrorEffect ==
  ASSUME TypeOK, NEW s \in Scan, SBOMFails(s)
  PROVE  /\ task'[s].pc = "finish" /\ Alone(s) /\ task'[s].sbomErr
         /\ task'[s].ran = task[s].ran /\ task'[s].skipped = task[s].skipped
         /\ task'[s].err = task[s].err /\ task'[s].reported = task[s].reported
         /\ task'[s].pos = task[s].pos /\ task'[s].out = task[s].out
<1>1. /\ task[s] \in Task /\ Alone(s)
      /\ task'[s] = [task[s] EXCEPT !.pc = "finish", !.sbomErr = TRUE]
  BY Moved DEF SBOMFails
<1> QED
  BY <1>1 DEF Task

----------------------------------------------------------------------------
(* Workers stay where their plan and their row say *)

LEMMA OnwardPlace ==
  ASSUME NEW s \in Scan, NEW t \in Task, NEW u, PlaceSound(s, t),
         t.pc \in Storing \cup {"engine"}, Onward(s, t, u)
  PROVE  PlaceSound(s, u) /\ u.pc \in {"engine", "sbom", "finish"}
<1>1. /\ t.pos \in Nat /\ t.pos >= 1 /\ t.pos <= Job[s].engines
      /\ Job[s].kind = "engines" /\ Job[s].engines \in Nat
  BY JobAssumption DEF PlaceSound, Task, JobType
<1>2. CASE t.pos = Job[s].engines \/ (Job[s].failFast /\ u.err # "none")
  BY <1>1, <1>2 DEF Onward, AfterEngines, PlaceSound, Storing, Closing
<1>3. CASE ~(t.pos = Job[s].engines \/ (Job[s].failFast /\ u.err # "none"))
  BY <1>1, <1>3 DEF Onward, PlaceSound, Storing, Closing
<1> QED
  BY <1>2, <1>3

LEMMA Underway ==
  ASSUME PlaceInv, NEW s \in Scan, Alone(s), PlaceSound(s, task'[s]),
         UNCHANGED <<scanStatus, projects>>,
         task[s].pc \in {"engine", "upsert", "assoc", "sbom"},
         task'[s].pc \in {"engine", "upsert", "assoc", "sbom", "finish"}
  PROVE  PlaceInv'
<1>1. RowSound(s, task[s])'
  BY DEF PlaceInv, RowSound, Live, PC
<1>2. ASSUME NEW x \in Scan, x # s
      PROVE  PlaceSound(x, task'[x]) /\ RowSound(x, task[x])'
  BY <1>2 DEF PlaceInv, RowSound, Alone
<1> QED
  BY <1>1, <1>2 DEF PlaceInv, PlaceSound

LEMMA PlaceInit == Init => PlaceInv
<1> SUFFICES ASSUME Init, NEW s \in Scan
             PROVE  PlaceSound(s, task[s]) /\ RowSound(s, task[s])
  BY DEF PlaceInv
<1>1. task[s] = NewTask /\ scanStatus[s] = "none"
  BY DEF Init, StoreInit
<1> QED
  BY <1>1 DEF NewTask, PlaceSound, RowSound, Storing, Closing, Live

LEMMA EnginePlace ==
  ASSUME IInv, IInv', PlaceInv, NEW s \in Scan, RunEngine(s)
  PROVE  PlaceInv'
<1> DEFINE t == task[s]
           u == task'[s]
<1>0. /\ TypeOK /\ t \in Task /\ PlaceSound(s, t)
      /\ \A v : t.pc \in Storing \cup {"engine"} /\ Onward(s, t, v) =>
           PlaceSound(s, v) /\ v.pc \in {"engine", "sbom", "finish"}
  BY OnwardPlace DEF IInv, TypeOK, PlaceInv
<1>1. CASE SkipEngine(s)
  <2>1. UNCHANGED <<scanStatus, projects>>
    BY <1>1 DEF SkipEngine, CreateEngineRun, storeVars
  <2> QED
    BY <1>0, <1>1, <2>1, SkipEffect, Underway DEF Storing
<1>2. CASE EngineFails(s) \/ EngineUnparsable(s) \/ EngineNotRecorded(s)
           \/ FindingNotRecorded(s) \/ AssociationFails(s)
  <2>1. UNCHANGED <<scanStatus, projects>> /\ t.pc \in Storing \cup {"engine"}
    BY <1>2 DEF EngineFails, EngineUnparsable, EngineNotRecorded, CreateEngineRun,
                FindingNotRecorded, AssociationFails, storeVars, At, Storing
  <2>2. Alone(s) /\ Onward(s, t, u)
    BY <1>0, <1>2, ErrorEffect
    DEF EngineFails, EngineUnparsable, EngineNotRecorded, FindingNotRecorded,
        AssociationFails
  <2> QED
    BY <1>0, <2>1, <2>2, Underway DEF Storing
<1>3. ASSUME NEW report \in Reports, EngineReports(s, report)
      PROVE  PlaceInv'
  <2>1. UNCHANGED <<scanStatus, projects>>
    BY <1>3 DEF EngineReports, CreateEngineRun
  <2>2. CASE report = <<>>
    BY <1>0, <1>3, <2>1, <2>2, ReportEffect, Underway DEF Storing
  <2>3. CASE report # <<>>
    <3>1. /\ t.pc = "engine" /\ u.pc = "upsert" /\ u.pos = t.pos
          /\ u.err = t.err /\ Alone(s)
      BY <1>0, <1>3, <2>3, ReportEffect
    <3>2. PlaceSound(s, u)
      BY <1>0, <3>1 DEF PlaceSound, Storing, Closing
    <3> QED
      BY <2>1, <3>1, <3>2, Underway
  <2> QED
    BY <2>2, <2>3
<1>4. CASE RecordFinding(s)
  <2>1. UNCHANGED <<scanStatus, projects>>
    BY <1>4 DEF RecordFinding, UpsertFinding
  <2>2. /\ t.pc = "upsert" /\ u.pc = "assoc" /\ Alone(s) /\ u.pos = t.pos
        /\ u.err = t.err
    BY <1>4, RecordEffect DEF SameNotes
  <2>3. PlaceSound(s, u)
    BY <1>0, <2>2 DEF PlaceSound, Storing, Closing
  <2> QED
    BY <2>1, <2>2, <2>3, Underway
<1>5. CASE AssociateFinding(s)
  <2>1. UNCHANGED <<scanStatus, projects>>
    BY <1>5 DEF AssociateFinding, CreateScanFinding
  <2>2. CASE Tail(t.out) = <<>>
    BY <1>0, <1>5, <2>1, <2>2, AssociateEffect, Underway DEF Storing
  <2>3. CASE Tail(t.out) # <<>>
    <3>1. /\ t.pc = "assoc" /\ u.pc = "upsert" /\ Alone(s) /\ u.pos = t.pos
          /\ u.err = t.err
      BY <1>5, <2>3, AssociateEffect DEF SameNotes
    <3>2. PlaceSound(s, u)
      BY <1>0, <3>1 DEF PlaceSound, Storing, Closing
    <3> QED
      BY <2>1, <3>1, <3>2, Underway
  <2> QED
    BY <2>2, <2>3
<1> QED
  BY <1>1, <1>2, <1>3, <1>4, <1>5 DEF RunEngine

(* The steps of a worker that concern no engine, and its process's end.     *)
Other(s) ==
  \/ BeginProject(s) \/ BeginFails(s) \/ BeginScan(s)
  \/ GenerateSBOM(s) \/ SBOMFails(s) \/ Finish(s) \/ Announce(s)
  \/ KillCLI(s)

LEMMA OtherPlace ==
  ASSUME IInv, IInv', PlaceInv, NEW s \in Scan, Other(s)
  PROVE  PlaceInv'
<1> DEFINE t == task[s]
           u == task'[s]
<1>0. /\ TypeOK /\ t \in Task /\ PlaceSound(s, t) /\ RowSound(s, t)
      /\ scanStatus \in [Scan -> ScanRowStatus \cup {"none", "deleted"}]
      /\ Job[s].engines \in Nat /\ t.pos \in Nat
  BY JobAssumption DEF IInv, TypeOK, StoreTypeOK, PlaceInv, JobType, Task
<1>s. ASSUME Alone(s), PlaceSound(s, u), RowSound(s, t)', projects \subseteq projects',
             \A x \in Scan : x # s => scanStatus'[x] = scanStatus[x]
      PROVE  PlaceInv'
  <2>1. ASSUME NEW x \in Scan, x # s
        PROVE  PlaceSound(x, task'[x]) /\ RowSound(x, task[x])'
    BY <1>s, <2>1 DEF PlaceInv, RowSound, Alone
  <2> QED
    BY <1>s, <2>1 DEF PlaceInv, PlaceSound
<1>1. CASE BeginProject(s)
  <2>1. /\ u.pc = "project" /\ Alone(s) /\ SameNotes(t, u) /\ u.pos = t.pos
        /\ u.out = t.out /\ t.pc = "idle"
    BY <1>0, <1>1, PlainEffect DEF BeginProject, MayBegin, At
  <2>2. projects' = projects \cup {ProjectOf[s]} /\ scanStatus' = scanStatus
    BY <1>1 DEF BeginProject, UpsertProject
  <2>3. PlaceSound(s, u)
    BY <1>0, <2>1 DEF PlaceSound, SameNotes, Storing, Closing
  <2>4. RowSound(s, t)'
    BY <1>0, <2>1, <2>2 DEF RowSound
  <2> QED
    BY <1>s, <2>1, <2>2, <2>3, <2>4
<1>2. CASE BeginFails(s)
  <2>1. /\ u.pc = "refused" /\ Alone(s) /\ SameNotes(t, u) /\ u.pos = t.pos
        /\ u.out = t.out /\ t.pc \in {"idle", "project"}
    BY <1>0, <1>2, PlainEffect DEF BeginFails, MayBegin, At
  <2>2. UNCHANGED <<projects, scanStatus>>
    BY <1>2 DEF BeginFails, storeVars
  <2>3. PlaceSound(s, u)
    BY <1>0, <2>1 DEF PlaceSound, SameNotes, Storing, Closing
  <2>4. RowSound(s, t)'
    BY <1>0, <2>1, <2>2 DEF RowSound, Live
  <2> QED
    BY <1>s, <2>1, <2>2, <2>3, <2>4
<1>3. CASE BeginScan(s)
  <2>1. PICK pc : /\ pc = IF Job[s].kind = "sbom" THEN "sbom"
                         ELSE IF Job[s].engines = 0 THEN AfterEngines(s) ELSE "engine"
                  /\ Goto(s, [t EXCEPT !.pc = pc])
    BY <1>3 DEF BeginScan
  <2>2. /\ u.pc = pc /\ Alone(s) /\ SameNotes(t, u) /\ u.pos = t.pos
        /\ u.out = t.out /\ t.pc = "project"
    BY <1>0, <1>3, <2>1, PlainEffect DEF BeginScan, At
  <2>3. /\ projects' = projects /\ ProjectOf[s] \in projects
        /\ scanStatus' = [scanStatus EXCEPT ![s] = "running"]
    BY <1>3 DEF BeginScan, CreateScan
  <2>4. /\ pc \in {"engine", "sbom", "finish"}
        /\ pc = "engine" => Job[s].kind = "engines" /\ Job[s].engines # 0
        /\ pc # "engine" => Job[s].kind = "sbom" \/ Job[s].engines = 0
    <3>1. Job[s].kind \in {"engines", "sbom"}
      BY JobAssumption DEF JobType
    <3> QED
      BY <2>1, <3>1 DEF AfterEngines
  <2>5. PlaceSound(s, u)
    BY <1>0, <2>2, <2>4 DEF PlaceSound, SameNotes, Storing, Closing
  <2>6. RowSound(s, t)'
    BY <1>0, <2>2, <2>3, <2>4 DEF RowSound
  <2> QED
    BY <1>0, <1>s, <2>2, <2>3, <2>5, <2>6
<1>4. CASE GenerateSBOM(s) \/ SBOMFails(s)
  <2>1. /\ t.pc = "sbom" /\ u.pc = "finish" /\ Alone(s) /\ u.pos = t.pos
        /\ u.out = t.out /\ u.err = t.err
    BY <1>0, <1>4, PlainEffect, SBOMErrorEffect
    DEF GenerateSBOM, SBOMFails, SameNotes, At
  <2>2. UNCHANGED <<scanStatus, projects>>
    BY <1>4 DEF GenerateSBOM, SBOMFails, CreateArtifact, storeVars
  <2>3. PlaceSound(s, u)
    BY <1>0, <2>1 DEF PlaceSound, Storing, Closing
  <2> QED
    BY <2>1, <2>2, <2>3, Underway
<1>5. CASE Finish(s)
  <2>1. /\ t.pc = "finish" /\ u.pc = "announce" /\ Alone(s) /\ SameNotes(t, u)
        /\ u.pos = t.pos /\ u.out = t.out
    BY <1>0, <1>5, PlainEffect DEF Finish, At
  <2>2. /\ projects' = projects
        /\ scanStatus' \in {scanStatus, [scanStatus EXCEPT ![s] = Verdict(s)]}
    BY <1>5 DEF Finish, UpdateScanStatus, storeVars
  <2>3. PlaceSound(s, u)
    BY <1>0, <2>1 DEF PlaceSound, SameNotes, Storing, Closing
  <2>4. /\ Verdict(s) \in {"completed", "failed"}
        /\ Verdict(s) = "completed" => t.err = "none"
    <3>1. Job[s].kind \in {"engines", "sbom"}
      BY JobAssumption DEF JobType
    <3> QED
      BY <1>0, <3>1 DEF Verdict, PlaceSound
  <2>5. /\ scanStatus'[s] \in {scanStatus[s], Verdict(s)}
        /\ \A x \in Scan : x # s => scanStatus'[x] = scanStatus[x]
    BY <1>0, <2>2
  <2>6. RowSound(s, t)'
    BY <1>0, <2>1, <2>2, <2>4, <2>5 DEF RowSound, SameNotes, Live, PC
  <2> QED
    BY <1>s, <2>1, <2>2, <2>3, <2>5, <2>6
<1>6. CASE Announce(s) \/ KillCLI(s)
  <2>1. /\ \/ t.pc = "announce" /\ u.pc = "done"
           \/ u.pc = "dead"
        /\ Alone(s) /\ SameNotes(t, u) /\ u.pos = t.pos /\ u.out = t.out
    BY <1>0, <1>6, PlainEffect DEF Announce, KillCLI, At
  <2>2. UNCHANGED <<scanStatus, projects>>
    BY <1>6 DEF Announce, KillCLI, storeVars
  <2>3. PlaceSound(s, u)
    BY <1>0, <2>1 DEF PlaceSound, SameNotes, Storing, Closing
  <2>4. RowSound(s, t)'
    BY <1>0, <2>1, <2>2 DEF RowSound, SameNotes, Live
  <2> QED
    BY <1>s, <2>1, <2>2, <2>3, <2>4
<1> QED
  BY <1>1, <1>2, <1>3, <1>4, <1>5, <1>6 DEF Other

(* Steps that are no worker's: deletion, triage, time, the server.          *)
Around ==
  \/ \E s \in Scan : RemoveScan(s) \/ HourPasses(s)
  \/ \E f \in findings, status \in FindingStatus : TriageFinding(f, status)
  \/ ServerStops \/ ServeStart \/ UNCHANGED vars

(* They kill workers at most, delete a scan or mark it failed.              *)
LEMMA AroundEffect ==
  ASSUME TypeOK, Around
  PROVE  /\ UNCHANGED projects
         /\ \A x \in Scan :
              /\ \/ task'[x] = task[x]
                 \/ /\ task'[x].pc = "dead" /\ SameNotes(task[x], task'[x])
                    /\ task[x].pc \in Live
                    /\ task'[x].pos = task[x].pos /\ task'[x].out = task[x].out
              /\ \/ scanStatus'[x] = scanStatus[x]
                 \/ scanStatus'[x] = "deleted" /\ Present(x)
                 \/ scanStatus'[x] = "failed" /\ scanStatus[x] = "running"
<1>0. /\ \A x \in Scan : task[x] \in Task
      /\ scanStatus \in [Scan -> ScanRowStatus \cup {"none", "deleted"}]
  BY DEF TypeOK, StoreTypeOK
<1>1. ASSUME NEW s \in Scan, RemoveScan(s)
      PROVE  /\ UNCHANGED <<projects, task>>
             /\ scanStatus' = [scanStatus EXCEPT ![s] = "deleted"] /\ Present(s)
  BY <1>1 DEF RemoveScan, DeleteScan
<1>2. CASE \/ \E s \in Scan : HourPasses(s)
           \/ \E f \in findings, status \in FindingStatus : TriageFinding(f, status)
           \/ UNCHANGED vars
  BY <1>2 DEF HourPasses, TriageFinding, UpdateFindingStatus, vars, storeVars
<1>3. CASE ServerStops
  <2>1. UNCHANGED <<projects, scanStatus>>
    BY <1>3 DEF ServerStops, storeVars
  <2>2. ASSUME NEW x \in Scan, task'[x] # task[x]
        PROVE  task'[x] = [task[x] EXCEPT !.pc = "dead"] /\ task[x].pc \in Live
    BY <1>3, <2>2 DEF ServerStops
  <2> QED
    BY <1>0, <2>1, <2>2 DEF Task, SameNotes
<1>4. CASE ServeStart
  BY <1>0, <1>4 DEF ServeStart, ReapStaleRunningScans, storeVars
<1> QED
  BY <1>0, <1>1, <1>2, <1>3, <1>4 DEF Around

LEMMA AroundPlace ==
  ASSUME IInv, PlaceInv, Around
  PROVE  PlaceInv'
<1> SUFFICES ASSUME NEW s \in Scan
             PROVE  PlaceSound(s, task'[s]) /\ RowSound(s, task[s])'
  BY DEF PlaceInv, PlaceSound
<1>1. PlaceSound(s, task[s]) /\ RowSound(s, task[s]) /\ TypeOK
  BY DEF PlaceInv, IInv
<1>2. PlaceSound(s, task'[s])
  BY <1>1, AroundEffect DEF PlaceSound, SameNotes, Storing, Closing
<1>3. RowSound(s, task[s])'
  BY <1>1, AroundEffect DEF RowSound, SameNotes, Live, Present, ScanRowStatus
<1> QED
  BY <1>2, <1>3

(* Every step is a worker's at an engine, another of a worker's, or none's. *)
AtEngines == \E s \in Scan : RunEngine(s)
Elsewhere == \E s \in Scan : Other(s)

LEMMA Steps == [Next]_vars => AtEngines \/ Elsewhere \/ Around
BY DEF Next, WorkerStep, AtEngines, Elsewhere, Other, Around

LEMMA PlaceStep == ASSUME IInv, IInv', PlaceInv, [Next]_vars PROVE PlaceInv'
BY Steps, EnginePlace, OtherPlace, AroundPlace DEF AtEngines, Elsewhere

----------------------------------------------------------------------------
(* Completed scans are complete *)

(* The runs and the SBOM of a scan go only with its row.                    *)
RunsKept ==
  \A x \in Scan : Present(x)' =>
    /\ Present(x) \/ task[x].pc = "project"
    /\ \A r \in engineRuns : r.run[1] = x => r \in engineRuns'
    /\ \A i : RanWell(x, i) => RanWell(x, i)'
    /\ x \in artifacts => x \in artifacts'

LEMMA RunsStay ==
  ASSUME IInv, PlaceInv, [Next]_vars
  PROVE  RunsKept
<1>0. scanStatus \in [Scan -> ScanRowStatus \cup {"none", "deleted"}]
  BY DEF IInv, TypeOK, StoreTypeOK
<1>1. CASE Around
  <2>1. \A x \in Scan : Present(x)' => Present(x)
    BY <1>1, AroundEffect DEF IInv, Present, ScanRowStatus
  <2>2. ASSUME NEW s \in Scan, RemoveScan(s)
        PROVE  RunsKept
    <3>1. /\ engineRuns' = {r \in engineRuns : r.run[1] # s}
          /\ artifacts' = artifacts \ {s}
          /\ scanStatus' = [scanStatus EXCEPT ![s] = "deleted"]
      BY <2>2 DEF RemoveScan, DeleteScan
    <3>2. ~Present(s)'
      BY <1>0, <3>1 DEF Present, ScanRowStatus
    <3>3. \A x \in Scan : \A i : x # s /\ RanWell(x, i) => RanWell(x, i)'
      BY <3>1 DEF RanWell
    <3> QED
      BY <2>1, <3>1, <3>2, <3>3 DEF RunsKept
  <2>3. ASSUME ~\E s \in Scan : RemoveScan(s)
        PROVE  UNCHANGED <<engineRuns, artifacts>>
    BY <1>1, <2>3
    DEF Around, HourPasses, TriageFinding, UpdateFindingStatus, ServerStops,
        ServeStart, ReapStaleRunningScans, vars, storeVars
  <2> QED
    BY <2>1, <2>2, <2>3 DEF RunsKept, RanWell
<1>2. ASSUME NEW s \in Scan, RunEngine(s)
      PROVE  RunsKept
  <2>1. engineRuns \subseteq engineRuns' /\ UNCHANGED <<artifacts, scanStatus>>
    BY <1>2
    DEF RunEngine, SkipEngine, EngineFails, EngineUnparsable, EngineReports,
        EngineNotRecorded, RecordFinding, FindingNotRecorded, AssociateFinding,
        AssociationFails, CreateEngineRun, UpsertFinding, CreateScanFinding,
        storeVars
  <2> QED
    BY <2>1 DEF RunsKept, RanWell, Present
<1>3. ASSUME NEW s \in Scan, Other(s)
      PROVE  RunsKept
  <2>1. engineRuns' = engineRuns /\ artifacts \subseteq artifacts'
    BY <1>3
    DEF Other, BeginProject, BeginFails, BeginScan, GenerateSBOM, SBOMFails,
        Finish, Announce, KillCLI, UpsertProject, CreateScan, CreateArtifact,
        UpdateScanStatus, storeVars
  <2>2. CASE BeginScan(s)
    <3>1. /\ scanStatus' = [scanStatus EXCEPT ![s] = "running"]
          /\ task[s].pc = "project"
      BY <2>2 DEF BeginScan, CreateScan, At
    <3> QED
      BY <1>0, <2>1, <3>1 DEF RunsKept, RanWell, Present
  <2>3. CASE ~BeginScan(s)
    <3>1. \A x \in Scan : Present(x)' => Present(x)
      BY <1>0, <1>3, <2>3
      DEF Other, BeginProject, BeginFails, GenerateSBOM, SBOMFails, Finish, Announce,
          KillCLI, UpsertProject, CreateArtifact, UpdateScanStatus, storeVars,
          Present
    <3> QED
      BY <2>1, <3>1 DEF RunsKept, RanWell
  <2> QED
    BY <2>2, <2>3
<1> QED
  BY <1>1, <1>2, <1>3, Steps DEF AtEngines, Elsewhere

(* Past an engine nothing is missing if that engine is not. *)
LEMMA OnwardPlan ==
  ASSUME NEW s \in Scan, NEW at, at = task[s].pos,
         RunsKept, PlanSound(s, task[s]), task[s] \in Task,
         PlaceSound(s, task[s]), task[s].pc \in Storing \cup {"engine"},
         Onward(s, task[s], task'[s]), task[s].skipped \subseteq task'[s].skipped,
         task'[s].err = "none" /\ Present(s)' =>
           /\ task[s].err = "none"
           /\ RanWell(s, at)' \/ at \in task'[s].skipped
           /\ task'[s].ran = task[s].ran \/ RanWell(s, at)'
  PROVE  PlanSound(s, task[s])'
<1> DEFINE t == task[s]
           u == task'[s]
<1>1. SUFFICES ASSUME Present(s)', u.err = "none"
               PROVE  /\ \A i \in 1..Job[s].engines :
                           RunUsed(u, i) => RanWell(s, i)' \/ i \in u.skipped
                      /\ u.ran # 0 => \E i \in 1..Job[s].engines : RanWell(s, i)'
                      /\ Job[s].kind # "sbom"
  BY DEF PlanSound, RunUsed
<1>2. /\ t.pos \in Nat /\ t.pos >= 1 /\ t.pos <= Job[s].engines
      /\ Job[s].kind = "engines" /\ Job[s].engines \in Nat
  BY JobAssumption DEF PlaceSound, Task, JobType
<1>3. /\ \A i \in 1..Job[s].engines : RunUsed(t, i) => RanWell(s, i) \/ i \in t.skipped
      /\ t.ran # 0 => \E i \in 1..Job[s].engines : RanWell(s, i)
  BY <1>1, <1>2 DEF PlanSound, RunsKept, Storing
<1>4. \A i : RanWell(s, i) => RanWell(s, i)'
  BY <1>1 DEF RunsKept
<1>5. ASSUME NEW i \in 1..Job[s].engines, RunUsed(u, i), i # t.pos
      PROVE  RunUsed(t, i)
  BY <1>2, <1>5 DEF RunUsed, Onward, AfterEngines
<1>6. at \in 1..Job[s].engines
  BY <1>2
<1>7. /\ t.err = "none"
      /\ RanWell(s, at)' \/ at \in u.skipped
      /\ u.ran = t.ran \/ RanWell(s, at)'
  BY <1>1
<1>8. ASSUME NEW i \in 1..Job[s].engines, RunUsed(u, i)
      PROVE  RanWell(s, i)' \/ i \in u.skipped
  <2>1. CASE i = at
    BY <1>7, <2>1
  <2>2. CASE i # at
    BY <1>3, <1>4, <1>5, <1>8, <2>2
  <2> QED
    BY <2>1, <2>2
<1>9. u.ran # 0 => \E i \in 1..Job[s].engines : RanWell(s, i)'
  BY <1>3, <1>4, <1>6, <1>7
<1> QED
  BY <1>2, <1>8, <1>9

Complete(s) ==
  IF Job[s].kind = "sbom" THEN s \in artifacts
  ELSE /\ \A i \in 1..Job[s].engines : RanWell(s, i) \/ i \in task[s].skipped
       /\ \E i \in 1..Job[s].engines : RanWell(s, i)

LEMMA CompleteMeans ==
  CompletedIsComplete <=> \A s \in Scan : scanStatus[s] = "completed" => Complete(s)
BY DEF CompletedIsComplete, Complete, RanWell

LEMMA PlanKept ==
  ASSUME RunsKept, NEW x \in Scan, PlanSound(x, task[x]),
         \/ task'[x] = task[x]
         \/ task'[x].pc = "dead" /\ SameNotes(task[x], task'[x])
  PROVE  /\ PlanSound(x, task[x])'
         /\ Present(x)' /\ Complete(x) => Complete(x)'
<1>1. Present(x)' /\ Complete(x) => Complete(x)'
  <2> SUFFICES ASSUME Present(x)', Complete(x) PROVE Complete(x)'
    OBVIOUS
  <2>1. /\ \A i : RanWell(x, i) => RanWell(x, i)'
        /\ x \in artifacts => x \in artifacts'
    BY DEF RunsKept
  <2>2. task'[x].skipped = task[x].skipped
    BY DEF SameNotes
  <2> QED
    BY <2>1, <2>2 DEF Complete
<1>2. PlanSound(x, task[x])'
  <2>1. CASE task'[x].pc = "dead"
    BY <2>1 DEF PlanSound, Storing, Closing
  <2>2. CASE task'[x] = task[x]
    <3>1. SUFFICES ASSUME Present(x)', task[x].err = "none",
                          task[x].pc \in Storing \cup Closing \cup {"engine"}
                   PROVE  IF Job[x].kind = "sbom"
                          THEN task[x].pc \in Closing \ {"sbom"} /\ ~task[x].sbomErr =>
                                 x \in artifacts'
                          ELSE /\ \A i \in 1..Job[x].engines :
                                    RunUsed(task[x], i) =>
                                      RanWell(x, i)' \/ i \in task[x].skipped
                               /\ task[x].ran # 0 =>
                                    \E i \in 1..Job[x].engines : RanWell(x, i)'
      BY <2>2 DEF PlanSound, RunUsed
    <3>2. Present(x)
      BY <3>1 DEF RunsKept, Storing, Closing
    <3>3. /\ \A i : RanWell(x, i) => RanWell(x, i)'
          /\ x \in artifacts => x \in artifacts'
      BY <3>1 DEF RunsKept
    <3> QED
      BY <3>1, <3>2, <3>3 DEF PlanSound
  <2> QED
    BY <2>1, <2>2
<1> QED
  BY <1>1, <1>2

LEMMA PlanFrom ==
  ASSUME PlanInv, RunsKept, NEW s \in Scan, Alone(s), PlanSound(s, task[s])',
         task[s].skipped \subseteq task'[s].skipped,
         \A x \in Scan : scanStatus'[x] = "completed" =>
           scanStatus[x] = "completed" \/ (x = s /\ Complete(s)')
  PROVE  PlanInv'
<1>1. ASSUME NEW x \in Scan
      PROVE  PlanSound(x, task[x])'
  <2>1. CASE x = s
    BY <2>1
  <2>2. CASE x # s
    BY <2>2, PlanKept DEF PlanInv, Alone
  <2> QED
    BY <2>1, <2>2
<1>2. ASSUME NEW x \in Scan, scanStatus'[x] = "completed"
      PROVE  Complete(x)'
  <2>1. Present(x)'
    BY <1>2 DEF Present, ScanRowStatus
  <2>2. CASE scanStatus[x] = "completed"
    <3>1. Complete(x)
      BY <2>2, CompleteMeans DEF PlanInv
    <3>2. CASE x = s
      <4>1. /\ \A i : RanWell(s, i) => RanWell(s, i)'
            /\ s \in artifacts => s \in artifacts'
        BY <2>1, <3>2 DEF RunsKept
      <4> QED
        BY <3>1, <3>2, <4>1 DEF Complete
    <3>3. CASE x # s
      BY <2>1, <3>1, <3>3, PlanKept DEF PlanInv, Alone
    <3> QED
      BY <3>2, <3>3
  <2> QED
    BY <1>2, <2>2
<1>3. CompletedIsComplete'
  BY <1>2 DEF CompletedIsComplete, Complete, RanWell
<1> QED
  BY <1>1, <1>3 DEF PlanInv

(* A worker that goes on in the same place of its plan.                     *)
LEMMA SamePlan ==
  ASSUME NEW s \in Scan, RunsKept, PlanSound(s, task[s]),
         task[s].pc \in Storing \cup Closing,
         task'[s].pc \in Storing \cup Closing,
         task'[s].pos = task[s].pos, task'[s].ran = task[s].ran,
         task'[s].skipped = task[s].skipped, task'[s].err = task[s].err,
         Job[s].kind = "sbom" /\ task'[s].pc # "sbom" /\ ~task'[s].sbomErr
           /\ Present(s)' => s \in artifacts'
  PROVE  PlanSound(s, task[s])'
<1> DEFINE t == task[s]
           u == task'[s]
<1>1. SUFFICES ASSUME Present(s)', u.err = "none"
               PROVE  IF Job[s].kind = "sbom"
                      THEN u.pc \in Closing \ {"sbom"} /\ ~u.sbomErr => s \in artifacts'
                      ELSE /\ \A i \in 1..Job[s].engines :
                                RunUsed(u, i) => RanWell(s, i)' \/ i \in u.skipped
                           /\ u.ran # 0 => \E i \in 1..Job[s].engines : RanWell(s, i)'
  BY DEF PlanSound, RunUsed
<1>2. Present(s) /\ \A i : RanWell(s, i) => RanWell(s, i)'
  BY <1>1 DEF RunsKept, Storing, Closing
<1>3. \A i : RunUsed(u, i) => RunUsed(t, i)
  BY DEF RunUsed, Storing, Closing
<1> QED
  BY <1>1, <1>2, <1>3 DEF PlanSound

LEMMA PlanInit == Init => PlanInv
<1> SUFFICES ASSUME Init, NEW s \in Scan
             PROVE  PlanSound(s, task[s]) /\ scanStatus[s] # "completed"
  BY DEF PlanInv, CompletedIsComplete
<1>1. task[s] = NewTask /\ scanStatus[s] = "none"
  BY DEF Init, StoreInit
<1> QED
  BY <1>1 DEF PlanSound, Present, ScanRowStatus

LEMMA EnginePlan ==
  ASSUME IInv, IInv', PlaceInv, PlanInv, RunsKept, NEW s \in Scan, RunEngine(s)
  PROVE  PlanInv'
<1> DEFINE t == task[s]
           u == task'[s]
<1>0. /\ TypeOK /\ t \in Task /\ PlaceSound(s, t) /\ PlanSound(s, t)
  BY DEF IInv, TypeOK, PlaceInv, PlanInv
<1>p. PICK at : at = t.pos
  OBVIOUS
<1>s. ASSUME Alone(s), PlanSound(s, t)', t.skipped \subseteq u.skipped,
             scanStatus' = scanStatus
      PROVE  PlanInv'
  BY <1>s, PlanFrom
<1>r. RanWell(s, at)' <=> [run |-> Run(s), status |-> "completed"] \in engineRuns'
  BY <1>p DEF RanWell, Run
<1>1. CASE SkipEngine(s)
  <2>1. scanStatus' = scanStatus
    BY <1>1 DEF SkipEngine, CreateEngineRun, storeVars
  <2>2. PlanSound(s, t)'
    BY <1>0, <1>1, <1>p, SkipEffect, OnwardPlan DEF Storing
  <2> QED
    BY <1>0, <1>1, <1>s, <2>1, <2>2, SkipEffect
<1>2. CASE EngineFails(s) \/ EngineUnparsable(s) \/ EngineNotRecorded(s)
           \/ FindingNotRecorded(s) \/ AssociationFails(s)
  <2>1. scanStatus' = scanStatus /\ t.pc \in Storing \cup {"engine"}
    BY <1>2 DEF EngineFails, EngineUnparsable, EngineNotRecorded, CreateEngineRun,
                FindingNotRecorded, AssociationFails, storeVars, At, Storing
  <2>2. Alone(s) /\ Onward(s, t, u) /\ u.err # "none" /\ u.skipped = t.skipped
    BY <1>0, <1>2, ErrorEffect
    DEF EngineFails, EngineUnparsable, EngineNotRecorded, FindingNotRecorded,
        AssociationFails
  <2>3. PlanSound(s, t)'
    BY <1>0, <1>p, <2>1, <2>2, OnwardPlan
  <2> QED
    BY <1>s, <2>1, <2>2, <2>3
<1>3. ASSUME NEW report \in Reports, EngineReports(s, report)
      PROVE  PlanInv'
  <2>1. scanStatus' = scanStatus /\ RanWell(s, at)'
    BY <1>3, <1>r DEF EngineReports, CreateEngineRun
  <2>2. CASE report = <<>>
    <3>1. PlanSound(s, t)'
      BY <1>0, <1>3, <1>p, <2>1, <2>2, ReportEffect, OnwardPlan
    <3> QED
      BY <1>0, <1>3, <1>s, <2>1, <3>1, ReportEffect
  <2>3. CASE report # <<>>
    <3>1. /\ t.pc = "engine" /\ u.pc = "upsert" /\ u.pos = at /\ Alone(s)
          /\ u.err = t.err /\ u.skipped = t.skipped
      BY <1>0, <1>3, <1>p, <2>3, ReportEffect
    <3>2. \A i : RunUsed(u, i) => RunUsed(t, i) \/ i = at
      BY <1>p, <3>1 DEF RunUsed
    <3>3. at \in 1..Job[s].engines /\ Job[s].kind = "engines"
      BY <1>0, <1>p, <3>1, JobAssumption DEF PlaceSound, Task, JobType
    <3>4. SUFFICES ASSUME Present(s)', u.err = "none"
                   PROVE  /\ \A i \in 1..Job[s].engines :
                               RunUsed(u, i) => RanWell(s, i)' \/ i \in u.skipped
                          /\ \E i \in 1..Job[s].engines : RanWell(s, i)'
      <4>1. SUFFICES ASSUME \/ ~Present(s)' \/ u.err # "none"
                            \/ /\ \A i \in 1..Job[s].engines :
                                    RunUsed(u, i) => RanWell(s, i)' \/ i \in u.skipped
                               /\ \E i \in 1..Job[s].engines : RanWell(s, i)'
                     PROVE  PlanInv'
        OBVIOUS
      <4>2. PlanSound(s, t)'
        BY <3>3, <4>1 DEF PlanSound, RunUsed
      <4> QED
        BY <1>s, <2>1, <3>1, <4>2
    <3>5. Present(s) /\ \A i : RanWell(s, i) => RanWell(s, i)'
      BY <3>1, <3>4 DEF RunsKept
    <3>6. \A i \in 1..Job[s].engines : RunUsed(t, i) => RanWell(s, i) \/ i \in t.skipped
      BY <1>0, <3>1, <3>3, <3>4, <3>5 DEF PlanSound
    <3> QED
      BY <2>1, <3>1, <3>2, <3>3, <3>5, <3>6
  <2> QED
    BY <2>2, <2>3
<1>4. CASE RecordFinding(s)
  <2>1. scanStatus' = scanStatus
    BY <1>4 DEF RecordFinding, UpsertFinding
  <2>2. /\ t.pc = "upsert" /\ u.pc = "assoc" /\ Alone(s) /\ SameNotes(t, u)
        /\ u.pos = t.pos
    BY <1>4, RecordEffect
  <2>3. Job[s].kind # "sbom"
    BY <1>0, <2>2 DEF PlaceSound, Storing
  <2>4. PlanSound(s, t)'
    BY <1>0, <2>2, <2>3, SamePlan DEF SameNotes, Storing
  <2> QED
    BY <1>s, <2>1, <2>2, <2>4 DEF SameNotes
<1>5. CASE AssociateFinding(s)
  <2>1. scanStatus' = scanStatus /\ engineRuns' = engineRuns
    BY <1>5 DEF AssociateFinding, CreateScanFinding
  <2>2. t.pc = "assoc" /\ Alone(s) /\ SameNotes(t, u)
    BY <1>5, AssociateEffect
  <2>3. Present(s)' => RanWell(s, at)'
    BY <1>r, <2>1, <2>2 DEF IInv, WorkersKnowTheirRows, Present
  <2>4. CASE Tail(t.out) = <<>>
    <3>1. PlanSound(s, t)'
      BY <1>0, <1>5, <1>p, <2>2, <2>3, <2>4, AssociateEffect, OnwardPlan
      DEF SameNotes, Storing
    <3> QED
      BY <1>s, <2>1, <2>2, <3>1 DEF SameNotes
  <2>5. CASE Tail(t.out) # <<>>
    <3>1. u.pc = "upsert" /\ u.pos = t.pos
      BY <1>5, <2>5, AssociateEffect
    <3>2. Job[s].kind # "sbom"
      BY <1>0, <2>2 DEF PlaceSound, Storing
    <3>3. PlanSound(s, t)'
      BY <1>0, <2>2, <3>1, <3>2, SamePlan DEF SameNotes, Storing
    <3> QED
      BY <1>s, <2>1, <2>2, <3>3 DEF SameNotes
  <2> QED
    BY <2>4, <2>5
<1> QED
  BY <1>1, <1>2, <1>3, <1>4, <1>5 DEF RunEngine

(* A scan is written down as completed only with what its plan asks for.    *)
LEMMA FinishedPlan ==
  ASSUME IInv, PlaceInv, PlanInv, RunsKept, NEW s \in Scan, Finish(s),
         Present(s), Verdict(s) = "completed"
  PROVE  Complete(s)'
<1> DEFINE t == task[s]
<1>1. /\ t \in Task /\ PlaceSound(s, t) /\ PlanSound(s, t) /\ t.pc = "finish"
      /\ Job[s].engines \in Nat /\ Job[s].kind \in {"engines", "sbom"}
  BY JobAssumption DEF IInv, TypeOK, PlaceInv, PlanInv, Finish, At, JobType
<1>2. UNCHANGED <<engineRuns, artifacts>> /\ task'[s].skipped = t.skipped
  <2>1. TypeOK /\ Goto(s, [t EXCEPT !.pc = "announce"])
    BY DEF Finish, IInv
  <2>2. task'[s].skipped = t.skipped
    BY <2>1, PlainEffect DEF SameNotes
  <2> QED
    BY <2>2 DEF Finish, UpdateScanStatus, storeVars
<1>3. CASE Job[s].kind = "sbom"
  <2>1. s \in artifacts
    BY <1>1, <1>3 DEF Verdict, PlanSound, PlaceSound, Closing
  <2> QED
    BY <1>2, <1>3, <2>1 DEF Complete
<1>4. CASE Job[s].kind = "engines"
  <2>1. t.err = "none" /\ t.ran # 0
    BY <1>4 DEF Verdict
  <2>2. t.pos >= Job[s].engines /\ t.pos \in Nat
    BY <1>1, <1>4, <2>1 DEF PlaceSound, Closing, Task
  <2>3. \A i \in 1..Job[s].engines : RunUsed(t, i)
    BY <1>1, <2>2 DEF RunUsed
  <2>4. /\ \A i \in 1..Job[s].engines : RanWell(s, i) \/ i \in t.skipped
        /\ \E i \in 1..Job[s].engines : RanWell(s, i)
    BY <1>1, <1>4, <2>1, <2>3 DEF PlanSound, Closing
  <2> QED
    BY <1>2, <1>4, <2>4 DEF Complete, RanWell
<1> QED
  BY <1>1, <1>3, <1>4

LEMMA OtherPlan ==
  ASSUME IInv, PlaceInv, PlanInv, RunsKept, NEW s \in Scan, Other(s)
  PROVE  PlanInv'
<1> DEFINE t == task[s]
           u == task'[s]
<1>0. /\ TypeOK /\ t \in Task /\ PlaceSound(s, t) /\ PlanSound(s, t)
      /\ scanStatus \in [Scan -> ScanRowStatus \cup {"none", "deleted"}]
      /\ Job[s].engines \in Nat /\ Job[s].kind \in {"engines", "sbom"}
  BY JobAssumption DEF IInv, TypeOK, StoreTypeOK, PlaceInv, PlanInv, JobType
<1>s. ASSUME Alone(s), PlanSound(s, t)', u.skipped = t.skipped,
             \A x \in Scan : scanStatus'[x] = "completed" =>
               scanStatus[x] = "completed" \/ (x = s /\ Complete(s)')
      PROVE  PlanInv'
  BY <1>s, PlanFrom
<1>1. CASE BeginProject(s) \/ BeginFails(s) \/ KillCLI(s)
  <2>1. Alone(s) /\ u.skipped = t.skipped /\ u.pc \in {"project", "refused", "dead"}
    BY <1>0, <1>1, PlainEffect DEF BeginProject, BeginFails, KillCLI, SameNotes
  <2>2. scanStatus' = scanStatus
    BY <1>1 DEF BeginProject, BeginFails, KillCLI, UpsertProject, storeVars
  <2>3. PlanSound(s, t)'
    BY <2>1 DEF PlanSound, Storing, Closing
  <2> QED
    BY <1>s, <2>1, <2>2, <2>3
<1>2. CASE BeginScan(s)
  <2>1. PICK pc : /\ pc = IF Job[s].kind = "sbom" THEN "sbom"
                         ELSE IF Job[s].engines = 0 THEN AfterEngines(s) ELSE "engine"
                  /\ Goto(s, [t EXCEPT !.pc = pc])
    BY <1>2 DEF BeginScan
  <2>2. /\ u.pc = pc /\ Alone(s) /\ SameNotes(t, u) /\ u.pos = t.pos
        /\ t.pc = "project"
    BY <1>0, <1>2, <2>1, PlainEffect DEF BeginScan, At
  <2>3. t.pos = 1 /\ t.ran = 0
    BY <1>0, <2>2 DEF PlaceSound
  <2>4. ASSUME Job[s].kind # "sbom", NEW i \in 1..Job[s].engines
        PROVE  ~RunUsed(u, i)
    BY <1>0, <2>1, <2>2, <2>3, <2>4 DEF RunUsed
  <2>5. PlanSound(s, t)'
    <3>1. CASE Job[s].kind = "sbom"
      BY <2>1, <2>2, <3>1 DEF PlanSound
    <3>2. CASE Job[s].kind # "sbom"
      <4>1. u.ran = 0 /\ \A i \in 1..Job[s].engines : ~RunUsed(u, i)
        BY <2>2, <2>3, <2>4, <3>2 DEF SameNotes
      <4> QED
        BY <3>2, <4>1 DEF PlanSound, RunUsed
    <3> QED
      BY <3>1, <3>2
  <2>6. scanStatus' = [scanStatus EXCEPT ![s] = "running"]
    BY <1>2 DEF BeginScan, CreateScan
  <2> QED
    BY <1>0, <1>s, <2>2, <2>5, <2>6 DEF SameNotes
<1>3. CASE GenerateSBOM(s) \/ SBOMFails(s)
  <2>1. /\ t.pc = "sbom" /\ u.pc = "finish" /\ Alone(s) /\ u.pos = t.pos
        /\ u.ran = t.ran /\ u.skipped = t.skipped /\ u.err = t.err
        /\ u.sbomErr \/ GenerateSBOM(s)
    BY <1>0, <1>3, PlainEffect, SBOMErrorEffect
    DEF GenerateSBOM, SBOMFails, SameNotes, At
  <2>2. scanStatus' = scanStatus /\ (GenerateSBOM(s) => s \in artifacts')
    BY <1>3 DEF GenerateSBOM, SBOMFails, CreateArtifact, storeVars
  <2>3. PlanSound(s, t)'
    BY <1>0, <2>1, <2>2, SamePlan DEF Closing
  <2> QED
    BY <1>s, <2>1, <2>2, <2>3
<1>4. CASE Finish(s)
  <2>1. /\ t.pc = "finish" /\ u.pc = "announce" /\ Alone(s) /\ SameNotes(t, u)
        /\ u.pos = t.pos
    BY <1>0, <1>4, PlainEffect DEF Finish, At
  <2>2. /\ scanStatus' = scanStatus
           \/ (Present(s) /\ scanStatus' = [scanStatus EXCEPT ![s] = Verdict(s)])
        /\ artifacts' = artifacts
    BY <1>4 DEF Finish, UpdateScanStatus, storeVars
  <2>3. Present(s)' => Present(s)
    BY <2>1 DEF RunsKept
  <2>4. Job[s].kind = "sbom" /\ ~u.sbomErr /\ Present(s)' => s \in artifacts'
    BY <1>0, <2>1, <2>2, <2>3 DEF PlanSound, PlaceSound, SameNotes, Closing
  <2>5. PlanSound(s, t)'
    BY <1>0, <2>1, <2>4, SamePlan DEF Closing, SameNotes
  <2>6. ASSUME NEW x \in Scan, scanStatus'[x] = "completed"
        PROVE  scanStatus[x] = "completed" \/ (x = s /\ Complete(s)')
    <3>1. CASE scanStatus' = scanStatus
      BY <2>6, <3>1
    <3>2. CASE Present(s) /\ scanStatus' = [scanStatus EXCEPT ![s] = Verdict(s)]
      BY <1>0, <1>4, <2>6, <3>2, FinishedPlan
    <3> QED
      BY <2>2, <3>1, <3>2
  <2> QED
    BY <1>s, <2>1, <2>5, <2>6 DEF SameNotes
<1>5. CASE Announce(s)
  <2>1. /\ t.pc = "announce" /\ u.pc = "done" /\ Alone(s) /\ SameNotes(t, u)
        /\ u.pos = t.pos
    BY <1>0, <1>5, PlainEffect DEF Announce, At
  <2>2. scanStatus' = scanStatus /\ artifacts' = artifacts
    BY <1>5 DEF Announce, storeVars
  <2>3. Job[s].kind = "sbom" /\ ~u.sbomErr /\ Present(s)' => s \in artifacts'
    BY <1>0, <2>1, <2>2 DEF PlanSound, PlaceSound, SameNotes, Closing, Present
  <2>4. PlanSound(s, t)'
    BY <1>0, <2>1, <2>3, SamePlan DEF Closing, SameNotes
  <2> QED
    BY <1>s, <2>1, <2>2, <2>4 DEF SameNotes
<1> QED
  BY <1>1, <1>2, <1>3, <1>4, <1>5 DEF Other

LEMMA AroundPlan ==
  ASSUME IInv, PlanInv, RunsKept, Around
  PROVE  PlanInv'
<1>1. TypeOK
  BY DEF IInv
<1>2. ASSUME NEW x \in Scan
      PROVE  PlanSound(x, task[x])'
  <2>1. PlanSound(x, task[x])
    BY DEF PlanInv
  <2>2. task'[x] = task[x] \/ (task'[x].pc = "dead" /\ SameNotes(task[x], task'[x]))
    BY <1>1, AroundEffect
  <2> QED
    BY <2>1, <2>2, PlanKept
<1>3. ASSUME NEW x \in Scan, scanStatus'[x] = "completed"
      PROVE  Complete(x)'
  <2>1. scanStatus[x] = "completed" /\ Present(x)'
    BY <1>1, <1>3, AroundEffect DEF Present, ScanRowStatus
  <2>2. Complete(x) /\ PlanSound(x, task[x])
    BY <2>1, CompleteMeans DEF PlanInv
  <2>3. task'[x] = task[x] \/ (task'[x].pc = "dead" /\ SameNotes(task[x], task'[x]))
    BY <1>1, AroundEffect
  <2> QED
    BY <2>1, <2>2, <2>3, PlanKept
<1>4. CompletedIsComplete'
  BY <1>3 DEF CompletedIsComplete, Complete, RanWell
<1> QED
  BY <1>2, <1>4 DEF PlanInv

LEMMA PlanStep ==
  ASSUME IInv, IInv', PlaceInv, PlanInv, [Next]_vars
  PROVE  PlanInv'
BY Steps, RunsStay, EnginePlan, OtherPlan, AroundPlan DEF AtEngines, Elsewhere

----------------------------------------------------------------------------
(* What a step changes *)

LEMMA OtherEffect ==
  ASSUME TypeOK, NEW s \in Scan, Other(s)
  PROVE  /\ Alone(s) /\ UNCHANGED <<findings, scanFindings>>
         /\ task'[s].ran = task[s].ran /\ task'[s].skipped = task[s].skipped
         /\ task'[s].err = task[s].err /\ task'[s].reported = task[s].reported
         /\ task'[s].pos = task[s].pos /\ task'[s].out = task[s].out
         /\ \/ /\ task[s].pc \in {"idle", "project"}
               /\ task'[s].pc \in {"project", "refused", "engine", "sbom", "finish"}
            \/ task[s].pc = "sbom" /\ task'[s].pc = "finish"
            \/ Finish(s) /\ task[s].pc = "finish" /\ task'[s].pc = "announce"
            \/ Announce(s) /\ task[s].pc = "announce" /\ task'[s].pc = "done"
            \/ KillCLI(s) /\ task[s].pc \in Live /\ task'[s].pc = "dead"
<1> DEFINE t == task[s]
           u == task'[s]
<1>1. UNCHANGED <<findings, scanFindings>>
  BY DEF Other, BeginProject, BeginFails, BeginScan, GenerateSBOM, SBOMFails,
         Finish, Announce, KillCLI, UpsertProject, CreateScan, CreateArtifact,
         UpdateScanStatus, storeVars
<1>2. CASE SBOMFails(s)
  BY <1>1, <1>2, SBOMErrorEffect DEF SBOMFails, At
<1>3. CASE BeginScan(s)
  <2>1. PICK pc : /\ pc = IF Job[s].kind = "sbom" THEN "sbom"
                         ELSE IF Job[s].engines = 0 THEN AfterEngines(s) ELSE "engine"
                  /\ Goto(s, [t EXCEPT !.pc = pc])
    BY <1>3 DEF BeginScan
  <2>2. pc \in {"sbom", "finish", "engine"} /\ t.pc = "project"
    BY <1>3, <2>1 DEF AfterEngines, BeginScan, At
  <2> QED
    BY <1>1, <2>1, <2>2, PlainEffect DEF SameNotes
<1>4. CASE BeginProject(s) \/ BeginFails(s)
  BY <1>1, <1>4, PlainEffect DEF BeginProject, BeginFails, MayBegin, At, SameNotes
<1>5. CASE GenerateSBOM(s)
  BY <1>1, <1>5, PlainEffect DEF GenerateSBOM, At, SameNotes
<1>6. CASE Finish(s)
  BY <1>1, <1>6, PlainEffect DEF Finish, At, SameNotes
<1>7. CASE Announce(s)
  BY <1>1, <1>7, PlainEffect DEF Announce, At, SameNotes
<1>8. CASE KillCLI(s)
  BY <1>1, <1>8, PlainEffect DEF KillCLI, SameNotes
<1> QED
  BY <1>2, <1>3, <1>4, <1>5, <1>6, <1>7, <1>8 DEF Other

(* A step of runEngine, seen from outside: where it leaves the worker, and  *)
(* the statements whose failure it notes.                                   *)
LEMMA EngineEffect ==
  ASSUME IInv, IInv', NEW s \in Scan, RunEngine(s)
  PROVE  /\ Alone(s) /\ UNCHANGED scanStatus
         /\ task[s].pc \in Storing \cup {"engine"}
         /\ task'[s].pc \in Storing \cup {"engine", "sbom", "finish"}
         /\ task'[s].pc = "assoc" => RecordFinding(s)
         /\ task'[s].err # task[s].err => task'[s].err # "none"
         /\ task'[s].err = "store" /\ task[s].err # "store" =>
              EngineNotRecorded(s) \/ FindingNotRecorded(s) \/ AssociationFails(s)
         /\ task'[s].sbomErr = task[s].sbomErr
<1> DEFINE t == task[s]
           u == task'[s]
<1>0. TypeOK
  BY DEF IInv
<1>1. /\ UNCHANGED scanStatus
      /\ t.pc \in Storing \cup {"engine"}
  BY DEF RunEngine, SkipEngine, EngineFails, EngineUnparsable, EngineReports,
         EngineNotRecorded, RecordFinding, FindingNotRecorded, AssociateFinding,
         AssociationFails, CreateEngineRun, UpsertFinding, CreateScanFinding,
         storeVars, At, Storing
<1>2. \A v : Onward(s, t, v) => v.pc \in {"engine", "sbom", "finish"}
  BY DEF Onward, AfterEngines
<1>3. CASE SkipEngine(s)
  BY <1>0, <1>1, <1>2, <1>3, SkipEffect
<1>4. CASE EngineFails(s) \/ EngineUnparsable(s)
  BY <1>0, <1>1, <1>2, <1>4, ErrorEffect DEF EngineFails, EngineUnparsable
<1>5. CASE EngineNotRecorded(s) \/ FindingNotRecorded(s) \/ AssociationFails(s)
  BY <1>0, <1>1, <1>2, <1>5, ErrorEffect
  DEF EngineNotRecorded, FindingNotRecorded, AssociationFails
<1>6. ASSUME NEW report \in Reports, EngineReports(s, report)
      PROVE  /\ Alone(s) /\ u.pc \in {"upsert", "engine", "sbom", "finish"}
             /\ u.err = t.err /\ u.sbomErr = t.sbomErr
  BY <1>0, <1>2, <1>6, ReportEffect
<1>7. CASE RecordFinding(s)
  BY <1>1, <1>7, RecordEffect DEF SameNotes, Storing
<1>8. CASE AssociateFinding(s)
  BY <1>1, <1>2, <1>8, AssociateEffect DEF SameNotes, Storing
<1> QED
  BY <1>1, <1>3, <1>4, <1>5, <1>6, <1>7, <1>8 DEF RunEngine, Storing

(* A worker moves by its own steps, or dies with its process.               *)
LEMMA Movers ==
  ASSUME IInv, IInv', [Next]_vars, NEW s \in Scan, task'[s] # task[s]
  PROVE  \/ RunEngine(s)
         \/ Other(s)
         \/ /\ Around /\ task'[s].pc = "dead" /\ SameNotes(task[s], task'[s])
            /\ task[s].pc \in Live
            /\ task'[s].pos = task[s].pos /\ task'[s].out = task[s].out
<1>1. TypeOK
  BY DEF IInv
<1>2. CASE AtEngines
  BY <1>2, EngineEffect DEF AtEngines, Alone
<1>3. CASE Elsewhere
  BY <1>1, <1>3, OtherEffect DEF Elsewhere, Alone
<1>4. CASE Around
  BY <1>1, <1>4, AroundEffect
<1> QED
  BY <1>2, <1>3, <1>4, Steps

----------------------------------------------------------------------------
(* Deleted scans *)

LEMMA LossStays ==
  ASSUME IInv, IInv', PlaceInv, [Next]_vars,
         NEW s \in Scan, ProjectLostAScan(s)
  PROVE  ProjectLostAScan(s)'
<1>0. TypeOK /\ scanStatus \in [Scan -> ScanRowStatus \cup {"none", "deleted"}]
  BY DEF IInv, TypeOK, StoreTypeOK
<1>1. PICK d \in Scan : scanStatus[d] = "deleted" /\ ProjectOf[d] = ProjectOf[s]
  BY DEF ProjectLostAScan
<1>2. ~Present(d)
  BY <1>1 DEF Present, ScanRowStatus
<1>3. CASE AtEngines
  BY <1>1, <1>3, EngineEffect DEF AtEngines, ProjectLostAScan
<1>4. CASE Around
  <2>1. scanStatus'[d] = "deleted"
    BY <1>0, <1>1, <1>4, AroundEffect
  <2> QED
    BY <1>1, <2>1 DEF ProjectLostAScan
<1>5. ASSUME NEW x \in Scan, Other(x)
      PROVE  scanStatus'[d] = "deleted"
  <2>1. CASE BeginScan(x)
    <3>1. x # d
      BY <1>1, <2>1 DEF BeginScan, At, PlaceInv, RowSound
    <3> QED
      BY <1>0, <1>1, <2>1, <3>1 DEF BeginScan, CreateScan
  <2>2. CASE Finish(x)
    BY <1>0, <1>1, <1>2, <2>2 DEF Finish, UpdateScanStatus, storeVars
  <2>3. CASE ~BeginScan(x) /\ ~Finish(x)
    BY <1>1, <1>5, <2>3
    DEF Other, BeginProject, BeginFails, GenerateSBOM, SBOMFails, Announce,
        KillCLI, UpsertProject, CreateArtifact, storeVars
  <2> QED
    BY <2>1, <2>2, <2>3
<1>6. CASE Elsewhere
  BY <1>1, <1>5, <1>6 DEF Elsewhere, ProjectLostAScan
<1> QED
  BY <1>3, <1>4, <1>6, Steps

(* DeleteScan takes from the findings those of the scan's project that it   *)
(* was the last to report, and from the observations those of the scan and  *)
(* of those findings.                                                       *)
LEMMA Deletion ==
  ASSUME IInv, NEW d \in Scan, RemoveScan(d)
  PROVE  /\ task' = task /\ scanStatus' = [scanStatus EXCEPT ![d] = "deleted"]
         /\ findings' = {f \in findings : f.scan # d}
         /\ scanFindings' = {a \in scanFindings :
              a.scan # d /\ \A f \in findings : f.scan = d => f.id # a.finding}
         /\ \A f \in findings : f.scan = d => f.project = ProjectOf[d]
<1>1. \A f \in findings : f.run[1] = f.scan /\ f.project = ProjectOf[f.scan]
  BY DEF IInv, RowsConsistent
<1> DEFINE gone == {f \in findings :
                      \/ f.scan = d
                      \/ \E r \in {q \in engineRuns : q.run[1] = d} : r.run = f.run}
<1>2. gone = {f \in findings : f.scan = d}
  BY <1>1
<1>3. /\ findings' = findings \ gone
      /\ scanFindings' = {a \in scanFindings :
           a.scan # d /\ \A f \in gone : f.id # a.finding}
  BY DEF RemoveScan, DeleteScan
<1> HIDE DEF gone
<1> QED
  BY <1>1, <1>2, <1>3 DEF RemoveScan, DeleteScan

LEMMA LostByDeletion ==
  ASSUME IInv, NEW d \in Scan, RemoveScan(d),
         NEW s \in Scan, ~ProjectLostAScan(s)'
  PROVE  ProjectOf[d] # ProjectOf[s]
<1>1. scanStatus'[d] = "deleted"
  BY Deletion DEF IInv, TypeOK, StoreTypeOK
<1> QED
  BY <1>1 DEF ProjectLostAScan

(* As long as no scan of the project is deleted, its findings keep their    *)
(* rows.                                                                    *)
LEMMA RowsStay ==
  ASSUME IInv, IInv', [Next]_vars, NEW s \in Scan, ~ProjectLostAScan(s)',
         NEW f \in findings, f.project = ProjectOf[s]
  PROVE  \E g \in findings' : g.id = f.id
<1>0. TypeOK
  BY DEF IInv
<1>1. ASSUME NEW x \in Scan, RunEngine(x)
      PROVE  \E g \in findings' : g.id = f.id
  <2>1. CASE RecordFinding(x)
    BY <2>1, RecordEffect
  <2>2. CASE ~RecordFinding(x)
    BY <1>1, <2>2
    DEF RunEngine, SkipEngine, EngineFails, EngineUnparsable, EngineReports,
        EngineNotRecorded, FindingNotRecorded, AssociateFinding,
        AssociationFails, CreateEngineRun, CreateScanFinding, storeVars
  <2> QED
    BY <2>1, <2>2
<1>2. CASE Elsewhere
  BY <1>0, <1>2, OtherEffect DEF Elsewhere
<1>3. CASE Around
  <2>1. ASSUME NEW d \in Scan, RemoveScan(d)
        PROVE  \E g \in findings' : g.id = f.id
    <3>1. f.scan # d
      BY <2>1, Deletion, LostByDeletion
    <3> QED
      BY <2>1, <3>1, Deletion
  <2>2. ASSUME NEW h \in findings, NEW status \in FindingStatus,
               TriageFinding(h, status)
        PROVE  \E g \in findings' : g.id = f.id
    <3>1. PICK g : g = IF f.id = h.id THEN [f EXCEPT !.status = status] ELSE f
      OBVIOUS
    <3>2. g \in findings'
      BY <2>2, <3>1 DEF TriageFinding, UpdateFindingStatus
    <3>3. f \in Finding
      BY <1>0, RowTypes
    <3>4. g.id = f.id
      BY <3>1, <3>3 DEF Finding
    <3> QED
      BY <3>2, <3>4
  <2>3. CASE \/ \E x \in Scan : HourPasses(x)
             \/ ServerStops \/ ServeStart \/ UNCHANGED vars
    BY <2>3 DEF HourPasses, ServerStops, ServeStart, ReapStaleRunningScans,
                vars, storeVars
  <2> QED
    BY <1>3, <2>1, <2>2, <2>3 DEF Around
<1> QED
  BY <1>1, <1>2, <1>3, Steps DEF AtEngines

----------------------------------------------------------------------------
(* A statement of a worker fails by a fault or by a deletion *)

LEMMA FaultsCount ==
  ASSUME TypeOK, [Next]_vars, faults' = 0
  PROVE  faults = 0 /\ ~Fault
<1>1. faults \in Nat
  BY MaxFaultsAssumption DEF TypeOK
<1>2. faults' = faults \/ faults' = faults + 1
  BY DEF Next, WorkerStep, RunEngine, BeginProject, BeginFails, BeginScan,
         SkipEngine, EngineFails, EngineUnparsable, EngineReports,
         EngineNotRecorded, RecordFinding, FindingNotRecorded, AssociateFinding,
         AssociationFails, GenerateSBOM, SBOMFails, Finish, Announce, RemoveScan,
         HourPasses, KillCLI, TriageFinding, ServerStops, ServeStart, Fault, vars
<1> QED
  BY <1>1, <1>2 DEF Fault

(* The scan's row was there when its worker began, so one that is missing   *)
(* was deleted.                                                             *)
LEMMA Missing ==
  ASSUME IInv, PlaceInv, NEW s \in Scan, task[s].pc \in Storing \cup {"engine"},
         ~Present(s)
  PROVE  ProjectLostAScan(s)
<1>1. scanStatus[s] \in ScanRowStatus \cup {"none", "deleted"}
  BY DEF IInv, TypeOK, StoreTypeOK
<1>2. scanStatus[s] # "none"
  BY DEF PlaceInv, RowSound, Storing
<1> QED
  BY <1>1, <1>2 DEF Present, ProjectLostAScan

LEMMA ErrorNoted ==
  ASSUME IInv, IInv', PlaceInv, ErrorInv, [Next]_vars, faults' = 0,
         NEW s \in Scan,
         EngineNotRecorded(s) \/ FindingNotRecorded(s) \/ AssociationFails(s)
  PROVE  ProjectLostAScan(s)
<1>1. ~Fault
  BY FaultsCount DEF IInv
<1>2. CASE EngineNotRecorded(s)
  BY <1>1, <1>2, Missing DEF EngineNotRecorded, At
<1>3. CASE FindingNotRecorded(s)
  <2>1. task[s].pc = "upsert" /\ ~FindingKeysExist(NextFinding(s))
    BY <1>1, <1>3 DEF FindingNotRecorded, At
  <2>2. ProjectOf[s] \in projects
    BY <2>1 DEF PlaceInv, RowSound, Live, PC
  <2>3. Present(s) => \E r \in engineRuns : r.run = Run(s)
    BY <2>1 DEF IInv, WorkersKnowTheirRows
  <2>4. ~Present(s)
    BY <2>1, <2>2, <2>3 DEF FindingKeysExist, NextFinding
  <2> QED
    BY <2>1, <2>4, Missing DEF Storing
<1>4. CASE AssociationFails(s)
  <2>1. task[s].pc = "assoc" /\ ~ScanFindingKeysExist(NextObservation(s))
    BY <1>1, <1>4 DEF AssociationFails, At
  <2>2. ~Present(s) \/ ~\E f \in findings : f.id = task[s].row
    BY <2>1 DEF ScanFindingKeysExist, NextObservation
  <2> QED
    BY <2>1, <2>2, Missing DEF ErrorInv, Storing
<1> QED
  BY <1>2, <1>3, <1>4

LEMMA ErrorInit == Init => ErrorInv
<1> SUFFICES ASSUME Init PROVE ErrorInv
  OBVIOUS
<1>1. \A s \in Scan : task[s].err = "none" /\ task[s].pc = "idle"
  BY DEF Init, NewTask
<1> QED
  BY <1>1 DEF ErrorInv, StoreErrorNeedsDeletion

LEMMA ErrorStep ==
  ASSUME IInv, IInv', PlaceInv, ErrorInv, [Next]_vars
  PROVE  ErrorInv'
<1>0. TypeOK
  BY DEF IInv
<1>1. ASSUME NEW s \in Scan, task'[s].err = "store", faults' = 0
      PROVE  ProjectLostAScan(s)'
  <2>1. SUFFICES ProjectLostAScan(s)
    BY LossStays
  <2>2. CASE task[s].err = "store"
    BY <1>0, <1>1, <2>2, FaultsCount DEF ErrorInv, StoreErrorNeedsDeletion
  <2>3. CASE task[s].err # "store"
    <3>1. RunEngine(s)
      BY <1>0, <1>1, <2>3, Movers, OtherEffect DEF SameNotes
    <3>2. EngineNotRecorded(s) \/ FindingNotRecorded(s) \/ AssociationFails(s)
      BY <1>1, <2>3, <3>1, EngineEffect
    <3> QED
      BY <1>1, <3>2, ErrorNoted
  <2> QED
    BY <2>2, <2>3
<1>2. ASSUME NEW s \in Scan, task'[s].pc = "assoc", ~ProjectLostAScan(s)'
      PROVE  \E f \in findings' : f.id = task'[s].row
  <2>1. CASE RecordFinding(s)
    BY <2>1, RecordEffect
  <2>2. CASE ~RecordFinding(s)
    <3>1. task'[s] = task[s]
      BY <1>0, <1>2, <2>2, Movers, EngineEffect, OtherEffect
    <3>2. PICK f \in findings : f.id = task[s].row
      BY <1>2, <3>1, LossStays DEF ErrorInv
    <3>3. f.project = ProjectOf[s]
      BY <1>2, <3>1, <3>2 DEF IInv, WorkersKnowTheirRows
    <3> QED
      BY <1>2, <3>1, <3>2, <3>3, RowsStay
  <2> QED
    BY <2>1, <2>2
<1> QED
  BY <1>1, <1>2 DEF ErrorInv, StoreErrorNeedsDeletion

----------------------------------------------------------------------------
(* The latest scan of a finding observed it *)

LEMMA LatestInit == Init => LatestInv
BY DEF Init, StoreInit, LatestInv

(* What the worker's own step leaves true of the findings it reported last. *)
LEMMA EngineLatest ==
  ASSUME IInv, IInv', PlaceInv, LatestInv, NEW s \in Scan, RunEngine(s)
  PROVE  LatestInv'
<1> DEFINE t == task[s]
           u == task'[s]
<1>0. /\ Alone(s) /\ scanStatus' = scanStatus /\ TypeOK
      /\ u.pc # "dead" /\ t.pc # "dead" /\ (u.err # t.err => u.err # "none")
      /\ Job[s].kind = "engines"
  BY EngineEffect DEF IInv, Storing, PlaceInv, PlaceSound
<1>1. \A a \in scanFindings : a \in scanFindings'
  BY DEF RunEngine, SkipEngine, EngineFails, EngineUnparsable, EngineReports,
         EngineNotRecorded, RecordFinding, FindingNotRecorded, AssociateFinding,
         AssociationFails, CreateEngineRun, UpsertFinding, CreateScanFinding,
         storeVars
<1>2. ASSUME NEW f \in findings, f.scan # s
      PROVE  LatestSound(f)'
  <2>1. f.scan \in Scan /\ LatestSound(f)
    BY <1>0, RowTypes DEF LatestInv, Finding
  <2>2. task'[f.scan] = task[f.scan]
    BY <1>0, <1>2, <2>1 DEF Alone
  <2> QED
    BY <1>0, <1>1, <2>1, <2>2 DEF LatestSound
<1>3. ASSUME NEW f \in findings, f.scan = s,
             t.pc = "assoc" /\ t.row = f.id =>
               u.err # "none" \/ \E a \in scanFindings' : a.scan = s /\ a.finding = f.id
      PROVE  LatestSound(f)'
  <2>1. LatestSound(f)
    BY DEF LatestInv
  <2> QED
    BY <1>0, <1>1, <1>3, <2>1 DEF LatestSound
<1>4. CASE RecordFinding(s)
  <2>1. ASSUME NEW f \in findings'
        PROVE  LatestSound(f)'
    <3>1. CASE f.scan = s /\ f.id = u.row
      BY <1>0, <1>4, <3>1, RecordEffect DEF LatestSound
    <3>2. CASE f \in findings
      BY <1>2, <1>3, <1>4, <3>2 DEF RecordFinding, At
    <3> QED
      BY <1>4, <3>1, <3>2, RecordEffect
  <2> QED
    BY <2>1 DEF LatestInv
<1>5. CASE AssociateFinding(s)
  <2>1. findings' = findings
    BY <1>5 DEF AssociateFinding, CreateScanFinding
  <2>2. ASSUME NEW f \in findings, f.id = t.row
        PROVE  \E a \in scanFindings' : a.scan = s /\ a.finding = f.id
    <3>1. f.project = ProjectOf[s] /\ f.hash = Head(t.out)
      BY <1>5, <2>2 DEF IInv, WorkersKnowTheirRows, AssociateFinding, At
    <3>2. CASE Associated(NextObservation(s))
      <4>1. PICK a \in scanFindings : a.scan = s /\ a.hash = Head(t.out)
        BY <3>2 DEF Associated, NextObservation
      <4>2. PICK g \in findings :
              g.id = a.finding /\ g.hash = a.hash /\ g.project = ProjectOf[a.scan]
        BY DEF IInv, RowsConsistent
      <4>3. g = f
        BY <3>1, <4>1, <4>2 DEF IInv, OneRowPerKey
      <4> QED
        BY <1>1, <4>1, <4>2, <4>3
    <3>3. CASE ~Associated(NextObservation(s))
      <4>1. NextObservation(s) \in scanFindings'
        BY <1>5, <3>3 DEF AssociateFinding, CreateScanFinding
      <4> QED
        BY <2>2, <4>1 DEF NextObservation
    <3> QED
      BY <3>2, <3>3
  <2>3. ASSUME NEW f \in findings
        PROVE  LatestSound(f)'
    BY <1>2, <1>3, <2>2
  <2> QED
    BY <2>1, <2>3 DEF LatestInv
<1>6. CASE ~RecordFinding(s) /\ ~AssociateFinding(s)
  <2>1. findings' = findings /\ (t.pc = "assoc" => AssociationFails(s))
    BY <1>6
    DEF RunEngine, SkipEngine, EngineFails, EngineUnparsable, EngineReports,
        EngineNotRecorded, FindingNotRecorded, AssociationFails, CreateEngineRun,
        storeVars, At
  <2>2. AssociationFails(s) => u.err # "none"
    BY <1>0, ErrorEffect DEF AssociationFails
  <2>3. ASSUME NEW f \in findings
        PROVE  LatestSound(f)'
    BY <1>2, <1>3, <2>1, <2>2
  <2> QED
    BY <2>1, <2>3 DEF LatestInv
<1> QED
  BY <1>4, <1>5, <1>6

LEMMA OtherLatest ==
  ASSUME IInv, PlaceInv, LatestInv, NEW s \in Scan, Other(s)
  PROVE  LatestInv'
<1> DEFINE t == task[s]
           u == task'[s]
<1>0. /\ TypeOK /\ Alone(s) /\ UNCHANGED <<findings, scanFindings>>
      /\ u.err = t.err /\ u.pc # "assoc"
  BY OtherEffect DEF IInv
<1>1. ASSUME NEW f \in findings
      PROVE  LatestSound(f)'
  <2>1. f.scan \in Scan /\ LatestSound(f)
    BY <1>0, RowTypes DEF LatestInv, Finding
  <2>2. \A x \in Scan : x # s => task'[x] = task[x]
    BY <1>0 DEF Alone
  <2>3. \A x \in Scan : x # s /\ scanStatus'[x] = "completed" =>
          scanStatus[x] = "completed"
    BY <1>0
    DEF Other, BeginProject, BeginFails, BeginScan, GenerateSBOM, SBOMFails,
        Finish, Announce, KillCLI, UpsertProject, CreateScan, CreateArtifact,
        UpdateScanStatus, storeVars, TypeOK, StoreTypeOK
  <2>4. t.pc = "assoc" => u.pc = "dead" /\ scanStatus'[s] # "completed"
    <3>1. t.pc = "assoc" => KillCLI(s) /\ u.pc = "dead"
      BY <1>0, OtherEffect
    <3>2. t.pc = "assoc" => scanStatus[s] # "completed"
      BY DEF PlaceInv, RowSound
    <3> QED
      BY <3>1, <3>2 DEF KillCLI, storeVars
  <2>5. t.pc # "dead"
    BY <1>0, OtherEffect DEF Live
  <2> QED
    BY <1>0, <2>1, <2>2, <2>3, <2>4, <2>5 DEF LatestSound
<1> QED
  BY <1>0, <1>1 DEF LatestInv

LEMMA AroundLatest ==
  ASSUME IInv, PlaceInv, LatestInv, Around
  PROVE  LatestInv'
<1>0. TypeOK
  BY DEF IInv
<1>1. ASSUME NEW f, LatestSound(f), f.scan \in Scan,
             \A a \in scanFindings : a.scan = f.scan /\ a.finding = f.id =>
               a \in scanFindings'
      PROVE  LatestSound(f)'
  <2>1. \/ task'[f.scan] = task[f.scan]
        \/ /\ task'[f.scan].pc = "dead" /\ task'[f.scan].err = task[f.scan].err
           /\ task[f.scan].pc \in Live
    BY <1>0, <1>1, AroundEffect DEF SameNotes
  <2>2. scanStatus'[f.scan] = "completed" => scanStatus[f.scan] = "completed"
    BY <1>0, <1>1, AroundEffect
  <2>3. task[f.scan].pc = "assoc" => scanStatus[f.scan] # "completed"
    BY <1>1 DEF PlaceInv, RowSound
  <2>4. "dead" \notin Live
    BY DEF Live
  <2> QED
    BY <1>1, <2>1, <2>2, <2>3, <2>4 DEF LatestSound
<1>2. \A f \in findings : f.scan \in Scan /\ LatestSound(f)
  BY <1>0, RowTypes DEF LatestInv, Finding
<1>3. ASSUME NEW d \in Scan, RemoveScan(d)
      PROVE  LatestInv'
  <2>1. ASSUME NEW f \in findings, f.scan # d
        PROVE  LatestSound(f)'
    <3>1. \A g \in findings : g.scan = d => g.id # f.id
      BY <2>1 DEF IInv, OneRowPerKey
    <3> QED
      BY <1>1, <1>2, <1>3, <2>1, <3>1, Deletion
  <2> QED
    BY <1>3, <2>1, Deletion DEF LatestInv
<1>4. ASSUME NEW h \in findings, NEW status \in FindingStatus,
             TriageFinding(h, status)
      PROVE  LatestInv'
  <2>1. scanFindings' = scanFindings
    BY <1>4 DEF TriageFinding, UpdateFindingStatus
  <2>2. ASSUME NEW f \in findings'
        PROVE  LatestSound(f)'
    <3>1. PICK g \in findings :
            f = IF g.id = h.id THEN [g EXCEPT !.status = status] ELSE g
      BY <1>4 DEF TriageFinding, UpdateFindingStatus
    <3>2. f.id = g.id /\ f.scan = g.scan
      BY <1>0, <3>1, RowTypes DEF Finding
    <3>3. LatestSound(f) /\ f.scan \in Scan
      BY <1>2, <3>2 DEF LatestSound
    <3> QED
      BY <1>1, <2>1, <3>3
  <2> QED
    BY <2>2 DEF LatestInv
<1>5. CASE \/ \E x \in Scan : HourPasses(x)
           \/ ServerStops \/ ServeStart \/ UNCHANGED vars
  <2>1. UNCHANGED <<findings, scanFindings>>
    BY <1>5 DEF HourPasses, ServerStops, ServeStart, ReapStaleRunningScans,
                vars, storeVars
  <2> QED
    BY <1>1, <1>2, <2>1 DEF LatestInv
<1> QED
  BY <1>3, <1>4, <1>5 DEF Around

LEMMA LatestStep ==
  ASSUME IInv, IInv', PlaceInv, LatestInv, [Next]_vars
  PROVE  LatestInv'
BY Steps, EngineLatest, OtherLatest, AroundLatest DEF AtEngines, Elsewhere

----------------------------------------------------------------------------
(* What was observed is what was reported *)

LEMMA HeldParts ==
  ASSUME NEW q \in Seq(Hash), q # <<>>
  PROVE  {q[i] : i \in DOMAIN q} =
           {Head(q)} \cup {Tail(q)[i] : i \in DOMAIN Tail(q)}
<1> DEFINE n == Len(q)
<1>1. n \in Nat /\ n >= 1 /\ DOMAIN q = 1..n /\ Head(q) = q[1]
  BY HeadAndTail
<1>2. DOMAIN Tail(q) = 1..(n - 1) /\ \A i \in 1..(n - 1) : Tail(q)[i] = q[i + 1]
  BY <1>1
<1> HIDE DEF n
<1>3. ASSUME NEW i \in 1..n
      PROVE  q[i] = q[1] \/ \E j \in 1..(n - 1) : q[i] = q[j + 1]
  <2>1. i = 1 \/ (i - 1 \in 1..(n - 1) /\ i = (i - 1) + 1)
    BY <1>1
  <2> QED
    BY <2>1
<1>4. 1 \in 1..n /\ \A j \in 1..(n - 1) : j + 1 \in 1..n
  BY <1>1
<1>5. \A x : x \in {q[i] : i \in DOMAIN q} <=> \E i \in 1..n : x = q[i]
  BY <1>1
<1>6. \A x : x \in {Tail(q)[i] : i \in DOMAIN Tail(q)} <=>
              \E j \in 1..(n - 1) : x = q[j + 1]
  BY <1>2
<1>7. \A x : (\E i \in 1..n : x = q[i]) <=>
              x = q[1] \/ \E j \in 1..(n - 1) : x = q[j + 1]
  BY <1>3, <1>4
<1> QED
  BY <1>1, <1>5, <1>6, <1>7

LEMMA CompletedBy ==
  ASSUME IInv, [Next]_vars, NEW s \in Scan, scanStatus'[s] = "completed",
         scanStatus[s] # "completed"
  PROVE  Finish(s)
<1>0. TypeOK /\ scanStatus \in [Scan -> ScanRowStatus \cup {"none", "deleted"}]
  BY DEF IInv, TypeOK, StoreTypeOK
<1>1. ~Around
  BY <1>0, AroundEffect
<1>2. ASSUME NEW x \in Scan, RunEngine(x)
      PROVE  scanStatus' = scanStatus
  BY <1>2
  DEF RunEngine, SkipEngine, EngineFails, EngineUnparsable, EngineReports,
      EngineNotRecorded, RecordFinding, FindingNotRecorded, AssociateFinding,
      AssociationFails, CreateEngineRun, UpsertFinding, CreateScanFinding,
      storeVars
<1>3. ASSUME NEW x \in Scan, Other(x), ~Finish(x)
      PROVE  scanStatus' \in {scanStatus, [scanStatus EXCEPT ![x] = "running"]}
  BY <1>3
  DEF Other, BeginProject, BeginFails, BeginScan, GenerateSBOM, SBOMFails,
      Announce, KillCLI, UpsertProject, CreateScan, CreateArtifact, storeVars
<1>4. ASSUME NEW x \in Scan, Finish(x), x # s
      PROVE  FALSE
  BY <1>0, <1>4 DEF Finish, UpdateScanStatus, storeVars
<1> QED
  BY <1>0, <1>1, <1>2, <1>3, <1>4, Steps DEF AtEngines, Elsewhere

(* Nothing but the worker of s adds to what s observed, and nothing but a   *)
(* deletion in its project takes from it.                                   *)
LEMMA ObservedStays ==
  ASSUME IInv, IInv', [Next]_vars, NEW s \in Scan, ~AssociateFinding(s)
  PROVE  /\ Observed(s)' \subseteq Observed(s)
         /\ ~ProjectLostAScan(s)' => Observed(s)' = Observed(s)
<1>0. TypeOK
  BY DEF IInv
<1>1. ASSUME scanFindings' = scanFindings
      PROVE  Observed(s)' = Observed(s)
  BY <1>1 DEF Observed
<1>2. ASSUME NEW x \in Scan, RunEngine(x)
      PROVE  Observed(s)' = Observed(s)
  <2>1. CASE AssociateFinding(x)
    <3>1. x # s
      BY <2>1
    <3>2. \/ scanFindings' = scanFindings
          \/ scanFindings' = scanFindings \cup {NextObservation(x)}
      BY <2>1, AssociateEffect
    <3> QED
      BY <3>1, <3>2 DEF Observed, NextObservation
  <2>2. CASE ~AssociateFinding(x)
    <3>1. scanFindings' = scanFindings
      BY <1>2, <2>2
      DEF RunEngine, SkipEngine, EngineFails, EngineUnparsable, EngineReports,
          EngineNotRecorded, RecordFinding, FindingNotRecorded,
          AssociationFails, CreateEngineRun, UpsertFinding, storeVars
    <3> QED
      BY <1>1, <3>1
  <2> QED
    BY <2>1, <2>2
<1>3. CASE Elsewhere
  BY <1>0, <1>1, <1>3, OtherEffect DEF Elsewhere
<1>4. ASSUME NEW d \in Scan, RemoveScan(d)
      PROVE  /\ Observed(s)' \subseteq Observed(s)
             /\ ~ProjectLostAScan(s)' => Observed(s)' = Observed(s)
  <2>1. scanFindings' \subseteq scanFindings
    BY <1>4, Deletion
  <2>2. ASSUME ~ProjectLostAScan(s)', NEW a \in scanFindings, a.scan = s
        PROVE  a \in scanFindings'
    <3>1. ProjectOf[d] # ProjectOf[s]
      BY <1>4, <2>2, LostByDeletion
    <3>2. PICK g \in findings : g.id = a.finding /\ g.project = ProjectOf[s]
      BY <2>2 DEF IInv, RowsConsistent
    <3>3. ASSUME NEW f \in findings, f.scan = d
          PROVE  f.id # a.finding
      <4>1. f.project = ProjectOf[d]
        BY <1>4, <3>3, Deletion
      <4> QED
        BY <3>1, <3>2, <4>1 DEF IInv, OneRowPerKey
    <3> QED
      BY <1>4, <2>2, <3>1, <3>3, Deletion
  <2> QED
    BY <2>1, <2>2 DEF Observed
<1>5. CASE Around /\ ~\E d \in Scan : RemoveScan(d)
  <2>1. scanFindings' = scanFindings
    BY <1>5 DEF Around, HourPasses, TriageFinding, UpdateFindingStatus,
                ServerStops, ServeStart, ReapStaleRunningScans, vars, storeVars
  <2> QED
    BY <1>1, <2>1
<1> QED
  BY <1>2, <1>3, <1>4, <1>5, Steps DEF AtEngines, Around

LEMMA ObservedMore ==
  ASSUME IInv, NEW s \in Scan, AssociateFinding(s)
  PROVE  Observed(s)' = Observed(s) \cup {Head(task[s].out)}
<1>1. NextObservation(s).scan = s /\ NextObservation(s).hash = Head(task[s].out)
  BY DEF NextObservation
<1>2. CASE scanFindings' = scanFindings /\ Associated(NextObservation(s))
  BY <1>1, <1>2 DEF Observed, Associated
<1>3. CASE scanFindings' = scanFindings \cup {NextObservation(s)}
  BY <1>1, <1>3 DEF Observed
<1> QED
  BY <1>2, <1>3, AssociateEffect

(* What HistoryInv says of one scan. *)
HistorySound(s) ==
  /\ Observed(s) \subseteq task[s].reported
  /\ scanStatus[s] = "completed" /\ ~ProjectLostAScan(s) =>
       Observed(s) = task[s].reported
  /\ task[s].pc \in Storing => Held(task[s]) \subseteq task[s].reported
  /\ task[s].err = "none" /\ task[s].pc # "dead" /\ ~ProjectLostAScan(s) =>
       task[s].reported = Observed(s) \cup Held(task[s])

LEMMA HistoryMeans == HistoryInv <=> \A s \in Scan : HistorySound(s)
BY DEF HistoryInv, HistoryIsWhatWasReported, HistorySound

LEMMA HeldNothing == ASSUME NEW t, t.out = <<>> PROVE Held(t) = {}
BY DEF Held

LEMMA HistoryInit == Init => HistoryInv
<1> SUFFICES ASSUME Init, NEW s \in Scan PROVE HistorySound(s)
  BY HistoryMeans
<1>1. task[s] = NewTask /\ Observed(s) = {} /\ scanStatus[s] = "none"
  BY DEF Init, StoreInit, Observed
<1>2. Held(task[s]) = {} /\ task[s].reported = {} /\ task[s].pc = "idle"
  BY <1>1, HeldNothing DEF NewTask
<1> QED
  BY <1>1, <1>2 DEF HistorySound, Storing

(* The worker of s at an engine of its plan.                                *)
LEMMA EngineHistory ==
  ASSUME IInv, IInv', PlaceInv, HistoryInv, [Next]_vars,
         NEW s \in Scan, RunEngine(s)
  PROVE  HistorySound(s)'
<1> DEFINE t == task[s]
           u == task'[s]
<1>0. /\ TypeOK /\ t \in Task /\ PlaceSound(s, t)
      /\ t.pc \in Storing \cup {"engine"}
      /\ scanStatus'[s] # "completed"
      /\ ProjectLostAScan(s) => ProjectLostAScan(s)'
  BY EngineEffect, LossStays
  DEF IInv, TypeOK, Storing, PlaceInv, RowSound
<1>1. /\ Observed(s) \subseteq t.reported
      /\ t.pc \in Storing => Held(t) \subseteq t.reported
      /\ t.err = "none" /\ ~ProjectLostAScan(s) =>
           t.reported = Observed(s) \cup Held(t)
  BY <1>0, HistoryMeans DEF HistorySound, Storing
<1>2. SUFFICES /\ Observed(s)' \subseteq u.reported
               /\ u.pc \in Storing => Held(u) \subseteq u.reported
               /\ u.err = "none" /\ ~ProjectLostAScan(s)' =>
                    u.reported = Observed(s)' \cup Held(u)
  BY <1>0 DEF HistorySound, Held
<1>3. ~AssociateFinding(s) =>
        /\ Observed(s)' \subseteq Observed(s)
        /\ ~ProjectLostAScan(s)' => Observed(s)' = Observed(s)
  BY ObservedStays
<1>4. t.pc = "engine" => Held(t) = {}
  BY <1>0, HeldNothing DEF PlaceSound, Storing
<1>5. Onward(s, t, u) => Held(u) = {} /\ u.pc \notin Storing
  BY HeldNothing DEF Onward, AfterEngines, Storing
<1>6. CASE SkipEngine(s)
  BY <1>0, <1>1, <1>3, <1>4, <1>5, <1>6, SkipEffect DEF AssociateFinding, At
<1>7. CASE EngineFails(s) \/ EngineUnparsable(s) \/ EngineNotRecorded(s)
           \/ FindingNotRecorded(s) \/ AssociationFails(s)
  <2>1. Onward(s, t, u) /\ u.err # "none" /\ u.reported = t.reported
    BY <1>0, <1>7, ErrorEffect
    DEF EngineFails, EngineUnparsable, EngineNotRecorded, FindingNotRecorded,
        AssociationFails
  <2>2. Observed(s)' \subseteq Observed(s)
    <3>1. scanFindings' = scanFindings
      BY <1>7 DEF EngineFails, EngineUnparsable, EngineNotRecorded,
                  FindingNotRecorded, AssociationFails, CreateEngineRun, storeVars
    <3> QED
      BY <3>1 DEF Observed
  <2> QED
    BY <1>1, <1>5, <2>1, <2>2
<1>8. ASSUME NEW report \in Reports, EngineReports(s, report)
      PROVE  /\ Observed(s)' \subseteq u.reported
             /\ u.pc \in Storing => Held(u) \subseteq u.reported
             /\ u.err = "none" /\ ~ProjectLostAScan(s)' =>
                  u.reported = Observed(s)' \cup Held(u)
  <2>1. t.pc = "engine" /\ u.err = t.err
    BY <1>0, <1>8, ReportEffect
  <2>2. ~AssociateFinding(s)
    BY <2>1 DEF AssociateFinding, At
  <2>3. CASE report = <<>>
    BY <1>0, <1>1, <1>3, <1>4, <1>5, <1>8, <2>1, <2>2, <2>3, ReportEffect
  <2>4. CASE report # <<>>
    <3>1. /\ u.reported = t.reported \cup {report[i] : i \in DOMAIN report}
          /\ u.out = report
      BY <1>0, <1>8, <2>4, ReportEffect
    <3>2. Held(u) = {report[i] : i \in DOMAIN report}
      BY <3>1 DEF Held
    <3> QED
      BY <1>0, <1>1, <1>3, <1>4, <2>1, <2>2, <3>1, <3>2
  <2> QED
    BY <2>3, <2>4
<1>9. CASE RecordFinding(s)
  <2>1. /\ t.pc = "upsert" /\ SameNotes(t, u) /\ u.out = t.out
        /\ Held(u) = Held(t)
    BY <1>9, RecordEffect DEF Held
  <2>2. ~AssociateFinding(s)
    BY <2>1 DEF AssociateFinding, At
  <2> QED
    BY <1>0, <1>1, <1>3, <2>1, <2>2 DEF SameNotes, Storing
<1>10. CASE AssociateFinding(s)
  <2>1. /\ t.pc = "assoc" /\ SameNotes(t, u)
        /\ Observed(s)' = Observed(s) \cup {Head(t.out)}
    BY <1>10, AssociateEffect, ObservedMore
  <2>2. t.out \in Seq(Hash) /\ t.out # <<>>
    BY <1>0, <2>1 DEF Task, IInv, WorkersKnowTheirRows
  <2>3. Held(t) = {Head(t.out)} \cup {Tail(t.out)[i] : i \in DOMAIN Tail(t.out)}
    BY <2>2, HeldParts DEF Held
  <2>4. Held(u) = {Tail(t.out)[i] : i \in DOMAIN Tail(t.out)}
    <3>1. u.out = Tail(t.out)
      BY <1>10, AssociateEffect DEF Onward
    <3> QED
      BY <3>1 DEF Held
  <2> QED
    BY <1>0, <1>1, <2>1, <2>3, <2>4 DEF SameNotes, Storing
<1> QED
  BY <1>6, <1>7, <1>8, <1>9, <1>10 DEF RunEngine

(* Any other step: the worker of s holds and has reported what it did.      *)
LEMMA QuietHistory ==
  ASSUME IInv, IInv', PlaceInv, PlaceInv', HistoryInv, [Next]_vars,
         NEW s \in Scan, ~RunEngine(s)
  PROVE  HistorySound(s)'
<1> DEFINE t == task[s]
           u == task'[s]
<1>0. TypeOK /\ "dead" \notin Live
  BY DEF IInv, Live
<1>1. /\ u.reported = t.reported /\ u.err = t.err /\ u.out = t.out
      /\ u.pc # "dead" => t.pc # "dead"
      /\ u.pc \in Storing => u = t
  BY <1>0, Movers, OtherEffect DEF SameNotes, Storing
<1>2. Held(u) = Held(t)
  BY <1>1 DEF Held
<1>3. /\ Observed(s)' \subseteq Observed(s)
      /\ ~ProjectLostAScan(s)' => Observed(s)' = Observed(s)
  BY ObservedStays DEF RunEngine
<1>4. ProjectLostAScan(s) => ProjectLostAScan(s)'
  BY LossStays
<1>5. HistorySound(s)
  BY HistoryMeans
<1>6. Observed(s)' \subseteq u.reported
  BY <1>1, <1>3, <1>5 DEF HistorySound
<1>7. u.pc \in Storing => Held(u) \subseteq u.reported
  BY <1>1, <1>5 DEF HistorySound
<1>8. u.err = "none" /\ u.pc # "dead" /\ ~ProjectLostAScan(s)' =>
        u.reported = Observed(s)' \cup Held(u)
  BY <1>1, <1>2, <1>3, <1>4, <1>5 DEF HistorySound
<1>9. ASSUME scanStatus'[s] = "completed", ~ProjectLostAScan(s)'
      PROVE  Observed(s)' = u.reported
  <2>1. CASE scanStatus[s] = "completed"
    BY <1>1, <1>3, <1>4, <1>5, <1>9, <2>1 DEF HistorySound
  <2>2. CASE scanStatus[s] # "completed"
    <3>1. Finish(s)
      BY <1>9, <2>2, CompletedBy
    <3>2. u.pc = "announce"
      BY <1>0, <3>1, PlainEffect DEF Finish
    <3>3. u.err = "none" /\ u.out = <<>>
      BY <1>9, <3>2 DEF PlaceInv, RowSound, PlaceSound, Storing
    <3> QED
      BY <1>8, <1>9, <3>2, <3>3, HeldNothing
  <2> QED
    BY <2>1, <2>2
<1> QED
  BY <1>6, <1>7, <1>8, <1>9 DEF HistorySound, Held

LEMMA HistoryStep ==
  ASSUME IInv, IInv', PlaceInv, PlaceInv', HistoryInv, [Next]_vars
  PROVE  HistoryInv'
<1>1. ASSUME NEW s \in Scan
      PROVE  HistorySound(s)'
  BY EngineHistory, QuietHistory
<1> QED
  BY <1>1 DEF HistorySound, HistoryInv, HistoryIsWhatWasReported

----------------------------------------------------------------------------
(* What was published is what is on record *)

EventSound(e) ==
  /\ task[e.scan].pc \notin {"idle", "project"}
  /\ e.pos = 0 => task[e.scan].pc = "done"
  /\ faults = 0 /\ Present(e.scan) =>
       IF e.pos = 0 THEN scanStatus[e.scan] = e.status
       ELSE [run |-> <<e.scan, e.pos>>, status |-> e.status] \in engineRuns

VerdictSound(s) ==
  faults = 0 /\ task[s].pc \in {"announce", "done"} /\ Present(s) =>
    scanStatus[s] = Verdict(s)

LEMMA EventMeans ==
  EventInv <=> (\A e \in events : EventSound(e)) /\ (\A s \in Scan : VerdictSound(s))
BY DEF EventInv, EventsMatchRows, EventSound, VerdictSound

LEMMA EventInit == Init => EventInv
BY DEF Init, NewTask, EventInv, EventsMatchRows

(* A status that is final stays, until the scan is deleted.                 *)
LEMMA StatusStays ==
  ASSUME IInv, IInv', [Next]_vars, NEW s \in Scan,
         task[s].pc \notin {"project", "finish"}, scanStatus[s] # "running",
         Present(s)'
  PROVE  scanStatus'[s] = scanStatus[s]
<1>0. TypeOK /\ scanStatus \in [Scan -> ScanRowStatus \cup {"none", "deleted"}]
  BY DEF IInv, TypeOK, StoreTypeOK
<1>1. CASE AtEngines
  BY <1>1, EngineEffect DEF AtEngines
<1>2. CASE Around
  BY <1>0, <1>2, AroundEffect DEF Present, ScanRowStatus
<1>3. ASSUME NEW x \in Scan, Other(x)
      PROVE  scanStatus'[s] = scanStatus[s]
  <2>1. CASE BeginScan(x) \/ Finish(x)
    <3>1. x # s
      BY <2>1 DEF BeginScan, Finish, At
    <3> QED
      BY <1>0, <2>1, <3>1
      DEF BeginScan, CreateScan, Finish, UpdateScanStatus, storeVars
  <2>2. CASE ~BeginScan(x) /\ ~Finish(x)
    BY <1>3, <2>2
    DEF Other, BeginProject, BeginFails, GenerateSBOM, SBOMFails, Announce,
        KillCLI, UpsertProject, CreateArtifact, storeVars
  <2> QED
    BY <2>1, <2>2
<1> QED
  BY <1>1, <1>2, <1>3, Steps DEF Elsewhere

LEMMA EventKept ==
  ASSUME IInv, IInv', PlaceInv, EventInv, RunsKept, [Next]_vars, NEW e \in events
  PROVE  EventSound(e)'
<1> DEFINE s == e.scan
<1>1. PICK x : x = e.scan
  OBVIOUS
<1>2. /\ TypeOK /\ x \in Scan /\ e.status \in RunStatus
      /\ scanStatus \in [Scan -> ScanRowStatus \cup {"none", "deleted"}]
  BY <1>1 DEF IInv, TypeOK, StoreTypeOK, Event
<1>3. EventSound(e)
  BY EventMeans
<1>4. task[x].pc \notin {"idle", "project"} /\ (e.pos = 0 => task[x].pc = "done")
  BY <1>1, <1>3 DEF EventSound
<1>5. "done" \notin Live /\ "dead" \notin {"idle", "project"}
  BY DEF Live
<1>6. /\ task'[x].pc \notin {"idle", "project"}
      /\ e.pos = 0 => task'[x].pc = "done"
  <2>1. CASE task'[x] = task[x]
    BY <1>4, <2>1
  <2>2. CASE task'[x] # task[x]
    BY <1>2, <1>4, <1>5, <2>2, Movers, EngineEffect, OtherEffect DEF Storing
  <2> QED
    BY <2>1, <2>2
<1>7. ASSUME faults' = 0, Present(x)'
      PROVE  IF e.pos = 0 THEN scanStatus'[x] = e.status
             ELSE [run |-> <<x, e.pos>>, status |-> e.status] \in engineRuns'
  <2>1. faults = 0 /\ Present(x)
    BY <1>2, <1>4, <1>7, FaultsCount DEF RunsKept
  <2>2. CASE e.pos = 0
    <3>1. scanStatus[x] = e.status /\ scanStatus[x] # "running"
      BY <1>1, <1>2, <1>3, <2>1, <2>2 DEF EventSound, RunStatus
    <3> QED
      BY <1>2, <1>4, <1>7, <2>2, <3>1, StatusStays
  <2>3. CASE e.pos # 0
    <3>1. PICK r : r = [run |-> <<x, e.pos>>, status |-> e.status]
      OBVIOUS
    <3>2. r \in engineRuns /\ r.run[1] = x
      BY <1>1, <1>3, <2>1, <2>3, <3>1 DEF EventSound
    <3> QED
      BY <1>2, <1>7, <2>3, <3>1, <3>2 DEF RunsKept
  <2> QED
    BY <2>2, <2>3
<1> QED
  BY <1>1, <1>6, <1>7 DEF EventSound, Present

(* An engine is announced with the status of the run just written, and at   *)
(* the end the status that the last update wrote.                           *)
LEMMA EventNew ==
  ASSUME IInv, IInv', PlaceInv, EventInv, RunsKept, [Next]_vars,
         NEW e \in events', e \notin events
  PROVE  EventSound(e)'
<1>0. TypeOK
  BY DEF IInv
<1>1. ASSUME NEW s \in Scan, NEW status, NEW at, at = task[s].pos,
             RunEngine(s),
             e = [scan |-> s, pos |-> at, status |-> status],
             faults' = 0 /\ Present(s)' =>
               [run |-> Run(s), status |-> status] \in engineRuns'
      PROVE  EventSound(e)'
  <2>1. e.scan = s /\ e.pos = at /\ e.status = status /\ at # 0
    <3>1. at \in Nat /\ at >= 1
      BY <1>0, <1>1 DEF PlaceInv, PlaceSound, TypeOK, Task
    <3> QED
      BY <1>1, <3>1
  <2>2. task'[s].pc \notin {"idle", "project"}
    BY <1>1, EngineEffect DEF Storing
  <2> QED
    BY <1>1, <2>1, <2>2 DEF EventSound, Run, Present
<1>2. ASSUME NEW s \in Scan, RunEngine(s)
      PROVE  EventSound(e)'
  <2>1. PICK at : at = task[s].pos
    OBVIOUS
  <2>2. CASE SkipEngine(s)
    <3>1. e = [scan |-> s, pos |-> at, status |-> "skipped"]
      BY <2>1, <2>2 DEF SkipEngine, Emit
    <3>2. faults' = 0 /\ Present(s)' =>
            [run |-> Run(s), status |-> "skipped"] \in engineRuns'
      BY <1>0, <2>2, FaultsCount DEF SkipEngine, CreateEngineRun, storeVars, Present
    <3> QED
      BY <1>1, <1>2, <2>1, <3>1, <3>2
  <2>3. CASE EngineFails(s)
    <3>1. e = [scan |-> s, pos |-> at, status |-> "failed"]
      BY <2>1, <2>3 DEF EngineFails, Emit
    <3>2. [run |-> Run(s), status |-> "failed"] \in engineRuns'
      BY <2>3 DEF EngineFails, CreateEngineRun
    <3> QED
      BY <1>1, <1>2, <2>1, <3>1, <3>2
  <2>4. ASSUME NEW report \in Reports, EngineReports(s, report)
        PROVE  EventSound(e)'
    <3>1. e = [scan |-> s, pos |-> at, status |-> "completed"]
      BY <2>1, <2>4 DEF EngineReports, Emit
    <3>2. [run |-> Run(s), status |-> "completed"] \in engineRuns'
      BY <2>4 DEF EngineReports, CreateEngineRun
    <3> QED
      BY <1>1, <1>2, <2>1, <3>1, <3>2
  <2>5. CASE AssociateFinding(s)
    <3>1. e = [scan |-> s, pos |-> at, status |-> "completed"]
      BY <2>1, <2>5 DEF AssociateFinding, Emit
    <3>2. Present(s)' => [run |-> Run(s), status |-> "completed"] \in engineRuns'
      BY <2>5 DEF AssociateFinding, At, CreateScanFinding, Present, IInv,
                  WorkersKnowTheirRows
    <3> QED
      BY <1>1, <1>2, <2>1, <3>1, <3>2
  <2>6. CASE EngineUnparsable(s) \/ EngineNotRecorded(s) \/ RecordFinding(s)
             \/ FindingNotRecorded(s) \/ AssociationFails(s)
    BY <2>6 DEF EngineUnparsable, EngineNotRecorded, RecordFinding,
                FindingNotRecorded, AssociationFails
  <2> QED
    BY <1>2, <2>2, <2>3, <2>4, <2>5, <2>6 DEF RunEngine
<1>3. ASSUME NEW s \in Scan, Other(s)
      PROVE  EventSound(e)'
  <2>1. Announce(s)
    BY <1>3 DEF Other, BeginProject, BeginFails, BeginScan, GenerateSBOM,
                SBOMFails, Finish, KillCLI
  <2>2. /\ e.scan = s /\ e.pos = 0 /\ e.status = Verdict(s)
        /\ scanStatus' = scanStatus /\ faults' = faults
    <3>1. e = [scan |-> s, pos |-> 0, status |-> Verdict(s)]
      BY <2>1 DEF Announce, Emit
    <3> QED
      BY <2>1, <3>1 DEF Announce, storeVars
  <2>3. task[s].pc = "announce" /\ task'[s].pc = "done"
    BY <1>0, <2>1, PlainEffect DEF Announce, At
  <2>4. VerdictSound(s)
    BY EventMeans
  <2> QED
    BY <2>2, <2>3, <2>4 DEF EventSound, VerdictSound, Present
<1>4. CASE Around
  BY <1>4 DEF Around, RemoveScan, HourPasses, TriageFinding, ServerStops,
              ServeStart, vars
<1> QED
  BY <1>2, <1>3, <1>4, Steps DEF AtEngines, Elsewhere

LEMMA VerdictKept ==
  ASSUME IInv, IInv', EventInv, RunsKept, [Next]_vars, NEW s \in Scan
  PROVE  VerdictSound(s)'
<1> DEFINE t == task[s]
           u == task'[s]
<1>0. /\ TypeOK /\ VerdictSound(s) /\ Verdict(s) \in {"completed", "failed"}
      /\ scanStatus \in [Scan -> ScanRowStatus \cup {"none", "deleted"}]
  BY EventMeans DEF IInv, TypeOK, StoreTypeOK, Verdict
<1>1. SUFFICES ASSUME faults' = 0, u.pc \in {"announce", "done"}, Present(s)'
               PROVE  scanStatus'[s] = Verdict(s)'
  BY DEF VerdictSound
<1>2. faults = 0 /\ ~Fault
  BY <1>0, <1>1, FaultsCount
<1>3. CASE u = t
  <2>1. Present(s) /\ Verdict(s)' = Verdict(s)
    BY <1>1, <1>3 DEF RunsKept, Verdict
  <2> QED
    BY <1>0, <1>1, <1>2, <1>3, <2>1, StatusStays DEF VerdictSound
<1>4. CASE u # t
  <2>1. (Finish(s) /\ t.pc = "finish") \/ (Announce(s) /\ t.pc = "announce")
    BY <1>0, <1>1, <1>4, Movers, EngineEffect, OtherEffect DEF Storing
  <2>2. SameNotes(t, u)
    BY <1>0, <2>1, PlainEffect DEF Finish, Announce
  <2>3. Verdict(s)' = Verdict(s) /\ Present(s)
    BY <1>1, <2>1, <2>2 DEF Verdict, SameNotes, RunsKept
  <2>4. CASE Finish(s)
    BY <1>0, <1>2, <2>3, <2>4 DEF Finish, UpdateScanStatus
  <2>5. CASE Announce(s) /\ t.pc = "announce"
    BY <1>0, <1>2, <2>3, <2>5 DEF Announce, storeVars, VerdictSound
  <2> QED
    BY <2>1, <2>4, <2>5
<1> QED
  BY <1>3, <1>4

LEMMA EventStep ==
  ASSUME IInv, IInv', PlaceInv, EventInv, [Next]_vars
  PROVE  EventInv'
<1>1. RunsKept
  BY RunsStay
<1>2. \A e \in events' : EventSound(e)'
  BY <1>1, EventKept, EventNew
<1>3. \A s \in Scan : VerdictSound(s)'
  BY <1>1, VerdictKept
<1> QED
  BY <1>2, <1>3 DEF EventInv, EventsMatchRows, EventSound, VerdictSound

----------------------------------------------------------------------------
(* The theorems *)

(* The six need IInv, and PlaceInv is what the other five need of a worker. *)
HInv ==
  /\ IInv /\ PlaceInv /\ PlanInv
  /\ ErrorInv /\ LatestInv /\ HistoryInv /\ EventInv

LEMMA HistoryInductive == HInv /\ [Next]_vars => HInv'
<1> SUFFICES ASSUME HInv, [Next]_vars PROVE HInv'
  OBVIOUS
<1>1. IInv /\ IInv'
  BY StepInv DEF HInv
<1>2. PlaceInv /\ PlaceInv'
  BY <1>1, PlaceStep DEF HInv
<1> QED
  BY <1>1, <1>2, PlanStep, ErrorStep, LatestStep, HistoryStep, EventStep DEF HInv

(* Every reachable state satisfies all of them.                             *)
THEOREM Sound == Spec => []HInv
<1>1. Init => HInv
  BY InitInv, PlaceInit, PlanInit, ErrorInit, LatestInit, HistoryInit, EventInit
  DEF HInv
<1> QED
  BY <1>1, HistoryInductive, PTL DEF Spec

(* A scan recorded as completed lacks no engine of its plan, and an         *)
(* SBOM-only scan has its SBOM: runAndFinish and RunSBOMOnly choose that    *)
(* status only when nothing is missing, and nothing is taken away later.    *)
THEOREM CompletedScansAreComplete == Spec => []CompletedIsComplete
<1>1. HInv => CompletedIsComplete
  BY DEF HInv, PlanInv
<1> QED
  BY <1>1, Sound, PTL

(* What scan_findings holds of a completed scan is what its engines         *)
(* reported, whatever other workers' upserts do to the findings, unless a   *)
(* scan of the same project was deleted (runEngine's loop over findings).   *)
THEOREM HistoryKept == Spec => []HistoryIsWhatWasReported
<1>1. HInv => HistoryIsWhatWasReported
  BY DEF HInv, HistoryInv
<1> QED
  BY <1>1, Sound, PTL

(* The statements of beginScan and runEngine find the rows they refer to,   *)
(* unless a scan of the same project was deleted meanwhile (DeleteScan).    *)
THEOREM ErrorsNeedDeletion == Spec => []StoreErrorNeedsDeletion
<1>1. HInv => StoreErrorNeedsDeletion
  BY DEF HInv, ErrorInv
<1> QED
  BY <1>1, Sound, PTL

(* The scan findings.scan_id names, once completed, has the finding among   *)
(* its observations, though UpsertFinding and CreateScanFinding are two     *)
(* statements.                                                              *)
THEOREM LatestScanObserved == Spec => []LatestScanObservedIt
<1>1. ASSUME HInv
      PROVE  LatestScanObservedIt
  <2>1. ASSUME NEW f \in findings, scanStatus[f.scan] = "completed"
        PROVE  \E a \in scanFindings : a.scan = f.scan /\ a.finding = f.id
    <3>1. f.scan \in Scan
      BY <1>1, RowTypes DEF HInv, IInv, Finding
    <3>2. task[f.scan].err = "none" /\ task[f.scan].pc # "assoc"
      BY <1>1, <2>1, <3>1 DEF HInv, PlaceInv, RowSound
    <3> QED
      BY <1>1, <2>1, <3>2 DEF HInv, LatestInv, LatestSound
  <2> QED
    BY <2>1 DEF LatestScanObservedIt
<1>2. HInv => LatestScanObservedIt
  BY <1>1
<1> QED
  BY <1>2, Sound, PTL

(* Without faults, what the event stream was told of a scan still on record *)
(* is what its rows say: the events of runEngine follow the insert, and     *)
(* scan_completed follows the update.                                       *)
THEOREM EventsAreTrue == Spec => []EventsMatchRows
<1>1. HInv => EventsMatchRows
  BY DEF HInv, EventInv
<1> QED
  BY <1>1, Sound, PTL

----------------------------------------------------------------------------
(* The database implements the ledger *)

ViewOf(f) ==
  [project |-> f.project, hash |-> f.hash, status |-> f.status, by |-> f.scan]
View == {ViewOf(f) : f \in findings}
Pairs == {<<a.scan, a.hash>> : a \in scanFindings}

LEMMA ViewMeans ==
  /\ View = {[project |-> f.project, hash |-> f.hash,
              status |-> f.status, by |-> f.scan] : f \in findings}
  /\ Pairs = {<<a.scan, a.hash>> : a \in scanFindings}
BY DEF View, ViewOf, Pairs

LEMMA LedgerInit == Init => Ledger!Init
BY DEF Init, StoreInit, Ledger!Init

LEMMA LedgerSame ==
  ASSUME UNCHANGED <<scanStatus, findings, scanFindings>>
  PROVE  UNCHANGED Ledger!vars
BY DEF Ledger!vars

LEMMA LedgerOpens ==
  ASSUME IInv, PlaceInv, NEW s \in Scan, BeginScan(s)
  PROVE  Ledger!Next
<1>1. scanStatus[s] = "none"
  BY DEF PlaceInv, RowSound, BeginScan, At
<1>2. /\ scanStatus' = [scanStatus EXCEPT ![s] = "running"]
      /\ UNCHANGED <<findings, scanFindings>>
  BY DEF BeginScan, CreateScan
<1>3. Ledger!Open(s)
  BY <1>1, <1>2 DEF Ledger!Open
<1> QED
  BY <1>3 DEF Ledger!Next

LEMMA LedgerCloses ==
  ASSUME IInv, PlaceInv, NEW s \in Scan, Finish(s)
  PROVE  Ledger!Next \/ UNCHANGED Ledger!vars
<1>1. UNCHANGED <<findings, scanFindings>>
  BY DEF Finish, UpdateScanStatus, storeVars
<1>2. CASE Present(s) /\ scanStatus' = [scanStatus EXCEPT ![s] = Verdict(s)]
  <2>1. scanStatus[s] \in {"running", "failed"}
    BY <1>2 DEF PlaceInv, RowSound, Finish, At, Present, ScanRowStatus
  <2>2. Verdict(s) \in {"completed", "failed"}
    BY DEF Verdict
  <2>3. Ledger!Close(s, Verdict(s))
    BY <1>1, <1>2, <2>1 DEF Ledger!Close, Ledger!Reporting
  <2> QED
    BY <2>2, <2>3 DEF Ledger!Next
<1>3. CASE scanStatus' = scanStatus
  BY <1>1, <1>3, LedgerSame
<1> QED
  BY <1>2, <1>3 DEF Finish, UpdateScanStatus, storeVars

(* What is reported is in the view under its key, once.                     *)
LEMMA ViewOnce ==
  ASSUME IInv, NEW f \in findings
  PROVE  /\ \A g \in findings : ViewOf(g) = ViewOf(f) => g = f
         /\ \A g \in findings :
              g.project = f.project /\ g.hash = f.hash => g = f
<1>1. \A g \in findings : g.project = f.project /\ g.hash = f.hash => g = f
  BY DEF IInv, OneRowPerKey
<1>2. \A g \in findings :
        ViewOf(g) = ViewOf(f) => g.project = f.project /\ g.hash = f.hash
  BY DEF ViewOf
<1> QED
  BY <1>1, <1>2

LEMMA LedgerReports ==
  ASSUME IInv, IInv', PlaceInv, NEW s \in Scan, RecordFinding(s)
  PROVE  Ledger!Next
<1>0. PICK new, p, h :
        new = NextFinding(s) /\ p = ProjectOf[s] /\ h = Head(task[s].out)
  OBVIOUS
<1>1. /\ TypeOK /\ task[s] \in Task /\ task[s].pc = "upsert" /\ UpsertFinding(new)
      /\ new.project = p /\ new.hash = h /\ new.scan = s /\ new.status = "open"
  BY <1>0 DEF IInv, TypeOK, RecordFinding, At, NextFinding
<1>2. h \in Hash
  BY <1>0, <1>1, HeadAndTail DEF IInv, WorkersKnowTheirRows, Task
<1>3. scanStatus[s] \in {"running", "failed"}
  BY <1>0, <1>1
  DEF UpsertFinding, FindingKeysExist, PlaceInv, RowSound, Present, ScanRowStatus
<1>4. UNCHANGED <<scanStatus, scanFindings>>
  BY <1>1 DEF UpsertFinding
<1>5. Ledger!Of(p, h) = {ViewOf(g) : g \in SameFinding(new)}
  <2>1. Ledger!Of(p, h) = {e \in View : e.project = p /\ e.hash = h}
    BY ViewMeans DEF Ledger!Of
  <2>2. \A g : ViewOf(g).project = g.project /\ ViewOf(g).hash = g.hash
    BY DEF ViewOf
  <2> QED
    BY <1>1, <2>1, <2>2 DEF View, SameFinding
<1>6. CASE SameFinding(new) = {}
  <2>1. findings' = findings \cup {new}
    BY <1>1, <1>6 DEF UpsertFinding
  <2>2. View' = View \cup
          {[project |-> p, hash |-> h, status |-> "open", by |-> s]}
    <3>1. ViewOf(new) = [project |-> p, hash |-> h, status |-> "open", by |-> s]
      BY <1>1 DEF ViewOf
    <3> QED
      BY <2>1, <3>1 DEF View, ViewOf
  <2>3. Ledger!Report(s, h)
    BY <1>0, <1>3, <1>4, <1>5, <1>6, <2>2, ViewMeans
    DEF Ledger!Report, Ledger!Reporting, View, ViewOf
  <2> QED
    BY <1>2, <2>3 DEF Ledger!Next
<1>7. CASE SameFinding(new) # {}
  <2>1. PICK g \in SameFinding(new) : TRUE
    BY <1>7
  <2>2. g \in findings /\ g \in Finding /\ g.project = p /\ g.hash = h
    BY <1>1, <2>1, RowTypes DEF SameFinding
  <2>3. SameFinding(new) = {g}
    BY <1>1, <2>1, <2>2, ViewOnce DEF SameFinding
  <2>4. PICK m : m = Merged(g, new)
    OBVIOUS
  <2>5. findings' = (findings \ {g}) \cup {m}
    BY <1>1, <1>7, <2>3, <2>4 DEF UpsertFinding
  <2>6. PICK e : e = ViewOf(g)
    OBVIOUS
  <2>7. ViewOf(m) = [e EXCEPT !.by = s,
                     !.status = IF @ = "resolved" THEN "open" ELSE @]
    <3>1. /\ m.project = g.project /\ m.hash = g.hash /\ m.scan = s
          /\ m.status = IF g.status = "resolved" THEN "open" ELSE g.status
      BY <1>1, <2>2, <2>4 DEF Merged, Finding, Refreshed
    <3>2. e = [project |-> g.project, hash |-> g.hash,
               status |-> g.status, by |-> g.scan]
      BY <2>6 DEF ViewOf
    <3>3. ViewOf(m) = [project |-> g.project, hash |-> g.hash,
                       status |-> m.status, by |-> s]
      BY <3>1 DEF ViewOf
    <3>4. e.status = g.status
      BY <3>2
    <3>5. ASSUME NEW d
          PROVE  [e EXCEPT !.by = s, !.status = d] =
                   [project |-> g.project, hash |-> g.hash, status |-> d, by |-> s]
      <4>1. [e EXCEPT !.by = s, !.status = d] = [[e EXCEPT !.by = s] EXCEPT !.status = d]
        OBVIOUS
      <4>2. PICK v : v = [e EXCEPT !.by = s]
        OBVIOUS
      <4>3. v = [project |-> g.project, hash |-> g.hash,
                 status |-> g.status, by |-> s]
        BY <3>2, <4>2
      <4>4. [v EXCEPT !.status = d] =
              [project |-> g.project, hash |-> g.hash, status |-> d, by |-> s]
        BY <4>3
      <4> QED
        BY <4>1, <4>2, <4>4
    <3>6. ViewOf(m) = [e EXCEPT !.by = s, !.status = m.status]
      BY <3>3, <3>5
    <3>7. m.status = IF e.status = "resolved" THEN "open" ELSE e.status
      BY <3>1, <3>4
    <3> QED
      BY <3>6, <3>7, Zenon
  <2>8. View' = (View \ {e}) \cup {ViewOf(m)}
    BY <2>2, <2>5, <2>6, ViewOnce DEF View, ViewOf
  <2>9. e \in Ledger!Of(p, h)
    BY <1>5, <2>1, <2>6
  <2>10. Ledger!Report(s, h)
    BY <1>0, <1>3, <1>4, <2>7, <2>8, <2>9, ViewMeans
    DEF Ledger!Report, Ledger!Reporting, View, ViewOf
  <2> QED
    BY <1>2, <2>10 DEF Ledger!Next
<1> QED
  BY <1>6, <1>7

LEMMA LedgerObserves ==
  ASSUME IInv, PlaceInv, NEW s \in Scan, AssociateFinding(s)
  PROVE  Ledger!Next \/ UNCHANGED Ledger!vars
<1>0. PICK p, h : p = ProjectOf[s] /\ h = Head(task[s].out)
  OBVIOUS
<1>1. task[s] \in Task /\ task[s].pc = "assoc" /\ UNCHANGED <<scanStatus, findings>>
  BY DEF IInv, TypeOK, AssociateFinding, CreateScanFinding, At
<1>2. CASE scanFindings' = scanFindings
  BY <1>1, <1>2, LedgerSame
<1>3. CASE /\ scanFindings' = scanFindings \cup {NextObservation(s)}
           /\ ScanFindingKeysExist(NextObservation(s))
  <2>1. h \in Hash
    BY <1>0, <1>1, HeadAndTail DEF IInv, WorkersKnowTheirRows, Task
  <2>2. scanStatus[s] \in {"running", "failed"}
    BY <1>1, <1>3
    DEF ScanFindingKeysExist, NextObservation, PlaceInv, RowSound, Present,
        ScanRowStatus
  <2>3. PICK f \in findings : f.id = task[s].row
    BY <1>3 DEF ScanFindingKeysExist, NextObservation
  <2>4. f.project = p /\ f.hash = h
    BY <1>0, <1>1, <2>3 DEF IInv, WorkersKnowTheirRows
  <2>5. ViewOf(f) \in Ledger!Of(p, h)
    <3>1. ViewOf(f).project = p /\ ViewOf(f).hash = h
      BY <2>4 DEF ViewOf
    <3> QED
      BY <3>1, ViewMeans DEF Ledger!Of, View
  <2>6. Pairs' = Pairs \cup {<<s, h>>}
    BY <1>0, <1>3 DEF Pairs, NextObservation
  <2>7. Ledger!Observe(s, h)
    BY <1>0, <1>1, <2>2, <2>5, <2>6, ViewMeans
    DEF Ledger!Observe, Ledger!Reporting, Pairs
  <2> QED
    BY <2>1, <2>7 DEF Ledger!Next
<1> QED
  BY <1>2, <1>3, AssociateEffect

LEMMA LedgerDeletes ==
  ASSUME IInv, NEW d \in Scan, RemoveScan(d)
  PROVE  Ledger!Next
<1> DEFINE lost == {e \in View : e.by = d}
<1>1. scanStatus[d] \in {"running", "completed", "failed"}
  BY DEF RemoveScan, Present, ScanRowStatus
<1>2. View' = View \ lost
  <2>1. findings' = {f \in findings : f.scan # d}
    BY Deletion
  <2>2. \A f : ViewOf(f).by = f.scan
    BY DEF ViewOf
  <2> QED
    BY <2>1, <2>2 DEF View, ViewOf
<1>3. ASSUME NEW a \in scanFindings
      PROVE  (\A f \in findings : f.scan = d => f.id # a.finding) <=>
             \A e \in lost : ~(e.project = ProjectOf[a.scan] /\ e.hash = a.hash)
  <2>1. PICK g \in findings :
          g.id = a.finding /\ g.hash = a.hash /\ g.project = ProjectOf[a.scan]
    BY DEF IInv, RowsConsistent
  <2>2. \A f \in findings :
          f.id = a.finding <=> f.project = ProjectOf[a.scan] /\ f.hash = a.hash
    BY <2>1 DEF IInv, OneRowPerKey
  <2>3. \A f : ViewOf(f).by = f.scan /\ ViewOf(f).project = f.project
               /\ ViewOf(f).hash = f.hash
    BY DEF ViewOf
  <2> QED
    BY <2>2, <2>3 DEF View
<1>4. Pairs' = {o \in Pairs :
         /\ o[1] # d
         /\ \A e \in lost : ~(e.project = ProjectOf[o[1]] /\ e.hash = o[2])}
  <2>1. scanFindings' = {a \in scanFindings :
          a.scan # d /\ \A f \in findings : f.scan = d => f.id # a.finding}
    BY Deletion
  <2>2. PICK gone : gone = lost
    OBVIOUS
  <2>3. scanFindings' = {a \in scanFindings : a.scan # d /\
          \A e \in gone : ~(e.project = ProjectOf[a.scan] /\ e.hash = a.hash)}
    BY <1>3, <2>1, <2>2
  <2>4. Pairs' = {o \in Pairs :
         /\ o[1] # d
         /\ \A e \in gone : ~(e.project = ProjectOf[o[1]] /\ e.hash = o[2])}
    BY <2>3 DEF Pairs
  <2> QED
    BY <2>2, <2>4
<1>5. scanStatus' = [scanStatus EXCEPT ![d] = "deleted"]
  BY Deletion
<1>6. Ledger!Delete(d)
  BY <1>1, <1>2, <1>4, <1>5, ViewMeans DEF Ledger!Delete, View, ViewOf, Pairs
<1> QED
  BY <1>6 DEF Ledger!Next

LEMMA LedgerTriages ==
  ASSUME IInv, NEW f \in findings, NEW status \in FindingStatus,
         TriageFinding(f, status)
  PROVE  Ledger!Next
<1>0. PICK e, g : e = ViewOf(f) /\ g = [f EXCEPT !.status = status]
  OBVIOUS
<1>1. f \in Finding
  BY RowTypes DEF IInv
<1>2. findings' = (findings \ {f}) \cup {g}
  BY <1>0 DEF TriageFinding, UpdateFindingStatus, IInv, OneRowPerKey
<1>3. ViewOf(g) = [e EXCEPT !.status = status]
  <2>1. /\ g.project = f.project /\ g.hash = f.hash /\ g.scan = f.scan
        /\ g.status = status
    BY <1>0, <1>1 DEF Finding
  <2>2. e = [project |-> f.project, hash |-> f.hash,
             status |-> f.status, by |-> f.scan]
    BY <1>0 DEF ViewOf
  <2>3. ViewOf(g) = [project |-> f.project, hash |-> f.hash,
                     status |-> status, by |-> f.scan]
    BY <2>1 DEF ViewOf
  <2> QED
    BY <2>2, <2>3
<1>4. View' = (View \ {e}) \cup {ViewOf(g)}
  BY <1>0, <1>2, ViewOnce DEF View, ViewOf
<1>5. UNCHANGED <<scanStatus, scanFindings>>
  BY DEF TriageFinding, UpdateFindingStatus
<1>6. Ledger!Triage(e, status)
  BY <1>3, <1>4, <1>5, ViewMeans DEF Ledger!Triage, View, ViewOf
<1>7. e \in View /\ status \in {"open", "resolved", "ignored"}
  BY <1>0 DEF View, FindingStatus
<1> QED
  BY <1>6, <1>7, ViewMeans DEF Ledger!Next

LEMMA LedgerReaps ==
  ASSUME ServeStart
  PROVE  Ledger!Next \/ UNCHANGED Ledger!vars
<1>1. UNCHANGED <<findings, scanFindings>>
  BY DEF ServeStart, ReapStaleRunningScans, storeVars
<1>2. CASE scanStatus' = scanStatus
  BY <1>1, <1>2, LedgerSame
<1>3. CASE ReapStaleRunningScans(old)
  <2>1. PICK S : S = {s \in Scan : scanStatus[s] = "running" /\ s \in old}
    OBVIOUS
  <2>2. scanStatus' = [s \in Scan |-> IF s \in S THEN "failed" ELSE scanStatus[s]]
    BY <1>3, <2>1 DEF ReapStaleRunningScans
  <2>3. S \in SUBSET Scan /\ \A s \in S : scanStatus[s] = "running"
    BY <2>1
  <2>4. Ledger!Reap(S)
    BY <1>1, <2>2, <2>3 DEF Ledger!Reap
  <2> QED
    BY <2>3, <2>4 DEF Ledger!Next
<1> QED
  BY <1>2, <1>3 DEF ServeStart, storeVars

LEMMA LedgerStep ==
  ASSUME IInv, IInv', PlaceInv, [Next]_vars
  PROVE  [Ledger!Next]_Ledger!vars
<1>1. ASSUME NEW s \in Scan, RunEngine(s)
      PROVE  Ledger!Next \/ UNCHANGED Ledger!vars
  <2>1. CASE RecordFinding(s)
    BY <2>1, LedgerReports
  <2>2. CASE AssociateFinding(s)
    BY <2>2, LedgerObserves
  <2>3. CASE ~RecordFinding(s) /\ ~AssociateFinding(s)
    <3>1. UNCHANGED <<scanStatus, findings, scanFindings>>
      BY <1>1, <2>3
      DEF RunEngine, SkipEngine, EngineFails, EngineUnparsable, EngineReports,
          EngineNotRecorded, FindingNotRecorded, AssociationFails,
          CreateEngineRun, storeVars
    <3> QED
      BY <3>1, LedgerSame
  <2> QED
    BY <2>1, <2>2, <2>3
<1>2. ASSUME NEW s \in Scan, Other(s)
      PROVE  Ledger!Next \/ UNCHANGED Ledger!vars
  <2>1. CASE ~BeginScan(s) /\ ~Finish(s)
    <3>1. UNCHANGED <<scanStatus, findings, scanFindings>>
      BY <1>2, <2>1
      DEF Other, BeginProject, BeginFails, GenerateSBOM, SBOMFails, Announce,
          KillCLI, UpsertProject, CreateArtifact, storeVars
    <3> QED
      BY <3>1, LedgerSame
  <2> QED
    BY <2>1, LedgerOpens, LedgerCloses
<1>3. CASE \/ \E s \in Scan : HourPasses(s)
           \/ ServerStops \/ UNCHANGED vars
  <2>1. UNCHANGED <<scanStatus, findings, scanFindings>>
    BY <1>3 DEF HourPasses, ServerStops, vars, storeVars
  <2> QED
    BY <2>1, LedgerSame
<1>4. CASE Around
  BY <1>3, <1>4, LedgerDeletes, LedgerTriages, LedgerReaps DEF Around
<1>5. Ledger!Next \/ UNCHANGED Ledger!vars
  BY <1>1, <1>2, <1>4, Steps DEF AtEngines, Elsewhere
<1> QED
  BY <1>5

(* The tables, read as a ledger of the project's view and of what each scan *)
(* observed, change only as ScanLedger allows, whatever the workers, the    *)
(* deletions, the triage and the server's clean-up interleave: the state,   *)
(* the view and the observations of the ledger are functions of the rows.   *)
THEOREM LedgerImplemented == Spec => ImplementsLedger
<1>1. Init => Ledger!Init
  BY LedgerInit
<1>2. HInv /\ HInv' /\ [Next]_vars => [Ledger!Next]_Ledger!vars
  BY LedgerStep DEF HInv
<1> QED
  BY <1>1, <1>2, Sound, PTL DEF Spec, ImplementsLedger, Ledger!Spec

----------------------------------------------------------------------------
(* What no step may do *)

DeletedNow(d) == scanStatus[d] # "deleted" /\ scanStatus'[d] = "deleted"

(* Every observation that goes, goes with its scan or with a finding that   *)
(* the deleted scan was the last to report.                                 *)
ObservationsGoWith ==
  \A s \in Scan : \A h \in Observed(s) \ Observed(s)' :
    \E d \in Scan :
      /\ DeletedNow(d)
      /\ \/ d = s
         \/ \E f \in findings :
              f.scan = d /\ f.project = ProjectOf[s] /\ f.hash = h

(* Every finding that goes, goes with the scan that was the last to report  *)
(* it; one that stays keeps its triage status unless a request changes it,  *)
(* or a worker reports a resolved finding again.                            *)
Reopens(f, g) ==
  /\ f.status = "resolved" /\ g.status = "open"
  /\ task[g.scan].pc = "upsert" /\ Head(task[g.scan].out) = f.hash

FindingsStay ==
  \A f \in findings :
    \/ DeletedNow(f.scan)
    \/ \E g \in findings' :
         /\ g.id = f.id /\ g.project = f.project /\ g.hash = f.hash
         /\ g.status = f.status \/ Reopens(f, g) \/ TriageFinding(f, g.status)

(* A scan on record as completed stays so until it is deleted, one marked   *)
(* failed may still complete, and none comes back.                          *)
After(status) ==
  CASE status = "none"      -> {"none", "running"}
    [] status = "running"   -> {"running", "completed", "failed", "deleted"}
    [] status = "failed"    -> {"failed", "completed", "deleted"}
    [] status = "completed" -> {"completed", "deleted"}
    [] status = "deleted"   -> {"deleted"}

StatusGoesOn == \A s \in Scan : scanStatus'[s] \in After(scanStatus[s])

(* A worker only goes on: to a later stage; to a later engine; from running *)
(* an engine to storing what it reported; to fewer findings left to store;  *)
(* or from a finding to its association.                                    *)
Stage(pc) ==
  CASE pc = "idle" -> 0
    [] pc = "project" -> 1
    [] pc \in Storing \cup {"engine"} -> 2
    [] pc = "sbom" -> 3
    [] pc = "finish" -> 4
    [] pc = "announce" -> 5
    [] pc \in {"done", "refused", "dead"} -> 6

GoesOn(t, u) ==
  \/ Stage(u.pc) > Stage(t.pc)
  \/ /\ Stage(t.pc) = 2 /\ Stage(u.pc) = 2
     /\ \/ u.pos > t.pos
        \/ /\ u.pos = t.pos
           /\ \/ t.pc = "engine" /\ u.pc = "upsert"
              \/ t.pc = "upsert" /\ u.pc = "assoc" /\ u.out = t.out
              \/ t.pc = "assoc" /\ u.pc = "upsert" /\ Len(u.out) < Len(t.out)

WorkersGoOn == \A s \in Scan : task'[s] # task[s] => GoesOn(task[s], task'[s])

(* And there is an end to it: it is never past the engines of its plan.     *)
PlanBounded ==
  \A s \in Scan : Stage(task[s].pc) = 2 => task[s].pos \in 1..Job[s].engines

LEMMA Statuses ==
  ASSUME IInv
  PROVE  scanStatus \in [Scan -> {"none", "running", "completed", "failed", "deleted"}]
BY DEF IInv, TypeOK, StoreTypeOK, ScanRowStatus

LEMMA DeletedByStep ==
  ASSUME IInv, NEW d \in Scan, RemoveScan(d)
  PROVE  DeletedNow(d)
BY Deletion, Statuses DEF DeletedNow, RemoveScan, Present, ScanRowStatus

(* Nothing but the deletion of a scan takes observations away.              *)
LEMMA OnlyDeletionTakes ==
  ASSUME IInv, IInv', [Next]_vars, NEW a \in scanFindings, a \notin scanFindings'
  PROVE  \E d \in Scan : RemoveScan(d)
<1>1. ASSUME NEW x \in Scan, RunEngine(x)
      PROVE  FALSE
  <2>1. CASE AssociateFinding(x)
    BY <2>1, AssociateEffect
  <2>2. CASE ~AssociateFinding(x)
    BY <1>1, <2>2
    DEF RunEngine, SkipEngine, EngineFails, EngineUnparsable, EngineReports,
        EngineNotRecorded, RecordFinding, FindingNotRecorded,
        AssociationFails, CreateEngineRun, UpsertFinding, storeVars
  <2> QED
    BY <2>1, <2>2
<1>2. ASSUME NEW x \in Scan, Other(x)
      PROVE  FALSE
  BY <1>2, OtherEffect DEF IInv
<1>3. ASSUME Around, ~\E x \in Scan : RemoveScan(x)
      PROVE  FALSE
  BY <1>3 DEF Around, HourPasses, TriageFinding, UpdateFindingStatus,
                    ServerStops, ServeStart, ReapStaleRunningScans, vars, storeVars
<1> QED
  BY <1>1, <1>2, <1>3, Steps DEF AtEngines, Elsewhere

LEMMA ObservationsStep ==
  ASSUME IInv, IInv', [Next]_vars
  PROVE  ObservationsGoWith
<1> SUFFICES ASSUME NEW s \in Scan, NEW h \in Observed(s) \ Observed(s)'
             PROVE  \E d \in Scan :
                      /\ DeletedNow(d)
                      /\ \/ d = s
                         \/ \E f \in findings :
                              f.scan = d /\ f.project = ProjectOf[s] /\ f.hash = h
  BY DEF ObservationsGoWith
<1>1. PICK a \in scanFindings : a.scan = s /\ a.hash = h /\ a \notin scanFindings'
  BY DEF Observed
<1>2. PICK d \in Scan : RemoveScan(d)
  BY <1>1, OnlyDeletionTakes
<1>3. CASE d = s
  BY <1>2, <1>3, DeletedByStep
<1>4. CASE d # s
  <2>1. PICK f \in findings : f.scan = d /\ f.id = a.finding
    BY <1>1, <1>2, <1>4, Deletion
  <2>2. PICK g \in findings :
          g.id = a.finding /\ g.hash = h /\ g.project = ProjectOf[s]
    BY <1>1 DEF IInv, RowsConsistent
  <2>3. f = g
    BY <2>1, <2>2 DEF IInv, OneRowPerKey
  <2> QED
    BY <1>2, <2>1, <2>2, <2>3, DeletedByStep
<1> QED
  BY <1>3, <1>4

(* What a worker's upsert leaves of a finding, and what triage does.        *)
LEMMA ReportedStays ==
  ASSUME IInv, NEW s \in Scan, RecordFinding(s), NEW f \in findings
  PROVE  \E g \in findings' :
           /\ g.id = f.id /\ g.project = f.project /\ g.hash = f.hash
           /\ g.status = f.status \/ Reopens(f, g)
<1>0. PICK new : new = NextFinding(s)
  OBVIOUS
<1>1. /\ task[s].pc = "upsert" /\ UpsertFinding(new) /\ f \in Finding
      /\ new.hash = Head(task[s].out) /\ new.scan = s
  BY <1>0, RowTypes DEF IInv, RecordFinding, At, NextFinding
<1>2. CASE f \notin SameFinding(new)
  BY <1>1, <1>2 DEF UpsertFinding
<1>3. CASE f \in SameFinding(new)
  <2>1. PICK g : g = Merged(f, new)
    OBVIOUS
  <2>2. g \in findings'
    BY <1>1, <1>3, <2>1 DEF UpsertFinding
  <2>3. /\ g.id = f.id /\ g.project = f.project /\ g.hash = f.hash /\ g.scan = s
        /\ g.status = IF f.status = "resolved" THEN "open" ELSE f.status
    BY <1>1, <2>1 DEF Merged, Finding, Refreshed
  <2>4. f.hash = Head(task[s].out)
    BY <1>1, <1>3 DEF SameFinding
  <2> QED
    BY <1>1, <2>2, <2>3, <2>4 DEF Reopens
<1> QED
  BY <1>2, <1>3

LEMMA TriagedStays ==
  ASSUME IInv, NEW t \in findings, NEW status \in FindingStatus,
         TriageFinding(t, status), NEW f \in findings
  PROVE  \E g \in findings' :
           /\ g.id = f.id /\ g.project = f.project /\ g.hash = f.hash
           /\ g.status = f.status \/ TriageFinding(f, g.status)
<1>1. PICK g : g = IF f.id = t.id THEN [f EXCEPT !.status = status] ELSE f
  OBVIOUS
<1>2. g \in findings'
  BY <1>1 DEF TriageFinding, UpdateFindingStatus
<1>3. f \in Finding
  BY RowTypes DEF IInv
<1>4. g.id = f.id /\ g.project = f.project /\ g.hash = f.hash
  BY <1>1, <1>3 DEF Finding
<1>5. CASE f.id # t.id
  BY <1>1, <1>2, <1>4, <1>5
<1>6. CASE f.id = t.id
  <2>1. f = t
    BY <1>6 DEF IInv, OneRowPerKey
  <2>2. g.status = status
    BY <1>1, <1>3, <1>6 DEF Finding
  <2> QED
    BY <1>2, <1>4, <2>1, <2>2
<1> QED
  BY <1>5, <1>6

LEMMA FindingsStep ==
  ASSUME IInv, IInv', [Next]_vars
  PROVE  FindingsStay
<1> SUFFICES ASSUME NEW f \in findings, ~DeletedNow(f.scan)
             PROVE  \E g \in findings' :
                      /\ g.id = f.id /\ g.project = f.project /\ g.hash = f.hash
                      /\ g.status = f.status \/ Reopens(f, g)
                         \/ TriageFinding(f, g.status)
  BY DEF FindingsStay
<1>1. ASSUME f \in findings'
      PROVE  \E g \in findings' :
               /\ g.id = f.id /\ g.project = f.project /\ g.hash = f.hash
               /\ g.status = f.status
  BY <1>1
<1>2. ASSUME NEW x \in Scan, RunEngine(x), ~RecordFinding(x)
      PROVE  f \in findings'
  BY <1>2
  DEF RunEngine, SkipEngine, EngineFails, EngineUnparsable, EngineReports,
      EngineNotRecorded, FindingNotRecorded, AssociateFinding,
      AssociationFails, CreateEngineRun, CreateScanFinding, storeVars
<1>3. ASSUME NEW x \in Scan, Other(x)
      PROVE  f \in findings'
  BY <1>3, OtherEffect DEF IInv
<1>4. ASSUME NEW d \in Scan, RemoveScan(d)
      PROVE  f \in findings'
  BY <1>4, Deletion, DeletedByStep
<1>5. ASSUME \/ \E x \in Scan : HourPasses(x)
             \/ ServerStops \/ ServeStart \/ UNCHANGED vars
      PROVE  f \in findings'
  BY <1>5 DEF HourPasses, ServerStops, ServeStart, ReapStaleRunningScans,
              vars, storeVars
<1>6. CASE AtEngines
  BY <1>1, <1>2, <1>6, ReportedStays DEF AtEngines
<1>7. CASE Elsewhere
  BY <1>1, <1>3, <1>7 DEF Elsewhere
<1>8. CASE Around
  BY <1>1, <1>4, <1>5, <1>8, TriagedStays DEF Around
<1> QED
  BY <1>6, <1>7, <1>8, Steps

LEMMA StatusStep ==
  ASSUME IInv, IInv', PlaceInv, [Next]_vars
  PROVE  StatusGoesOn
<1> SUFFICES ASSUME NEW s \in Scan
             PROVE  scanStatus'[s] \in After(scanStatus[s])
  BY DEF StatusGoesOn
<1>0. scanStatus[s] \in {"none", "running", "completed", "failed", "deleted"}
  BY Statuses
<1>1. ASSUME scanStatus'[s] = scanStatus[s]
      PROVE  scanStatus'[s] \in After(scanStatus[s])
  BY <1>0, <1>1 DEF After
<1>2. CASE AtEngines
  BY <1>1, <1>2, EngineEffect DEF AtEngines
<1>3. CASE Around
  <2>1. \/ scanStatus'[s] = scanStatus[s]
        \/ scanStatus'[s] = "deleted" /\ Present(s)
        \/ scanStatus'[s] = "failed" /\ scanStatus[s] = "running"
    BY <1>3, AroundEffect DEF IInv
  <2> QED
    BY <1>1, <2>1 DEF Present, ScanRowStatus, After
<1>4. ASSUME NEW x \in Scan, Other(x)
      PROVE  scanStatus'[s] \in After(scanStatus[s])
  <2>1. CASE x # s \/ (~BeginScan(x) /\ ~Finish(x))
    <3>1. scanStatus'[s] = scanStatus[s]
      BY <1>4, <2>1, Statuses
      DEF Other, BeginProject, BeginFails, GenerateSBOM, SBOMFails, Announce,
          BeginScan, CreateScan, Finish, UpdateScanStatus,
          KillCLI, UpsertProject, CreateArtifact, storeVars
    <3> QED
      BY <1>1, <3>1
  <2>2. CASE x = s /\ BeginScan(x)
    <3>1. scanStatus[s] = "none" /\ scanStatus'[s] = "running"
      BY <2>2, Statuses DEF BeginScan, CreateScan, At, PlaceInv, RowSound
    <3> QED
      BY <3>1 DEF After
  <2>3. CASE x = s /\ Finish(x)
    <3>1. \/ scanStatus'[s] = scanStatus[s]
          \/ Present(s) /\ scanStatus'[s] = Verdict(s)
      BY <2>3, Statuses DEF Finish, UpdateScanStatus, storeVars
    <3>2. Verdict(s) \in {"completed", "failed"}
      BY DEF Verdict
    <3>3. scanStatus[s] # "completed"
      BY <2>3 DEF Finish, At, PlaceInv, RowSound
    <3>4. CASE Present(s) /\ scanStatus'[s] = Verdict(s)
      <4>1. scanStatus[s] \in {"running", "failed"}
        BY <3>3, <3>4 DEF Present, ScanRowStatus
      <4> QED
        BY <3>2, <3>4, <4>1 DEF After
    <3> QED
      BY <1>1, <3>1, <3>4
  <2> QED
    BY <1>4, <2>1, <2>2, <2>3
<1> QED
  BY <1>2, <1>3, <1>4, Steps DEF Elsewhere

LEMMA Stages ==
  ASSUME NEW pc \in PC
  PROVE  /\ Stage(pc) \in 0..6
         /\ Stage(pc) = 2 <=> pc \in Storing \cup {"engine"}
         /\ pc \in {"sbom", "finish"} => Stage(pc) > 2
         /\ pc \in {"idle", "project"} => Stage(pc) < 2
         /\ pc \in Live <=> Stage(pc) \in 1..5
         /\ pc \in {"done", "refused", "dead"} <=> Stage(pc) = 6
BY DEF Stage, PC, Live, Storing

(* Past an engine: the next one, or a later stage.                          *)
LEMMA OnwardGoesOn ==
  ASSUME NEW s \in Scan, NEW t \in Task, NEW u,
         t.pc \in Storing \cup {"engine"}, Onward(s, t, u)
  PROVE  GoesOn(t, u)
<1>1. t.pos \in Nat /\ Stage(t.pc) = 2
  BY Stages DEF Task
<1>2. CASE u.pc = AfterEngines(s)
  <2>1. Stage(u.pc) > 2
    BY <1>2, Stages DEF AfterEngines, PC
  <2> QED
    BY <1>1, <2>1 DEF GoesOn
<1>3. CASE u.pc = "engine" /\ u.pos = t.pos + 1
  <2>1. Stage(u.pc) = 2
    BY <1>3 DEF Stage, Storing
  <2> QED
    BY <1>1, <1>3, <2>1 DEF GoesOn
<1> QED
  BY <1>2, <1>3 DEF Onward

LEMMA EngineGoesOn ==
  ASSUME IInv, IInv', NEW s \in Scan, RunEngine(s)
  PROVE  GoesOn(task[s], task'[s])
<1> DEFINE t == task[s]
           u == task'[s]
<1>0. /\ TypeOK /\ t \in Task /\ u \in Task
      /\ t.pc \in Storing \cup {"engine"}
  BY EngineEffect DEF IInv, TypeOK
<1>1. ASSUME Onward(s, t, u)
      PROVE  GoesOn(t, u)
  BY <1>0, <1>1, OnwardGoesOn
<1>2. ASSUME t.pc \in Storing \cup {"engine"}, u.pc \in Storing, u.pos = t.pos,
             \/ t.pc = "engine" /\ u.pc = "upsert"
             \/ t.pc = "upsert" /\ u.pc = "assoc" /\ u.out = t.out
             \/ t.pc = "assoc" /\ u.pc = "upsert" /\ Len(u.out) < Len(t.out)
      PROVE  GoesOn(t, u)
  <2>1. Stage(t.pc) = 2 /\ Stage(u.pc) = 2
    BY <1>2 DEF Stage, Storing
  <2> QED
    BY <1>2, <2>1 DEF GoesOn
<1>3. CASE SkipEngine(s)
  BY <1>0, <1>1, <1>3, SkipEffect
<1>4. CASE EngineFails(s) \/ EngineUnparsable(s)
  BY <1>0, <1>1, <1>4, ErrorEffect DEF EngineFails, EngineUnparsable
<1>5. CASE EngineNotRecorded(s) \/ FindingNotRecorded(s) \/ AssociationFails(s)
  BY <1>0, <1>1, <1>5, ErrorEffect
  DEF EngineNotRecorded, FindingNotRecorded, AssociationFails
<1>6. ASSUME NEW report \in Reports, EngineReports(s, report)
      PROVE  GoesOn(t, u)
  BY <1>0, <1>1, <1>2, <1>6, ReportEffect DEF Storing
<1>7. CASE RecordFinding(s)
  BY <1>0, <1>2, <1>7, RecordEffect DEF Storing
<1>8. CASE AssociateFinding(s)
  <2>1. t.pc = "assoc"
    BY <1>8 DEF AssociateFinding, At
  <2>2. t.out \in Seq(Hash) /\ t.out # <<>>
    BY <1>0, <2>1 DEF Task, IInv, WorkersKnowTheirRows
  <2>3. Len(Tail(t.out)) < Len(t.out)
    BY <2>2, HeadAndTail
  <2> QED
    BY <1>0, <1>1, <1>2, <1>8, <2>1, <2>3, AssociateEffect DEF Storing
<1> QED
  BY <1>3, <1>4, <1>5, <1>6, <1>7, <1>8 DEF RunEngine

LEMMA WorkersStep ==
  ASSUME IInv, IInv', [Next]_vars
  PROVE  WorkersGoOn
<1> SUFFICES ASSUME NEW s \in Scan, task'[s] # task[s]
             PROVE  GoesOn(task[s], task'[s])
  BY DEF WorkersGoOn
<1>1. CASE RunEngine(s)
  BY <1>1, EngineGoesOn
<1>2. CASE Other(s)
  <2>1. \/ /\ task[s].pc \in {"idle", "project"}
           /\ task'[s].pc \in {"project", "refused", "engine", "sbom", "finish"}
           /\ task[s].pc = "project" => task'[s].pc # "project"
        \/ task[s].pc = "sbom" /\ task'[s].pc = "finish"
        \/ task[s].pc = "finish" /\ task'[s].pc = "announce"
        \/ task[s].pc = "announce" /\ task'[s].pc = "done"
        \/ task[s].pc \in Live /\ task'[s].pc = "dead"
    <3>1. BeginProject(s) => task[s].pc # "project"
      BY DEF BeginProject, MayBegin, At
    <3>2. ASSUME task[s].pc = "project"
          PROVE  task'[s].pc # "project"
      <4>1. CASE BeginScan(s)
        <5>1. PICK pc : /\ pc = IF Job[s].kind = "sbom" THEN "sbom"
                               ELSE IF Job[s].engines = 0 THEN AfterEngines(s)
                               ELSE "engine"
                        /\ Goto(s, [task[s] EXCEPT !.pc = pc])
          BY <4>1 DEF BeginScan
        <5>2. pc # "project"
          BY <5>1 DEF AfterEngines
        <5> QED
          BY <5>1, <5>2, PlainEffect DEF IInv
      <4>2. CASE BeginFails(s) \/ KillCLI(s)
        BY <4>2, PlainEffect DEF BeginFails, KillCLI, IInv
      <4> QED
        BY <1>2, <3>1, <3>2, <4>1, <4>2
        DEF Other, GenerateSBOM, SBOMFails, Finish, Announce, At
    <3> QED
      BY <1>2, <3>2, OtherEffect DEF IInv
  <2> QED
    BY <2>1 DEF GoesOn, Stage, Storing, Live, PC
<1>3. CASE task[s].pc \in Live /\ task'[s].pc = "dead"
  BY <1>3 DEF GoesOn, Stage, Storing, Live, PC
<1> QED
  BY <1>1, <1>2, <1>3, Movers

LEMMA PlanIsBounded ==
  ASSUME IInv, PlaceInv
  PROVE  PlanBounded
<1> SUFFICES ASSUME NEW s \in Scan, Stage(task[s].pc) = 2
             PROVE  task[s].pos \in 1..Job[s].engines
  BY DEF PlanBounded
<1>1. task[s] \in Task /\ Job[s].engines \in Nat
  BY JobAssumption DEF IInv, TypeOK, JobType
<1>2. task[s].pc \in Storing \cup {"engine"}
  BY <1>1, Stages DEF Task
<1> QED
  BY <1>1, <1>2 DEF PlaceInv, PlaceSound, Task

(* DeleteScan spares whatever the deleted scan was not the last to report:  *)
(* no other step, and no deletion of another scan, takes an observation     *)
(* from a scan that stays.  It is what remains true of the comment that     *)
(* DeletionSparesOtherScans refutes.                                        *)
THEOREM ObservationsOutlast == Spec => [][ObservationsGoWith]_vars
<1>1. HInv /\ HInv' /\ [Next]_vars => [ObservationsGoWith]_vars
  BY ObservationsStep DEF HInv
<1> QED
  BY <1>1, Sound, PTL DEF Spec

(* UpsertFinding and UpdateFindingStatus: a finding keeps its row as long   *)
(* as the scan that reported it last is on record, and what the user        *)
(* decided of it as long as no scan reports a resolved one again.           *)
THEOREM FindingsOutlast == Spec => [][FindingsStay]_vars
<1>1. HInv /\ HInv' /\ [Next]_vars => [FindingsStay]_vars
  BY FindingsStep DEF HInv
<1> QED
  BY <1>1, Sound, PTL DEF Spec

(* UpdateScanStatus does not look at the status it overwrites, and the      *)
(* clean-up marks scans failed whose workers may be at work: still a        *)
(* completed scan stays completed and a deleted one deleted.                *)
THEOREM StatusesGoOn == Spec => [][StatusGoesOn]_vars
<1>1. HInv /\ HInv' /\ [Next]_vars => [StatusGoesOn]_vars
  BY StatusStep DEF HInv
<1> QED
  BY <1>1, Sound, PTL DEF Spec

(* The loops of runAndFinish and runEngine come to an end: every step of a  *)
(* worker lowers a measure in a well-founded order, whatever is deleted or  *)
(* fails under it.  This is the part of WorkerEnds that is not about        *)
(* fairness.                                                                *)
THEOREM WorkersComeToAnEnd == Spec => [][WorkersGoOn]_vars /\ []PlanBounded
<1>1. HInv /\ HInv' /\ [Next]_vars => [WorkersGoOn]_vars
  BY WorkersStep DEF HInv
<1>2. HInv => PlanBounded
  BY PlanIsBounded DEF HInv
<1> QED
  BY <1>1, <1>2, Sound, PTL DEF Spec
=============================================================================
