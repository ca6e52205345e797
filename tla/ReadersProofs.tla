--------------------------- MODULE ReadersProofs ---------------------------
(***************************************************************************)
(* What a page says of scans that it shows as completed, for every set of  *)
(* scans, jobs and requests, whatever workers, deletions and triage do     *)
(* between its statements.                                                 *)
(*                                                                         *)
(* The argument has three parts.  A scan on record as completed, of a      *)
(* project that lost none, is settled: neither its status nor what its     *)
(* engines reported changes any more (Settled).  A query about settled     *)
(* scans computes, from the rows, what it should of the reports, though    *)
(* other workers move the rows (the lemmas on the queries, from HInv of    *)
(* ScanHistoryProofs).  And a page that has gone past a stage holds what   *)
(* the query of that stage computed (PageInv), which stays true because    *)
(* the scans it is about are settled.                                      *)
(***************************************************************************)
EXTENDS Readers, ScanHistoryProofs, FiniteSetTheorems

----------------------------------------------------------------------------
(* The rows, beyond HInv *)

(* Runs are of the plan; a skipped engine has one unless a statement failed *)
(* by a fault; reports and tables are finite.                               *)
RowInv ==
  /\ \A r \in engineRuns : r.run[2] \in 1..Job[r.run[1]].engines
  /\ faults = 0 => \A s \in Scan : Present(s) =>
       \A i \in task[s].skipped : \E r \in engineRuns : r.run = <<s, i>>
  /\ \A s \in Scan : IsFiniteSet(task[s].reported)
  /\ IsFiniteSet({s \in Scan : scanStatus[s] # "none"})

Settled(s) == scanStatus[s] = "completed" /\ ~ProjectLostAScan(s)
Reported(s) == task[s].reported

----------------------------------------------------------------------------
(* The page *)

StagesOf(kind) ==
  CASE kind = "detail" -> {"from", "runs"}
    [] kind = "report" -> {"from", "runs", "observed"}
    [] kind = "diff"   -> {"from", "to", "added", "removed", "common"}
    [] OTHER           -> {"project", "scans", "total", "new", "gone"}

Listed == [scan : Scan, status : ScanRowStatus]
Point  == [scan : Scan, status : ScanRowStatus,
           total : Nat, added : Nat, resolved : Nat]

InProject(s, x) == x \in Scan /\ ProjectOf[x] = ProjectOf[s]

(* A page is at a stage of its kind, and what trends has listed and counted *)
(* is of one project.                                                       *)
PageShape(q) ==
  /\ DOMAIN q = DOMAIN NewPage
  /\ q.at # "idle" =>
       /\ q.kind \in {"detail", "report", "diff", "trends"}
       /\ q.at \in StagesOf(q.kind) \cup Ended
       /\ q.from \in Scan /\ q.to \in Scan
  /\ q.at = "idle" => q.left = <<>> /\ q.points = <<>>
  /\ q.status \in Seq(ScanRowStatus)
  /\ q.left \in Seq(Listed) /\ q.points \in Seq(Point)
  /\ \A i \in DOMAIN q.left : InProject(q.from, q.left[i].scan)
  /\ \A i \in DOMAIN q.points : InProject(q.from, q.points[i].scan)
  /\ q.at \in {"total", "new", "gone"} => q.left # <<>>
  /\ q.at \in {"new", "gone"} =>
       Len(q.points) >= 2 /\ q.points[Len(q.points)].scan = Head(q.left).scan

(* What a page that says completed must hold, by how far it is.             *)
Tells(q, stages) ==
  /\ q.at \in stages /\ ~ProjectLostAScan(q.from)
  /\ \A i \in DOMAIN q.status : q.status[i] = "completed"

RunsShown(q) == {r.run : r \in q.runs}
PlanOf(s) == {<<s, i>> : i \in 1..Job[s].engines}

WholeSound(q) ==
  q.kind \in {"detail", "report"} /\ Tells(q, {"runs", "observed", "answered"}) =>
    /\ scanStatus[q.from] = "completed"
    /\ q.at # "runs" /\ ~q.guessed /\ faults = 0 => RunsShown(q) = PlanOf(q.from)
    /\ q.kind = "report" /\ q.at = "answered" => q.seen = Reported(q.from)

DiffSound(q) ==
  q.kind = "diff" /\ Tells(q, {"to", "added", "removed", "common", "answered"}) =>
    LET before == Reported(q.from)
        after  == Reported(q.to)
    IN  /\ scanStatus[q.from] = "completed"
        /\ q.at # "to" => scanStatus[q.to] = "completed" /\ InProject(q.from, q.to)
        /\ q.at \in {"removed", "common", "answered"} => q.added = after \ before
        /\ q.at \in {"common", "answered"} => q.removed = before \ after
        /\ q.at = "answered" => q.common = Cardinality(before \cap after)

(* A diff of completed scans whose project lost none when it found them     *)
(* so.  Until one of the two is deleted, a finding that both reported is    *)
(* observed by both or by neither.                                          *)
Comparing(q) ==
  /\ q.kind = "diff" /\ q.at \in {"added", "removed", "common", "answered"}
  /\ q.intact /\ \A i \in DOMAIN q.status : q.status[i] = "completed"

Alike(s, u) ==
  \A h \in Reported(s) \cap Reported(u) : h \in Observed(s) <=> h \in Observed(u)

SparedSound(q) ==
  Comparing(q) =>
    LET before == Reported(q.from)
        after  == Reported(q.to)
    IN  /\ scanStatus[q.from] \in {"completed", "deleted"}
        /\ scanStatus[q.to] \in {"completed", "deleted"}
        /\ InProject(q.from, q.to)
        /\ Present(q.from) /\ Present(q.to) =>
             /\ Alike(q.from, q.to)
             /\ q.at \in {"removed", "common", "answered"} =>
                  q.added \subseteq after \ before
             /\ q.at \in {"common", "answered"} =>
                  q.removed \subseteq before \ after
             /\ q.at = "answered" => q.common <= Cardinality(before \cap after)

(* The i-th point says what the i-th scan reported, and how that came from  *)
(* what the one before it did.                                              *)
PointSound(q, i) ==
  LET pt == q.points[i]
      last == Len(q.points)
      now == Reported(pt.scan)
      before == Reported(q.points[i - 1].scan)
  IN  /\ pt.total = Cardinality(now)
      /\ i = last /\ q.at = "gone" => pt.added = Cardinality(now \ before)
      /\ ~(i = last /\ q.at \in {"new", "gone"}) =>
           pt.total + pt.resolved =
             pt.added + (IF i = 1 THEN 0 ELSE q.points[i - 1].total)

AllCompleted(points) ==
  \A i \in DOMAIN points : points[i].status = "completed"

TrendSound(q) ==
  q.at # "idle" /\ ~q.guessed /\ ~ProjectLostAScan(q.from) =>
    /\ \A i \in DOMAIN q.left :
         q.left[i].status = "completed" => scanStatus[q.left[i].scan] = "completed"
    /\ AllCompleted(q.points) =>
         \A i \in DOMAIN q.points :
           scanStatus[q.points[i].scan] = "completed" /\ PointSound(q, i)

PageSound(q) ==
  /\ PageShape(q) /\ WholeSound(q) /\ DiffSound(q) /\ SparedSound(q)
  /\ TrendSound(q)

PageInv == HInv /\ RowInv /\ PageSound(page)

----------------------------------------------------------------------------
(* Runs are of the plan, skips are on record, everything is finite *)

LEMMA ReportFinite ==
  ASSUME NEW report \in Seq(Hash)
  PROVE  IsFiniteSet({report[i] : i \in DOMAIN report})
<1> DEFINE S == {report[i] : i \in DOMAIN report}
<1>1. /\ DOMAIN report = 1..Len(report) /\ Len(report) \in Nat
      /\ IsFiniteSet(DOMAIN report)
  <2>1. DOMAIN report = 1..Len(report) /\ Len(report) \in Nat
    OBVIOUS
  <2> QED
    BY <2>1, FS_Interval
<1>2. [i \in DOMAIN report |-> report[i]] \in Surjection(DOMAIN report, S)
  BY DEF Surjection
<1> QED
  BY <1>1, <1>2, FS_Surjection

LEMMA RowInit == Init => RowInv
<1> SUFFICES ASSUME Init PROVE RowInv
  OBVIOUS
<1>1. \A s \in Scan : task[s].skipped = {} /\ task[s].reported = {}
  BY DEF Init, NewTask
<1>2. {s \in Scan : scanStatus[s] # "none"} = {}
  BY DEF Init, StoreInit
<1> QED
  BY <1>1, <1>2, FS_EmptySet DEF Init, StoreInit, RowInv

LEMMA RunCreated ==
  ASSUME NEW run, NEW v, CreateEngineRun(run, v)
  PROVE  /\ \A r \in engineRuns' : r \in engineRuns \/ r.run = run
         /\ \E r \in engineRuns' : r.run = run
<1> DEFINE new == [run |-> run, status |-> v]
<1>1. engineRuns' = engineRuns \cup {new} /\ new.run = run
  BY DEF CreateEngineRun
<1> QED
  BY <1>1

LEMMA PlannedRuns ==
  ASSUME HInv, RowInv, [Next]_vars, NEW r \in engineRuns'
  PROVE  r.run[2] \in 1..Job[r.run[1]].engines
<1>1. CASE r \in engineRuns
  BY <1>1 DEF RowInv
<1>2. CASE r \notin engineRuns
  <2>1. PICK s \in Scan : RunEngine(s)
    <3>1. ~Around
      <4>1. ASSUME NEW s \in Scan, RemoveScan(s) PROVE engineRuns' \subseteq engineRuns
        BY <4>1 DEF RemoveScan, DeleteScan
      <4> QED
        BY <1>2, <4>1
        DEF Around, HourPasses, TriageFinding, UpdateFindingStatus, ServerStops,
            ServeStart, ReapStaleRunningScans, vars, storeVars
    <3>2. ~Elsewhere
      BY <1>2
      DEF Elsewhere, Other, BeginProject, BeginFails, BeginScan, GenerateSBOM,
          SBOMFails, Finish, Announce, KillCLI, UpsertProject, CreateScan,
          CreateArtifact, UpdateScanStatus, storeVars
    <3> QED
      BY <3>1, <3>2, Steps DEF AtEngines
  <2>2. r.run = Run(s) /\ task[s].pc = "engine"
    <3>1. /\ task[s].pc = "engine"
          /\ \E v : CreateEngineRun(Run(s), v)
      BY <1>2, <2>1
      DEF RunEngine, SkipEngine, EngineFails, EngineUnparsable, EngineReports,
          EngineNotRecorded, RecordFinding, FindingNotRecorded, AssociateFinding,
          AssociationFails, UpsertFinding, CreateScanFinding, storeVars, At
    <3> QED
      BY <1>2, <3>1, RunCreated
  <2>3. /\ task[s].pos \in Nat /\ task[s].pos >= 1
        /\ task[s].pos <= Job[s].engines /\ Job[s].engines \in Nat
    BY <2>2, JobAssumption
    DEF HInv, IInv, TypeOK, Task, JobType, PlaceInv, PlaceSound
  <2> QED
    BY <2>2, <2>3 DEF Run
<1> QED
  BY <1>1, <1>2

LEMMA SkipsStay ==
  ASSUME HInv, HInv', RowInv, [Next]_vars, faults' = 0,
         NEW s \in Scan, Present(s)', NEW i \in task'[s].skipped
  PROVE  \E r \in engineRuns' : r.run = <<s, i>>
<1>0. TypeOK /\ IInv /\ IInv' /\ PlaceInv /\ RunsKept /\ faults = 0 /\ ~Fault
  BY RunsStay, FaultsCount DEF HInv, IInv
<1>1. CASE i \in task[s].skipped
  <2>1. task[s].pc # "project"
    BY <1>0, <1>1 DEF PlaceInv, PlaceSound
  <2>2. PICK r \in engineRuns : r.run = <<s, i>>
    BY <1>0, <1>1, <2>1 DEF RunsKept, RowInv
  <2> QED
    BY <1>0, <2>2 DEF RunsKept
<1>2. CASE i \notin task[s].skipped
  <2>1. SkipEngine(s)
    <3>1. task'[s].skipped # task[s].skipped
      BY <1>2
    <3>2. RunEngine(s)
      BY <1>0, <3>1, Movers, OtherEffect DEF SameNotes
    <3>3. ~(EngineFails(s) \/ EngineUnparsable(s) \/ EngineNotRecorded(s)
            \/ FindingNotRecorded(s) \/ AssociationFails(s))
      BY <1>0, <3>1, ErrorEffect
      DEF EngineFails, EngineUnparsable, EngineNotRecorded, FindingNotRecorded,
          AssociationFails
    <3>4. \A report \in Reports : ~EngineReports(s, report)
      BY <1>0, <3>1, ReportEffect
    <3>5. ~RecordFinding(s) /\ ~AssociateFinding(s)
      BY <1>0, <3>1, RecordEffect, AssociateEffect DEF SameNotes
    <3> QED
      BY <3>2, <3>3, <3>4, <3>5 DEF RunEngine
  <2>2. i = task[s].pos
    BY <1>0, <1>2, <2>1, SkipEffect
  <2>3. Present(s)
    BY <1>0, <2>1 DEF RunsKept, SkipEngine, At
  <2>4. CreateEngineRun(Run(s), "skipped")
    BY <1>0, <2>1, <2>3 DEF SkipEngine
  <2> QED
    BY <2>2, <2>4, RunCreated DEF Run
<1> QED
  BY <1>1, <1>2

LEMMA ReportedGrows ==
  ASSUME HInv, HInv', [Next]_vars, NEW s \in Scan
  PROVE  \/ task'[s].reported = task[s].reported
         \/ \E report \in Reports :
              /\ EngineReports(s, report)
              /\ task'[s].reported =
                   task[s].reported \cup {report[i] : i \in DOMAIN report}
<1>0. TypeOK /\ IInv /\ IInv'
  BY DEF HInv, IInv
<1>1. SUFFICES ASSUME RunEngine(s)
               PROVE  \/ task'[s].reported = task[s].reported
                      \/ \E report \in Reports :
                           /\ EngineReports(s, report)
                           /\ task'[s].reported =
                                task[s].reported \cup {report[i] : i \in DOMAIN report}
  BY <1>0, Movers, OtherEffect DEF SameNotes
<1>2. CASE SkipEngine(s)
  BY <1>0, <1>2, SkipEffect
<1>3. CASE EngineFails(s) \/ EngineUnparsable(s) \/ EngineNotRecorded(s)
           \/ FindingNotRecorded(s) \/ AssociationFails(s)
  BY <1>0, <1>3, ErrorEffect
  DEF EngineFails, EngineUnparsable, EngineNotRecorded, FindingNotRecorded,
      AssociationFails
<1>4. ASSUME NEW report \in Reports, EngineReports(s, report)
      PROVE  \/ task'[s].reported = task[s].reported
             \/ task'[s].reported =
                  task[s].reported \cup {report[i] : i \in DOMAIN report}
  BY <1>0, <1>4, ReportEffect
<1>5. CASE RecordFinding(s) \/ AssociateFinding(s)
  BY <1>0, <1>5, RecordEffect, AssociateEffect DEF SameNotes
<1> QED
  BY <1>1, <1>2, <1>3, <1>4, <1>5 DEF RunEngine

LEMMA FewScans ==
  ASSUME HInv, RowInv, [Next]_vars
  PROVE  IsFiniteSet({s \in Scan : scanStatus'[s] # "none"})
<1> DEFINE Known == {s \in Scan : scanStatus[s] # "none"}
           KnownLater == {s \in Scan : scanStatus'[s] # "none"}
<1>0. /\ TypeOK /\ IsFiniteSet(Known)
      /\ scanStatus \in [Scan -> ScanRowStatus \cup {"none", "deleted"}]
  BY DEF HInv, IInv, TypeOK, StoreTypeOK, RowInv
<1>1. \E x : KnownLater \subseteq Known \cup {x}
  <2>1. CASE \E x \in Scan : BeginScan(x)
    BY <1>0, <2>1 DEF BeginScan, CreateScan
  <2>2. CASE ~\E x \in Scan : BeginScan(x)
    <3>1. CASE AtEngines \/ Around
      BY <1>0, <3>1, AroundEffect
      DEF AtEngines, RunEngine, SkipEngine, EngineFails, EngineUnparsable,
          EngineReports, EngineNotRecorded, RecordFinding, FindingNotRecorded,
          AssociateFinding, AssociationFails, CreateEngineRun, UpsertFinding,
          CreateScanFinding, storeVars, Present, ScanRowStatus
    <3>2. CASE Elsewhere
      BY <1>0, <2>2, <3>2
      DEF Elsewhere, Other, BeginProject, BeginFails, GenerateSBOM, SBOMFails,
          Finish, Announce, KillCLI, UpsertProject, CreateArtifact,
          UpdateScanStatus, storeVars, Present, ScanRowStatus
    <3> QED
      BY <3>1, <3>2, Steps
  <2> QED
    BY <2>1, <2>2
<1>2. PICK x : KnownLater \subseteq Known \cup {x}
  BY <1>1
<1>3. IsFiniteSet(Known \cup {x})
  BY <1>0, FS_AddElement
<1> QED
  BY <1>2, <1>3, FS_Subset

LEMMA RowStep == HInv /\ HInv' /\ RowInv /\ [Next]_vars => RowInv'
<1> SUFFICES ASSUME HInv, HInv', RowInv, [Next]_vars PROVE RowInv'
  OBVIOUS
<1>1. \A r \in engineRuns' : r.run[2] \in 1..Job[r.run[1]].engines
  BY PlannedRuns
<1>2. faults' = 0 => \A s \in Scan : Present(s)' =>
        \A i \in task'[s].skipped : \E r \in engineRuns' : r.run = <<s, i>>
  BY SkipsStay
<1>3. ASSUME NEW s \in Scan
      PROVE  IsFiniteSet(task'[s].reported)
  <2>1. IsFiniteSet(task[s].reported)
    BY DEF RowInv
  <2>2. ASSUME NEW report \in Reports
        PROVE  IsFiniteSet(task[s].reported \cup {report[i] : i \in DOMAIN report})
    <3>1. report \in Seq(Hash)
      BY ReportsAssumption
    <3> QED
      BY <2>1, <3>1, ReportFinite, FS_Union
  <2> QED
    BY <2>1, <2>2, ReportedGrows
<1>4. IsFiniteSet({s \in Scan : scanStatus'[s] # "none"})
  BY FewScans
<1> QED
  BY <1>1, <1>2, <1>3, <1>4 DEF RowInv

----------------------------------------------------------------------------
(* Settled scans *)

(* Nothing but its deletion takes back that a scan was completed; its       *)
(* worker reports nothing more, and it observes nothing more.               *)
LEMMA StaysCompleted ==
  ASSUME HInv, HInv', [Next]_vars, NEW s \in Scan, scanStatus[s] = "completed"
  PROVE  /\ task'[s].reported = task[s].reported
         /\ Observed(s)' \subseteq Observed(s)
         /\ scanStatus'[s] \in {"completed", "deleted"}
<1>0. /\ TypeOK /\ IInv /\ IInv' /\ PlaceInv
      /\ task[s].pc \in {"announce", "done", "dead"}
  BY DEF HInv, IInv, PlaceInv, RowSound
<1>1. ~RunEngine(s)
  BY <1>0, EngineEffect DEF Storing
<1>2. task'[s].reported = task[s].reported
  BY <1>0, <1>1, Movers, OtherEffect DEF SameNotes
<1>3. Observed(s)' \subseteq Observed(s)
  BY <1>0, <1>1, ObservedStays DEF RunEngine
<1>4. scanStatus'[s] \in {"completed", "deleted"}
  BY <1>0, StatusStep DEF StatusGoesOn, After
<1> QED
  BY <1>2, <1>3, <1>4

LEMMA StaysSettled ==
  ASSUME HInv, HInv', [Next]_vars, NEW s \in Scan,
         scanStatus[s] = "completed", ~ProjectLostAScan(s)'
  PROVE  /\ scanStatus'[s] = "completed" /\ task'[s].reported = task[s].reported
         /\ Settled(s)
<1>1. ~ProjectLostAScan(s)
  BY LossStays DEF HInv
<1>2. scanStatus'[s] # "deleted"
  BY DEF ProjectLostAScan
<1> QED
  BY <1>1, <1>2, StaysCompleted DEF Settled

(* What two completed scans both observed, a deletion takes from both: each *)
(* observation is of the one row that the project has of the finding.       *)
LEMMA GoneTogether ==
  ASSUME HInv, HInv', [Next]_vars, NEW s \in Scan, NEW u \in Scan,
         ProjectOf[u] = ProjectOf[s], Present(s)', scanStatus[u] = "completed",
         NEW h \in Observed(s), h \notin Observed(s)'
  PROVE  h \notin Observed(u)'
<1>0. IInv /\ IInv'
  BY DEF HInv
<1>1. PICK a \in scanFindings : a.scan = s /\ a.hash = h /\ a \notin scanFindings'
  BY DEF Observed
<1>2. PICK d \in Scan : RemoveScan(d)
  BY <1>0, <1>1, OnlyDeletionTakes
<1>3. d # s
  BY <1>0, <1>2, DeletedByStep DEF DeletedNow, Present, ScanRowStatus
<1>4. PICK f \in findings : f.scan = d /\ f.id = a.finding
  BY <1>0, <1>1, <1>2, <1>3, Deletion
<1>5. f.hash = h /\ f.project = ProjectOf[u]
  BY <1>0, <1>1, <1>4 DEF IInv, RowsConsistent, OneRowPerKey
<1>6. ASSUME NEW b \in scanFindings, b.scan = u, b.hash = h
      PROVE  b \notin scanFindings'
  <2>1. PICK g \in findings :
          g.id = b.finding /\ g.hash = h /\ g.project = ProjectOf[u]
    BY <1>0, <1>6 DEF IInv, RowsConsistent
  <2>2. g = f
    BY <1>0, <1>5, <2>1 DEF IInv, OneRowPerKey
  <2> QED
    BY <1>0, <1>2, <1>4, <2>1, <2>2, Deletion
<1>7. scanFindings' \subseteq scanFindings
  BY <1>0, <1>2, Deletion
<1> QED
  BY <1>6, <1>7 DEF Observed

(* Scans of one project have lost a scan together.                          *)
LEMMA SameLoss ==
  ASSUME NEW s \in Scan, NEW x, InProject(s, x)
  PROVE  /\ ProjectLostAScan(x) <=> ProjectLostAScan(s)
         /\ ProjectLostAScan(x)' <=> ProjectLostAScan(s)'
BY DEF InProject, ProjectLostAScan

----------------------------------------------------------------------------
(* What the queries compute of settled scans *)

Hashes(observations) == {a.hash : a \in observations}

LEMMA SettledObserved ==
  ASSUME HInv, NEW s \in Scan, Settled(s)
  PROVE  Observed(s) = Reported(s)
BY DEF HInv, HistoryInv, HistoryIsWhatWasReported, Settled, Reported

(* The join with findings has the hashes of the observations it joins.      *)
LEMMA JoinedHashes ==
  ASSUME IInv, NEW observations, observations \subseteq scanFindings
  PROVE  {f.hash : f \in Joined(observations)} = Hashes(observations)
<1>1. ASSUME NEW a \in scanFindings
      PROVE  \E f \in findings : f.id = a.finding /\ f.hash = a.hash
  BY DEF IInv, RowsConsistent
<1>2. ASSUME NEW f \in findings, NEW a \in scanFindings, a.finding = f.id
      PROVE  f.hash = a.hash
  BY <1>1, <1>2 DEF IInv, OneRowPerKey
<1>3. ASSUME NEW f \in Joined(observations)
      PROVE  f.hash \in Hashes(observations)
  BY <1>2, <1>3 DEF Joined, Hashes
<1>4. ASSUME NEW a \in observations
      PROVE  a.hash \in {f.hash : f \in Joined(observations)}
  <2>1. PICK f \in findings : f.id = a.finding /\ f.hash = a.hash
    BY <1>1, <1>4
  <2>2. f \in Joined(observations)
    BY <2>1 DEF Joined
  <2> QED
    BY <2>1, <2>2
<1>5. {f.hash : f \in Joined(observations)} \subseteq Hashes(observations)
  BY <1>3
<1>6. Hashes(observations) \subseteq {f.hash : f \in Joined(observations)}
  BY <1>4 DEF Hashes
<1> QED
  BY <1>5, <1>6

LEMMA ObservationHashes ==
  ASSUME NEW s \in Scan, NEW u \in Scan
  PROVE  /\ Hashes(ObservationsOf(s)) = Observed(s)
         /\ Hashes(ObservationsOnlyIn(s, u)) = Observed(s) \ Observed(u)
         /\ ObservationsOnlyIn(s, u) \subseteq ObservationsOf(s)
         /\ ObservationsOf(s) \subseteq scanFindings
<1>1. /\ ObservationsOnlyIn(s, u) \subseteq ObservationsOf(s)
      /\ ObservationsOf(s) \subseteq scanFindings
  BY DEF ObservationsOnlyIn, ObservationsOf
<1>2. Hashes(ObservationsOf(s)) = Observed(s)
  BY DEF Hashes, ObservationsOf, Observed
<1>3. ASSUME NEW h
      PROVE  h \in Hashes(ObservationsOnlyIn(s, u)) <=> h \in Observed(s) \ Observed(u)
  BY DEF Hashes, ObservationsOnlyIn, ObservationsOf, Observed
<1> QED
  BY <1>1, <1>2, <1>3

(* A scan observes a hash once, so observations are counted by their        *)
(* hashes.                                                                  *)
LEMMA ObservationsCounted ==
  ASSUME HInv, RowInv, NEW s \in Scan,
         NEW observations, observations \subseteq ObservationsOf(s)
  PROVE  /\ IsFiniteSet(observations)
         /\ Cardinality(observations) = Cardinality(Hashes(observations))
<1> DEFINE H == Hashes(observations)
           f == [a \in observations |-> a.hash]
<1>1. IsFiniteSet(H)
  <2>1. H \subseteq task[s].reported
    BY DEF Hashes, ObservationsOf, Observed, HInv, HistoryInv,
           HistoryIsWhatWasReported
  <2> QED
    BY <2>1, FS_Subset DEF RowInv
<1>2. f \in [observations -> H] /\ \A h \in H : \E a \in observations : f[a] = h
  BY DEF Hashes
<1>3. ASSUME NEW a \in observations, NEW b \in observations, f[a] = f[b]
      PROVE  a = b
  BY <1>3 DEF ObservationsOf, HInv, IInv, OneRowPerKey
<1>4. f \in Injection(observations, H) /\ f \in Surjection(observations, H)
  BY <1>2, <1>3 DEF Injection, Surjection, IsInjective
<1> QED
  BY <1>1, <1>4, FS_Injection

(* The pairs of CountCommonFindings are counted by the hashes both have.    *)
LEMMA PairsCounted ==
  ASSUME HInv, RowInv, NEW s \in Scan, NEW u \in Scan
  PROVE  CountCommonFindings(s, u) = Cardinality(Observed(s) \cap Observed(u))
<1> DEFINE P == {pair \in ObservationsOf(s) \X ObservationsOf(u) :
                   pair[1].hash = pair[2].hash}
           H == Observed(s) \cap Observed(u)
           f == [pair \in P |-> pair[1].hash]
<1>1. IsFiniteSet(H)
  <2>1. H \subseteq task[s].reported
    BY DEF HInv, HistoryInv, HistoryIsWhatWasReported
  <2> QED
    BY <2>1, FS_Subset DEF RowInv
<1>2. ASSUME NEW pair \in P
      PROVE  /\ pair = <<pair[1], pair[2]>> /\ pair[1] \in scanFindings
             /\ pair[2] \in scanFindings /\ pair[1].scan = s /\ pair[2].scan = u
             /\ pair[1].hash = pair[2].hash /\ pair[1].hash \in H
  BY DEF ObservationsOf, Observed
<1>3. f \in [P -> H]
  BY <1>2
<1>4. ASSUME NEW h \in H
      PROVE  \E pair \in P : f[pair] = h
  <2>1. PICK a \in ObservationsOf(s), b \in ObservationsOf(u) :
          a.hash = h /\ b.hash = h
    BY DEF ObservationsOf, Observed
  <2>2. <<a, b>> \in P /\ f[<<a, b>>] = h
    BY <2>1
  <2> QED
    BY <2>2
<1>5. ASSUME NEW p \in P, NEW q \in P, f[p] = f[q]
      PROVE  p = q
  <2>1. p[1].hash = q[1].hash /\ p[2].hash = q[2].hash
    BY <1>2, <1>5
  <2>2. p[1] = q[1] /\ p[2] = q[2]
    BY <1>2, <2>1 DEF HInv, IInv, OneRowPerKey
  <2> QED
    BY <1>2, <2>2
<1>6. f \in Injection(P, H) /\ f \in Surjection(P, H)
  BY <1>3, <1>4, <1>5 DEF Injection, Surjection, IsInjective
<1>7. Cardinality(P) = Cardinality(H)
  BY <1>1, <1>6, FS_Injection
<1> QED
  BY <1>7 DEF CountCommonFindings

(* The two lists of a diff, by their hashes.                                *)
LEMMA OnlyInHashes ==
  ASSUME HInv, NEW s \in Scan, NEW u \in Scan
  PROVE  {f.hash : f \in ListFindingsOnlyInScan(s, u)} = Observed(s) \ Observed(u)
<1>1. ObservationsOnlyIn(s, u) \subseteq scanFindings
  BY ObservationHashes
<1> QED
  BY <1>1, JoinedHashes, ObservationHashes DEF ListFindingsOnlyInScan, HInv

(* Of scans that differ only by findings that are gone from both, nothing   *)
(* that both reported is in a list, and no more is counted as common.       *)
LEMMA ComparedAlike ==
  ASSUME HInv, RowInv, NEW s \in Scan, NEW u \in Scan, Alike(s, u)
  PROVE  /\ {f.hash : f \in ListFindingsOnlyInScan(s, u)} \subseteq
              Reported(s) \ Reported(u)
         /\ {f.hash : f \in ListFindingsOnlyInScan(u, s)} \subseteq
              Reported(u) \ Reported(s)
         /\ CountCommonFindings(s, u) <= Cardinality(Reported(s) \cap Reported(u))
         /\ CountCommonFindings(u, s) <= Cardinality(Reported(s) \cap Reported(u))
<1>1. Observed(s) \subseteq Reported(s) /\ Observed(u) \subseteq Reported(u)
  BY DEF HInv, HistoryInv, HistoryIsWhatWasReported, Reported
<1>2. /\ Observed(s) \ Observed(u) \subseteq Reported(s) \ Reported(u)
      /\ Observed(u) \ Observed(s) \subseteq Reported(u) \ Reported(s)
  BY <1>1 DEF Alike
<1>3. Cardinality(Observed(s) \cap Observed(u)) <=
        Cardinality(Reported(s) \cap Reported(u))
  <2>1. IsFiniteSet(Reported(s) \cap Reported(u))
    BY FS_Subset DEF RowInv, Reported
  <2> QED
    BY <1>1, <2>1, FS_Subset
<1>4. Observed(u) \cap Observed(s) = Observed(s) \cap Observed(u)
  OBVIOUS
<1> QED
  BY <1>2, <1>3, <1>4, OnlyInHashes, PairsCounted

(* The three counts of trends, and that they are numbers in any case.       *)
LEMMA Counts ==
  ASSUME HInv, RowInv, NEW s \in Scan, NEW u \in Scan
  PROVE  /\ CountFindingsByScanAssoc(s) \in Nat
         /\ CountFindingsOnlyInScan(s, u) \in Nat
         /\ Settled(s) =>
              CountFindingsByScanAssoc(s) = Cardinality(Reported(s))
         /\ Settled(s) /\ Settled(u) =>
              CountFindingsOnlyInScan(s, u) =
                Cardinality(Reported(s) \ Reported(u))
<1>1. /\ IsFiniteSet(ObservationsOf(s))
      /\ Cardinality(ObservationsOf(s)) = Cardinality(Observed(s))
  BY ObservationHashes, ObservationsCounted
<1>2. /\ IsFiniteSet(ObservationsOnlyIn(s, u))
      /\ Cardinality(ObservationsOnlyIn(s, u)) = Cardinality(Observed(s) \ Observed(u))
  BY ObservationHashes, ObservationsCounted
<1> QED
  BY <1>1, <1>2, FS_CardinalityType, SettledObserved
  DEF CountFindingsByScanAssoc, CountFindingsOnlyInScan

(* Of two sets, either is the other less what only that has, with what only *)
(* it has.                                                                  *)
LEMMA Difference ==
  ASSUME NEW A, IsFiniteSet(A), NEW B, IsFiniteSet(B)
  PROVE  /\ Cardinality(A) \in Nat /\ Cardinality(B) \in Nat
         /\ Cardinality(A \ B) \in Nat /\ Cardinality(B \ A) \in Nat
         /\ Cardinality(A) + Cardinality(B \ A) =
              Cardinality(A \ B) + Cardinality(B)
<1>1. IsFiniteSet(A \ B) /\ IsFiniteSet(B \ A)
  BY FS_Subset
<1>2. /\ Cardinality(A) \in Nat /\ Cardinality(B) \in Nat
      /\ Cardinality(A \ B) \in Nat /\ Cardinality(B \ A) \in Nat
  BY <1>1, FS_CardinalityType
<1>3. Cardinality(A \cup (B \ A)) = Cardinality(A) + Cardinality(B \ A)
  <2>1. A \cap (B \ A) = {}
    OBVIOUS
  <2>2. Cardinality(A \cap (B \ A)) = 0
    BY <2>1, FS_EmptySet
  <2>3. Cardinality(A \cup (B \ A)) =
          Cardinality(A) + Cardinality(B \ A) - Cardinality(A \cap (B \ A))
    BY <1>1, FS_Union
  <2> QED
    BY <1>2, <2>2, <2>3
<1>4. Cardinality(B \cup (A \ B)) = Cardinality(B) + Cardinality(A \ B)
  <2>1. B \cap (A \ B) = {}
    OBVIOUS
  <2>2. Cardinality(B \cap (A \ B)) = 0
    BY <2>1, FS_EmptySet
  <2>3. Cardinality(B \cup (A \ B)) =
          Cardinality(B) + Cardinality(A \ B) - Cardinality(B \cap (A \ B))
    BY <1>1, FS_Union
  <2> QED
    BY <1>2, <2>2, <2>3
<1>5. A \cup (B \ A) = B \cup (A \ B)
  OBVIOUS
<1> QED
  BY <1>2, <1>3, <1>4, <1>5

----------------------------------------------------------------------------
(* Steps of the workers, deletions, triage and the server *)

LEMMA PageInit == ReadInit => PageSound(page)
<1> SUFFICES ASSUME ReadInit PROVE PageSound(page)
  OBVIOUS
<1>1. page = NewPage
  BY DEF ReadInit
<1>2. /\ page.at = "idle" /\ page.kind = "none"
      /\ page.status = <<>> /\ page.left = <<>> /\ page.points = <<>>
  BY <1>1 DEF NewPage
<1>3. PageShape(page)
  BY <1>1, <1>2 DEF PageShape
<1> QED
  BY <1>2, <1>3
  DEF PageSound, WholeSound, DiffSound, SparedSound, Comparing, TrendSound

LEMMA TellsBefore ==
  ASSUME HInv, HInv', [Next]_vars, NEW q, NEW stages, q.from \in Scan,
         Tells(q, stages)'
  PROVE  Tells(q, stages)
BY LossStays DEF HInv, Tells

LEMMA WholeKept ==
  ASSUME HInv, HInv', [Next]_vars, NEW q, PageShape(q), WholeSound(q)
  PROVE  WholeSound(q)'
<1> DEFINE stages == {"runs", "observed", "answered"}
<1> SUFFICES ASSUME q.kind \in {"detail", "report"}, Tells(q, stages)'
             PROVE  /\ scanStatus'[q.from] = "completed"
                    /\ q.at # "runs" /\ ~q.guessed /\ faults' = 0 =>
                         RunsShown(q) = PlanOf(q.from)
                    /\ q.kind = "report" /\ q.at = "answered" =>
                         q.seen = task'[q.from].reported
  BY DEF WholeSound, Reported, RunsShown, PlanOf
<1>1. q.from \in Scan
  BY DEF PageShape, Tells
<1>2. Tells(q, stages)
  BY <1>1, TellsBefore
<1>3. /\ scanStatus'[q.from] = "completed"
      /\ task'[q.from].reported = task[q.from].reported
  BY <1>1, <1>2, StaysSettled DEF WholeSound, Tells
<1>4. faults' = 0 => faults = 0
  BY FaultsCount DEF HInv, IInv
<1> QED
  BY <1>2, <1>3, <1>4 DEF WholeSound, Reported

LEMMA DiffKept ==
  ASSUME HInv, HInv', [Next]_vars, NEW q, PageShape(q), DiffSound(q)
  PROVE  DiffSound(q)'
<1> DEFINE stages == {"to", "added", "removed", "common", "answered"}
           before == task'[q.from].reported
           after == task'[q.to].reported
<1> SUFFICES ASSUME q.kind = "diff", Tells(q, stages)'
             PROVE  /\ scanStatus'[q.from] = "completed"
                    /\ q.at # "to" =>
                         scanStatus'[q.to] = "completed" /\ InProject(q.from, q.to)
                    /\ q.at \in {"removed", "common", "answered"} =>
                         q.added = after \ before
                    /\ q.at \in {"common", "answered"} => q.removed = before \ after
                    /\ q.at = "answered" => q.common = Cardinality(before \cap after)
  BY DEF DiffSound, Reported, InProject
<1>1. q.from \in Scan /\ q.to \in Scan
  BY DEF PageShape, Tells
<1>2. Tells(q, stages)
  BY <1>1, TellsBefore
<1>3. /\ scanStatus'[q.from] = "completed"
      /\ task'[q.from].reported = task[q.from].reported
  BY <1>1, <1>2, StaysSettled DEF DiffSound, Tells
<1>4. CASE q.at = "to"
  BY <1>3, <1>4
<1>5. CASE q.at # "to"
  <2>1. scanStatus[q.to] = "completed" /\ InProject(q.from, q.to)
    BY <1>2, <1>5 DEF DiffSound
  <2>2. ~ProjectLostAScan(q.to)'
    BY <1>1, <2>1, SameLoss DEF Tells
  <2>3. /\ scanStatus'[q.to] = "completed"
        /\ task'[q.to].reported = task[q.to].reported
    BY <1>1, <2>1, <2>2, StaysSettled
  <2> QED
    BY <1>2, <1>3, <2>1, <2>3 DEF DiffSound, Reported
<1> QED
  BY <1>4, <1>5

LEMMA SparedKept ==
  ASSUME HInv, HInv', [Next]_vars, NEW q, PageShape(q), SparedSound(q)
  PROVE  SparedSound(q)'
<1> DEFINE before == task'[q.from].reported
           after == task'[q.to].reported
<1> SUFFICES ASSUME Comparing(q)
             PROVE  /\ scanStatus'[q.from] \in {"completed", "deleted"}
                    /\ scanStatus'[q.to] \in {"completed", "deleted"}
                    /\ InProject(q.from, q.to)
                    /\ Present(q.from)' /\ Present(q.to)' =>
                         /\ Alike(q.from, q.to)'
                         /\ q.at \in {"removed", "common", "answered"} =>
                              q.added \subseteq after \ before
                         /\ q.at \in {"common", "answered"} =>
                              q.removed \subseteq before \ after
                         /\ q.at = "answered" =>
                              q.common <= Cardinality(before \cap after)
  BY DEF SparedSound, Reported, InProject, Comparing
<1>1. /\ q.from \in Scan /\ q.to \in Scan /\ InProject(q.from, q.to)
      /\ ProjectOf[q.from] = ProjectOf[q.to]
  BY DEF PageShape, Comparing, SparedSound, InProject
<1>2. ASSUME NEW s \in Scan, scanStatus[s] = "deleted"
      PROVE  scanStatus'[s] = "deleted"
  BY <1>2, StatusStep DEF HInv, StatusGoesOn, After
<1>3. /\ scanStatus'[q.from] \in {"completed", "deleted"}
      /\ scanStatus'[q.to] \in {"completed", "deleted"}
  BY <1>1, <1>2, StaysCompleted DEF SparedSound
<1>4. ASSUME Present(q.from)', Present(q.to)'
      PROVE  /\ Alike(q.from, q.to)'
             /\ q.at \in {"removed", "common", "answered"} =>
                  q.added \subseteq after \ before
             /\ q.at \in {"common", "answered"} => q.removed \subseteq before \ after
             /\ q.at = "answered" => q.common <= Cardinality(before \cap after)
  <2>1. scanStatus'[q.from] # "deleted" /\ scanStatus'[q.to] # "deleted"
    BY <1>4 DEF Present, ScanRowStatus
  <2>2. scanStatus[q.from] = "completed" /\ scanStatus[q.to] = "completed"
    BY <1>1, <1>2, <2>1 DEF SparedSound
  <2>3. /\ task'[q.from].reported = task[q.from].reported
        /\ task'[q.to].reported = task[q.to].reported
        /\ Observed(q.from)' \subseteq Observed(q.from)
        /\ Observed(q.to)' \subseteq Observed(q.to)
    BY <1>1, <2>2, StaysCompleted
  <2>4. Present(q.from) /\ Present(q.to)
    BY <2>2 DEF Present, ScanRowStatus
  <2>5. Alike(q.from, q.to)'
    <3> SUFFICES ASSUME NEW h \in before \cap after
                 PROVE  h \in Observed(q.from)' <=> h \in Observed(q.to)'
      BY DEF Alike, Reported
    <3>1. h \in Observed(q.from) <=> h \in Observed(q.to)
      BY <2>3, <2>4 DEF SparedSound, Alike, Reported
    <3>2. h \in Observed(q.from) /\ h \notin Observed(q.from)' =>
            h \notin Observed(q.to)'
      BY <1>1, <1>4, <2>2, GoneTogether
    <3>3. h \in Observed(q.to) /\ h \notin Observed(q.to)' =>
            h \notin Observed(q.from)'
      BY <1>1, <1>4, <2>2, GoneTogether
    <3> QED
      BY <2>3, <3>1, <3>2, <3>3
  <2> QED
    BY <2>3, <2>4, <2>5 DEF SparedSound, Reported
<1> QED
  BY <1>1, <1>3, <1>4

LEMMA TrendKept ==
  ASSUME HInv, HInv', [Next]_vars, NEW q, PageShape(q), TrendSound(q)
  PROVE  TrendSound(q)'
<1> SUFFICES ASSUME q.at # "idle", ~q.guessed, ~ProjectLostAScan(q.from)'
             PROVE  /\ \A i \in DOMAIN q.left :
                         q.left[i].status = "completed" =>
                           scanStatus'[q.left[i].scan] = "completed"
                    /\ AllCompleted(q.points) =>
                         \A i \in DOMAIN q.points :
                           /\ scanStatus'[q.points[i].scan] = "completed"
                           /\ PointSound(q, i)'
  BY DEF TrendSound, AllCompleted
<1>1. q.from \in Scan /\ ~ProjectLostAScan(q.from)
  BY LossStays DEF PageShape, HInv
<1>2. ASSUME NEW x, InProject(q.from, x), scanStatus[x] = "completed"
      PROVE  /\ scanStatus'[x] = "completed"
             /\ task'[x].reported = task[x].reported
  <2>1. x \in Scan /\ ~ProjectLostAScan(x)'
    BY <1>1, <1>2, SameLoss DEF InProject
  <2> QED
    BY <1>2, <2>1, StaysSettled
<1>3. \A i \in DOMAIN q.left :
        q.left[i].status = "completed" =>
          scanStatus'[q.left[i].scan] = "completed"
  BY <1>1, <1>2 DEF TrendSound, PageShape
<1>4. ASSUME AllCompleted(q.points), NEW i \in DOMAIN q.points
      PROVE  scanStatus'[q.points[i].scan] = "completed" /\ PointSound(q, i)'
  <2>1. PointSound(q, i)
    BY <1>1, <1>4 DEF TrendSound
  <2>2. \A j \in DOMAIN q.points :
          /\ scanStatus'[q.points[j].scan] = "completed"
          /\ task'[q.points[j].scan].reported = task[q.points[j].scan].reported
    BY <1>1, <1>2, <1>4 DEF TrendSound, PageShape
  <2>3. q.at = "gone" /\ i = Len(q.points) => i - 1 \in DOMAIN q.points
    BY DEF PageShape
  <2> QED
    BY <2>1, <2>2, <2>3 DEF PointSound, Reported
<1> QED
  BY <1>3, <1>4

LEMMA PageKept ==
  ASSUME HInv, HInv', PageSound(page), Next, UNCHANGED page
  PROVE  PageSound(page)'
<1>1. PICK q : q = page
  OBVIOUS
<1>2. /\ PageShape(q) /\ WholeSound(q) /\ DiffSound(q) /\ SparedSound(q)
      /\ TrendSound(q)
  BY <1>1 DEF PageSound
<1>3. /\ PageShape(q)' /\ WholeSound(q)' /\ DiffSound(q)'
      /\ SparedSound(q)' /\ TrendSound(q)'
  BY <1>2, WholeKept, DiffKept, SparedKept, TrendKept DEF PageShape, InProject
<1>4. PageSound(q)'
  BY <1>3 DEF PageSound
<1> QED
  BY <1>1, <1>4

----------------------------------------------------------------------------
(* Statements of details, reports and diffs *)

(* What else a statement that is not one of trends' counts leaves alone.    *)
SamePage(p, q) ==
  /\ DOMAIN q = DOMAIN p /\ q.kind = p.kind /\ q.from = p.from /\ q.to = p.to
  /\ q.left = p.left /\ q.points = p.points
  /\ q.guessed = p.guessed \/ q.guessed = TRUE

LEMMA OffTrends ==
  ASSUME NEW p, NEW q, PageShape(p), TrendSound(p), SamePage(p, q),
         p.at \notin {"idle", "new", "gone"},
         q.at \in StagesOf(q.kind) \cup Ended,
         q.at \notin {"idle", "total", "new", "gone"},
         q.status \in Seq(ScanRowStatus)
  PROVE  PageShape(q) /\ TrendSound(q)
<1>1. PageShape(q)
  BY DEF PageShape, SamePage
<1>2. TrendSound(q)
  BY DEF TrendSound, SamePage, PointSound
<1> QED
  BY <1>1, <1>2

LEMMA StagesKinds ==
  ASSUME NEW p, PageShape(p)
  PROVE  /\ p.at = "from" => p.kind \in {"detail", "report", "diff"}
         /\ p.at = "runs" => p.kind \in {"detail", "report"}
         /\ p.at = "observed" => p.kind = "report"
         /\ p.at \in {"to", "added", "removed", "common"} => p.kind = "diff"
         /\ p.at \in {"project", "scans", "total", "new", "gone"} =>
              p.kind = "trends"
BY DEF PageShape, StagesOf, Ended

(* The runs of a scan on record as completed are those of its plan.         *)
LEMMA RunsWhole ==
  ASSUME HInv, RowInv, NEW s \in Scan, scanStatus[s] = "completed", faults = 0
  PROVE  {r.run : r \in ListEngineRunsByScan(s)} = PlanOf(s)
<1>1. ASSUME NEW r \in ListEngineRunsByScan(s)
      PROVE  r.run \in PlanOf(s)
  <2>1. r \in engineRuns /\ r.run[1] = s /\ r.run[2] \in 1..Job[s].engines
    BY DEF ListEngineRunsByScan, RowInv
  <2>2. r.run = <<s, r.run[2]>>
    BY <2>1 DEF HInv, IInv, TypeOK, StoreTypeOK, EngineRun, RunId
  <2> QED
    BY <2>1, <2>2 DEF PlanOf
<1>2. ASSUME NEW i \in 1..Job[s].engines
      PROVE  \E r \in ListEngineRunsByScan(s) : r.run = <<s, i>>
  <2>1. Job[s].kind # "sbom" /\ Present(s)
    BY JobAssumption DEF Present, ScanRowStatus, JobType
  <2>2. RanWell(s, i) \/ i \in task[s].skipped
    BY <2>1 DEF HInv, PlanInv, CompletedIsComplete, RanWell
  <2>3. \E r \in engineRuns : r.run = <<s, i>>
    <3>1. CASE RanWell(s, i)
      <4>1. PICK r : r = [run |-> <<s, i>>, status |-> "completed"]
        OBVIOUS
      <4>2. r \in engineRuns /\ r.run = <<s, i>>
        BY <3>1, <4>1 DEF RanWell
      <4> QED
        BY <4>2
    <3>2. CASE i \in task[s].skipped
      BY <2>1, <3>2 DEF RowInv
    <3> QED
      BY <2>2, <3>1, <3>2
  <2> QED
    BY <2>3 DEF ListEngineRunsByScan
<1>3. {r.run : r \in ListEngineRunsByScan(s)} \subseteq PlanOf(s)
  BY <1>1
<1>4. PlanOf(s) \subseteq {r.run : r \in ListEngineRunsByScan(s)}
  BY <1>2 DEF PlanOf
<1> QED
  BY <1>3, <1>4

LEMMA RequestMade ==
  ASSUME PageSound(page), NEW r \in Requests, Request(r[1], r[2], r[3]),
         NEW q, q = page'
  PROVE  PageSound(q)
<1>1. /\ DOMAIN page = DOMAIN NewPage /\ page.at = "idle"
      /\ page.left = <<>> /\ page.points = <<>>
      /\ page.status \in Seq(ScanRowStatus)
  BY DEF PageSound, PageShape, Request, ReadAt
<1>2. /\ r[1] \in {"detail", "report", "diff", "trends"}
      /\ r[2] \in Scan /\ r[3] \in Scan
  BY RequestsAssumption
<1>3. /\ DOMAIN q = DOMAIN NewPage
      /\ q.kind = r[1] /\ q.from = r[2] /\ q.to = r[3]
      /\ q.at = IF r[1] = "trends" THEN "project" ELSE "from"
      /\ q.left = <<>> /\ q.points = <<>> /\ q.status = page.status
  BY <1>1 DEF Request, NewPage
<1>4. q.at \in StagesOf(q.kind)
  BY <1>2, <1>3 DEF StagesOf
<1>5. PageShape(q)
  BY <1>1, <1>2, <1>3, <1>4 DEF PageShape
<1>6. WholeSound(q) /\ DiffSound(q) /\ SparedSound(q) /\ TrendSound(q)
  BY <1>3 DEF WholeSound, DiffSound, SparedSound, Comparing, TrendSound, Tells
<1> QED
  BY <1>5, <1>6 DEF PageSound

LEMMA StatementFailed ==
  ASSUME PageSound(page), ReadFails, NEW q, q = page'
  PROVE  PageSound(q)
<1>1. /\ PageShape(page) /\ WholeSound(page) /\ TrendSound(page)
      /\ page.at \in Lookups
  BY DEF PageSound, ReadFails, ReadAt
<1>2. /\ SamePage(page, q) /\ q.guessed = TRUE /\ q.status = page.status
      /\ q.at = IF page.kind = "detail" /\ page.at = "runs"
                  THEN "answered" ELSE "error"
  BY <1>1 DEF PageShape, ReadFails, NewPage, SamePage
<1>3. PageShape(q) /\ TrendSound(q)
  BY <1>1, <1>2, OffTrends DEF Lookups, Ended, PageShape
<1>4. WholeSound(q)
  BY <1>1, <1>2 DEF WholeSound, Tells, SamePage
<1>5. DiffSound(q) /\ SparedSound(q)
  BY <1>2 DEF DiffSound, SparedSound, Comparing, Tells, SamePage
<1> QED
  BY <1>3, <1>4, <1>5 DEF PageSound

LEMMA FromRead ==
  ASSUME PageSound(page), ReadFrom, NEW q, q = page'
  PROVE  PageSound(q)
<1>1. /\ PageShape(page) /\ TrendSound(page)
      /\ page.at = "from" /\ page.kind \in {"detail", "report", "diff"}
  BY StagesKinds DEF PageSound, ReadFrom, ReadAt
<1>2. CASE Present(page.from)
  <2>1. /\ SamePage(page, q) /\ q.at = AfterFrom(page.kind)
        /\ q.status = <<scanStatus[page.from]>>
    BY <1>1, <1>2 DEF PageShape, ReadFrom, NewPage, SamePage
  <2>2. scanStatus[page.from] \in ScanRowStatus
    BY <1>2 DEF Present
  <2>3. /\ q.at \in StagesOf(q.kind) /\ q.at \in {"runs", "to"}
        /\ q.status \in Seq(ScanRowStatus)
    BY <1>1, <2>1, <2>2 DEF AfterFrom, StagesOf, SamePage
  <2>4. PageShape(q) /\ TrendSound(q)
    BY <1>1, <2>1, <2>3, OffTrends
  <2>5. (\A i \in DOMAIN q.status : q.status[i] = "completed") =>
          scanStatus[q.from] = "completed"
    BY <2>1 DEF SamePage
  <2>6. WholeSound(q) /\ DiffSound(q) /\ SparedSound(q)
    BY <1>1, <2>1, <2>3, <2>5
    DEF WholeSound, DiffSound, SparedSound, Comparing, Tells, AfterFrom
  <2> QED
    BY <2>4, <2>6 DEF PageSound
<1>3. CASE ~Present(page.from)
  <2>1. SamePage(page, q) /\ q.at = "notFound" /\ q.status = page.status
    BY <1>1, <1>3 DEF PageShape, ReadFrom, NewPage, SamePage
  <2>2. PageShape(q) /\ TrendSound(q)
    BY <1>1, <2>1, OffTrends DEF Ended, PageShape
  <2> QED
    BY <2>1, <2>2
    DEF PageSound, WholeSound, DiffSound, SparedSound, Comparing, Tells
<1> QED
  BY <1>2, <1>3

LEMMA ToRead ==
  ASSUME HInv, PageSound(page), ReadTo, NEW q, q = page'
  PROVE  PageSound(q)
<1>1. /\ PageShape(page) /\ TrendSound(page) /\ DiffSound(page)
      /\ page.at = "to" /\ page.kind = "diff"
      /\ page.from \in Scan /\ page.to \in Scan
      /\ page.status \in Seq(ScanRowStatus)
  BY StagesKinds DEF PageSound, ReadTo, ReadAt, PageShape
<1>2. CASE Present(page.to) /\ ProjectOf[page.from] = ProjectOf[page.to]
  <2>1. /\ SamePage(page, q) /\ q.at = "added"
        /\ q.status = Append(page.status, scanStatus[page.to])
        /\ q.intact = ~ProjectLostAScan(page.from)
    BY <1>1, <1>2 DEF PageShape, ReadTo, NewPage, SamePage
  <2>2. scanStatus[page.to] \in ScanRowStatus
    BY <1>2 DEF Present
  <2>3. q.at \in StagesOf(q.kind) /\ q.status \in Seq(ScanRowStatus)
    BY <1>1, <2>1, <2>2 DEF StagesOf, SamePage
  <2>4. PageShape(q) /\ TrendSound(q)
    BY <1>1, <2>1, <2>3, OffTrends
  <2>5. ASSUME \A i \in DOMAIN q.status : q.status[i] = "completed"
        PROVE  /\ \A i \in DOMAIN page.status : page.status[i] = "completed"
               /\ scanStatus[q.to] = "completed"
    <3> DEFINE n == Len(page.status)
    <3>1. /\ n \in Nat /\ DOMAIN page.status = 1..n /\ DOMAIN q.status = 1..(n + 1)
          /\ \A i \in 1..n : q.status[i] = page.status[i]
          /\ q.status[n + 1] = scanStatus[page.to]
      BY <1>1, <2>1, <2>2
    <3>2. n + 1 \in DOMAIN q.status /\ \A i \in 1..n : i \in DOMAIN q.status
      BY <3>1
    <3> QED
      BY <2>1, <2>5, <3>1, <3>2 DEF SamePage
  <2>6. WholeSound(q) /\ DiffSound(q)
    BY <1>1, <1>2, <2>1, <2>5 DEF WholeSound, DiffSound, Tells, SamePage, InProject
  <2>7. SparedSound(q)
    <3> SUFFICES ASSUME Comparing(q)
                 PROVE  /\ scanStatus[q.from] = "completed"
                        /\ scanStatus[q.to] = "completed"
                        /\ InProject(q.from, q.to) /\ Alike(q.from, q.to)
      BY <2>1 DEF SparedSound
    <3>1. /\ scanStatus[q.from] = "completed" /\ scanStatus[q.to] = "completed"
          /\ ~ProjectLostAScan(q.from) /\ InProject(q.from, q.to)
      BY <1>1, <1>2, <2>1, <2>5
      DEF DiffSound, Tells, Comparing, SamePage, InProject
    <3>2. Settled(q.from) /\ Settled(q.to) /\ q.from \in Scan /\ q.to \in Scan
      BY <1>1, <2>1, <3>1, SameLoss DEF Settled, SamePage
    <3>3. Alike(q.from, q.to)
      BY <3>2, SettledObserved DEF Alike
    <3> QED
      BY <3>1, <3>3
  <2> QED
    BY <2>4, <2>6, <2>7 DEF PageSound
<1>3. CASE ~(Present(page.to) /\ ProjectOf[page.from] = ProjectOf[page.to])
  <2>1. /\ SamePage(page, q) /\ q.at \in {"notFound", "crossProject"}
        /\ q.status = page.status
    BY <1>1, <1>3 DEF PageShape, ReadTo, NewPage, SamePage
  <2>2. PageShape(q) /\ TrendSound(q)
    BY <1>1, <2>1, OffTrends DEF Ended
  <2> QED
    BY <2>1, <2>2
    DEF PageSound, WholeSound, DiffSound, SparedSound, Comparing, Tells
<1> QED
  BY <1>2, <1>3

LEMMA RunsRead ==
  ASSUME HInv, RowInv, PageSound(page), ReadRuns, NEW q, q = page'
  PROVE  PageSound(q)
<1>1. /\ PageShape(page) /\ TrendSound(page) /\ WholeSound(page)
      /\ page.at = "runs" /\ page.kind \in {"detail", "report"}
      /\ page.from \in Scan /\ page.status \in Seq(ScanRowStatus)
  BY StagesKinds DEF PageSound, ReadRuns, ReadAt, PageShape
<1>2. /\ SamePage(page, q) /\ q.status = page.status
      /\ q.at = IF page.kind = "detail" THEN "answered" ELSE "observed"
      /\ q.runs = ListEngineRunsByScan(page.from)
  BY <1>1 DEF PageShape, ReadRuns, NewPage, SamePage
<1>3. q.at \in StagesOf(q.kind) \cup Ended
  BY <1>1, <1>2 DEF StagesOf, Ended, SamePage
<1>4. PageShape(q) /\ TrendSound(q)
  BY <1>1, <1>2, <1>3, OffTrends
<1>5. scanStatus[q.from] = "completed" /\ faults = 0 =>
        RunsShown(q) = PlanOf(q.from)
  BY <1>1, <1>2, RunsWhole DEF RunsShown, SamePage
<1>6. WholeSound(q) /\ DiffSound(q) /\ SparedSound(q)
  BY <1>1, <1>2, <1>5
  DEF WholeSound, DiffSound, SparedSound, Comparing, Tells, SamePage
<1> QED
  BY <1>4, <1>6 DEF PageSound

LEMMA ObservedRead ==
  ASSUME HInv, RowInv, PageSound(page), ReadObserved, NEW q, q = page'
  PROVE  PageSound(q)
<1>1. /\ PageShape(page) /\ TrendSound(page) /\ WholeSound(page)
      /\ page.at = "observed" /\ page.kind = "report"
      /\ page.from \in Scan /\ page.status \in Seq(ScanRowStatus)
  BY StagesKinds DEF PageSound, ReadObserved, ReadAt, PageShape
<1>2. /\ SamePage(page, q) /\ q.status = page.status /\ q.at = "answered"
      /\ q.seen = {f.hash : f \in ListFindingsByScanAssoc(page.from)}
      /\ q.runs = page.runs /\ q.guessed = page.guessed
  BY <1>1 DEF PageShape, ReadObserved, NewPage, SamePage
<1>3. PageShape(q) /\ TrendSound(q)
  BY <1>1, <1>2, OffTrends DEF Ended
<1>4. Settled(q.from) => q.seen = Reported(q.from)
  <2>1. q.seen = Observed(page.from)
    BY <1>1, <1>2, JoinedHashes, ObservationHashes
    DEF ListFindingsByScanAssoc, HInv
  <2> QED
    BY <1>1, <1>2, <2>1, SettledObserved DEF SamePage
<1>5. WholeSound(q) /\ DiffSound(q) /\ SparedSound(q)
  BY <1>1, <1>2, <1>4
  DEF WholeSound, DiffSound, SparedSound, Comparing, Tells, SamePage, Settled,
      RunsShown
<1> QED
  BY <1>3, <1>5 DEF PageSound

(* The three statements of a diff, of two settled scans.                    *)
LEMMA DiffRead ==
  ASSUME HInv, RowInv, PageSound(page), ReadAdded \/ ReadRemoved \/ ReadCommon,
         NEW q, q = page'
  PROVE  PageSound(q)
<1> DEFINE before == Reported(page.from)
           after == Reported(page.to)
<1>1. /\ PageShape(page) /\ TrendSound(page) /\ DiffSound(page)
      /\ SparedSound(page)
      /\ page.at \in {"added", "removed", "common"} /\ page.kind = "diff"
      /\ page.from \in Scan /\ page.to \in Scan
      /\ page.status \in Seq(ScanRowStatus)
  BY StagesKinds DEF PageSound, ReadAdded, ReadRemoved, ReadCommon, ReadAt, PageShape
<1>2. /\ SamePage(page, q) /\ q.status = page.status /\ q.intact = page.intact
      /\ ReadAdded => /\ q.at = "removed" /\ page.at = "added"
           /\ q.added = {f.hash : f \in ListFindingsOnlyInScan(page.to, page.from)}
      /\ ReadRemoved => /\ q.at = "common" /\ page.at = "removed"
           /\ q.added = page.added
           /\ q.removed = {f.hash : f \in ListFindingsOnlyInScan(page.from, page.to)}
      /\ ReadCommon => /\ q.at = "answered" /\ page.at = "common"
           /\ q.added = page.added /\ q.removed = page.removed
           /\ q.common = CountCommonFindings(page.from, page.to)
  BY <1>1 DEF PageShape, ReadAdded, ReadRemoved, ReadCommon, ReadAt, NewPage, SamePage
<1>3. q.at \in StagesOf(q.kind) \cup Ended
  BY <1>1, <1>2 DEF StagesOf, Ended, SamePage
<1>4. PageShape(q) /\ TrendSound(q)
  BY <1>1, <1>2, <1>3, OffTrends
<1>5. ASSUME NEW s \in Scan, NEW u \in Scan, Settled(s), Settled(u)
      PROVE  /\ {f.hash : f \in ListFindingsOnlyInScan(s, u)} =
                  Reported(s) \ Reported(u)
             /\ CountCommonFindings(s, u) = Cardinality(Reported(s) \cap Reported(u))
  <2>1. Observed(s) = Reported(s) /\ Observed(u) = Reported(u)
    BY <1>5, SettledObserved
  <2> QED
    BY <2>1, OnlyInHashes, PairsCounted
<1>6. ASSUME Tells(q, {"removed", "common", "answered"})
      PROVE  /\ scanStatus[q.from] = "completed" /\ scanStatus[q.to] = "completed"
             /\ InProject(q.from, q.to) /\ Settled(page.from) /\ Settled(page.to)
  <2>1. Tells(page, {"to", "added", "removed", "common", "answered"})
    BY <1>1, <1>2, <1>6 DEF Tells, SamePage
  <2>2. /\ scanStatus[page.from] = "completed" /\ scanStatus[page.to] = "completed"
        /\ InProject(page.from, page.to)
    BY <1>1, <2>1 DEF DiffSound
  <2>3. ~ProjectLostAScan(page.from) /\ ~ProjectLostAScan(page.to)
    BY <1>1, <2>1, <2>2, SameLoss DEF Tells
  <2> QED
    BY <1>2, <2>2, <2>3 DEF Settled, SamePage
<1>7. DiffSound(q)
  <2> SUFFICES ASSUME Tells(q, {"to", "added", "removed", "common", "answered"})
               PROVE  /\ scanStatus[q.from] = "completed"
                      /\ scanStatus[q.to] = "completed" /\ InProject(q.from, q.to)
                      /\ q.at \in {"removed", "common", "answered"} =>
                           q.added = after \ before
                      /\ q.at \in {"common", "answered"} => q.removed = before \ after
                      /\ q.at = "answered" => q.common = Cardinality(before \cap after)
    BY <1>2 DEF DiffSound, SamePage
  <2>1. /\ scanStatus[q.from] = "completed" /\ scanStatus[q.to] = "completed"
        /\ InProject(q.from, q.to) /\ Settled(page.from) /\ Settled(page.to)
        /\ Tells(page, {"to", "added", "removed", "common", "answered"})
    BY <1>1, <1>2, <1>6 DEF Tells, SamePage
  <2>2. /\ page.at \in {"removed", "common", "answered"} => page.added = after \ before
        /\ page.at \in {"common", "answered"} => page.removed = before \ after
    BY <1>1, <2>1 DEF DiffSound
  <2>3. /\ ReadAdded => q.added = after \ before
        /\ ReadRemoved => q.removed = before \ after
        /\ ReadCommon => q.common = Cardinality(before \cap after)
    BY <1>1, <1>2, <1>5, <2>1
  <2> QED
    BY <1>2, <2>1, <2>2, <2>3
<1>8. WholeSound(q)
  BY <1>1, <1>2 DEF WholeSound, SamePage
<1>9. SparedSound(q)
  <2>1. CASE ~Comparing(q)
    BY <2>1 DEF SparedSound
  <2>2. CASE Comparing(q)
    <3>1. Comparing(page) /\ q.from = page.from /\ q.to = page.to
      BY <1>1, <1>2, <2>2 DEF Comparing, SamePage
    <3>2. CASE ~(Present(q.from) /\ Present(q.to))
      BY <1>1, <3>1, <3>2 DEF SparedSound
    <3>3. CASE Present(q.from) /\ Present(q.to)
      <4>1. Alike(page.from, page.to)
        BY <1>1, <3>1, <3>3 DEF SparedSound
      <4>2. /\ ReadAdded => q.added \subseteq after \ before
            /\ ReadRemoved => q.removed \subseteq before \ after
            /\ ReadCommon => q.common <= Cardinality(before \cap after)
        <5>1. /\ {f.hash : f \in ListFindingsOnlyInScan(page.from, page.to)}
                   \subseteq before \ after
              /\ {f.hash : f \in ListFindingsOnlyInScan(page.to, page.from)}
                   \subseteq after \ before
              /\ CountCommonFindings(page.from, page.to)
                   <= Cardinality(before \cap after)
          BY <1>1, <4>1, ComparedAlike
        <5> QED
          BY <1>2, <5>1
      <4> QED
        BY <1>1, <1>2, <3>1, <3>3, <4>1, <4>2 DEF SparedSound
    <3> QED
      BY <3>2, <3>3
  <2> QED
    BY <2>1, <2>2
<1> QED
  BY <1>4, <1>7, <1>8, <1>9 DEF PageSound

----------------------------------------------------------------------------
(* Statements of trends *)

(* Pages of trends make no claim about runs and differences.                *)
LEMMA TrendPage ==
  ASSUME NEW q, q.kind = "trends", PageShape(q), TrendSound(q)
  PROVE  PageSound(q)
BY DEF PageSound, WholeSound, DiffSound, SparedSound, Comparing

(* A count that failed: 0 took its place, and the page says so.             *)
LEMMA GuessedPage ==
  ASSUME NEW q, NEW g, q.kind = "trends", PageShape(q),
         g = [q EXCEPT !.guessed = TRUE]
  PROVE  PageSound(g)
<1>1. /\ DOMAIN g = DOMAIN q /\ g.guessed = TRUE /\ g.kind = q.kind
      /\ g.at = q.at /\ g.from = q.from /\ g.to = q.to /\ g.status = q.status
      /\ g.left = q.left /\ g.points = q.points
  BY DEF PageShape, NewPage
<1>2. PageShape(g)
  BY <1>1 DEF PageShape
<1> QED
  BY <1>1, <1>2, TrendPage DEF TrendSound

LEMMA ProjectRead ==
  ASSUME PageSound(page), ReadProject, NEW q, q = page'
  PROVE  PageSound(q)
<1>1. /\ PageShape(page) /\ TrendSound(page)
      /\ page.at = "project" /\ page.kind = "trends"
      /\ page.status \in Seq(ScanRowStatus)
  BY StagesKinds DEF PageSound, ReadProject, ReadAt, PageShape
<1>2. /\ SamePage(page, q) /\ q.status = page.status
      /\ q.at \in {"scans", "notFound"}
  BY <1>1 DEF PageShape, ReadProject, NewPage, SamePage
<1>3. q.at \in StagesOf(q.kind) \cup Ended
  BY <1>1, <1>2 DEF StagesOf, Ended, SamePage
<1>4. PageShape(q) /\ TrendSound(q)
  BY <1>1, <1>2, <1>3, OffTrends
<1> QED
  BY <1>1, <1>2, <1>4, TrendPage DEF SamePage

LEMMA ScansRead ==
  ASSUME HInv, RowInv, PageSound(page), ReadScans, NEW q, q = page'
  PROVE  PageSound(q)
<1> DEFINE S == ListProjectScans(ProjectOf[page.from])
<1>1. /\ PageShape(page) /\ TrendSound(page) /\ page.from \in Scan
      /\ page.at = "scans" /\ page.kind = "trends"
  BY StagesKinds DEF PageSound, ReadScans, ReadAt, PageShape
<1>2. PICK order \in SetToSeqs(S) :
        q = NextPoint([page EXCEPT
              !.left = [i \in DOMAIN order |->
                          [scan |-> order[i], status |-> scanStatus[order[i]]]]])
  BY DEF ReadScans
<1>3. PICK left : left = [i \in DOMAIN order |->
                            [scan |-> order[i], status |-> scanStatus[order[i]]]]
  OBVIOUS
<1>4. Cardinality(S) \in Nat
  <2>1. S \subseteq {s \in Scan : scanStatus[s] # "none"}
    BY DEF ListProjectScans, Present, ScanRowStatus
  <2>2. IsFiniteSet(S)
    BY <2>1, FS_Subset DEF RowInv
  <2> QED
    BY <2>2, FS_CardinalityType
<1>5. order \in [1..Cardinality(S) -> S]
  BY DEF SetToSeqs
<1>6. \A s \in S : s \in Scan /\ scanStatus[s] \in ScanRowStatus
                   /\ InProject(page.from, s)
  BY DEF ListProjectScans, Present, InProject
<1>7. /\ DOMAIN left = 1..Cardinality(S)
      /\ \A i \in DOMAIN left :
           /\ left[i] \in Listed /\ InProject(page.from, left[i].scan)
           /\ left[i].status = scanStatus[left[i].scan]
  BY <1>3, <1>5, <1>6 DEF Listed
<1>8. left \in Seq(Listed)
  <2>1. left = [i \in 1..Cardinality(S) |-> left[i]]
    BY <1>3, <1>5
  <2>2. \A i \in 1..Cardinality(S) : left[i] \in Listed
    BY <1>7
  <2> QED
    BY <1>4, <2>1, <2>2
<1>9. /\ DOMAIN q = DOMAIN NewPage /\ q.kind = "trends" /\ q.left = left
      /\ q.from = page.from /\ q.to = page.to /\ q.status = page.status
      /\ q.points = page.points /\ q.guessed = page.guessed
      /\ q.at = IF left = <<>> THEN "answered" ELSE "total"
  <2>1. PICK listed : listed = [page EXCEPT !.left = left]
    OBVIOUS
  <2>2. /\ DOMAIN listed = DOMAIN NewPage /\ listed.kind = "trends"
        /\ listed.left = left /\ listed.from = page.from /\ listed.to = page.to
        /\ listed.status = page.status /\ listed.points = page.points
        /\ listed.guessed = page.guessed
    BY <1>1, <2>1 DEF PageShape, NewPage
  <2>3. q = [listed EXCEPT !.at = IF left = <<>> THEN "answered" ELSE "total"]
    BY <1>2, <1>3, <2>1, <2>2 DEF NextPoint
  <2> QED
    BY <2>2, <2>3 DEF NewPage
<1>10. q.at \in StagesOf(q.kind) \cup Ended
  BY <1>9 DEF StagesOf, Ended
<1>11. PageShape(q)
  BY <1>1, <1>7, <1>8, <1>9, <1>10 DEF PageShape
<1>12. TrendSound(q)
  BY <1>1, <1>7, <1>9 DEF TrendSound, PointSound
<1> QED
  BY <1>9, <1>11, <1>12, TrendPage

(* What the three counts have in common: the scan in hand and the last      *)
(* point are of the page's project.                                         *)
LEMMA InHand ==
  ASSUME PageSound(page), page.at \in {"total", "new", "gone"}
  PROVE  /\ PageShape(page) /\ TrendSound(page) /\ page.kind = "trends"
         /\ page.from \in Scan
         /\ page.left \in Seq(Listed) /\ page.left # <<>>
         /\ Head(page.left) \in Listed /\ Tail(page.left) \in Seq(Listed)
         /\ Head(page.left) = page.left[1] /\ 1 \in DOMAIN page.left
         /\ Current \in Scan /\ InProject(page.from, Current)
         /\ \A i \in DOMAIN Tail(page.left) :
              i + 1 \in DOMAIN page.left /\ Tail(page.left)[i] = page.left[i + 1]
         /\ page.points \in Seq(Point)
         /\ Len(page.points) \in Nat
         /\ DOMAIN page.points = 1..Len(page.points)
         /\ \A i \in DOMAIN page.points :
              /\ page.points[i] \in Point /\ page.points[i].scan \in Scan
              /\ InProject(page.from, page.points[i].scan)
         /\ page.at \in {"new", "gone"} =>
              /\ LastPoint \in DOMAIN page.points
              /\ LastPoint - 1 \in DOMAIN page.points
              /\ page.points[LastPoint].scan = Current
              /\ Previous \in Scan
<1>1. /\ PageShape(page) /\ TrendSound(page) /\ page.kind = "trends"
      /\ page.from \in Scan
      /\ page.left \in Seq(Listed) /\ page.left # <<>>
      /\ page.points \in Seq(Point)
  BY StagesKinds DEF PageSound, PageShape
<1>2. /\ Head(page.left) \in Listed /\ Tail(page.left) \in Seq(Listed)
      /\ Head(page.left) = page.left[1] /\ 1 \in DOMAIN page.left
  BY <1>1
<1>3. \A i \in DOMAIN Tail(page.left) :
        i + 1 \in DOMAIN page.left /\ Tail(page.left)[i] = page.left[i + 1]
  BY <1>1
<1>4. Current \in Scan /\ InProject(page.from, Current)
  BY <1>1, <1>2 DEF Current, Listed, PageShape
<1>5. /\ Len(page.points) \in Nat /\ DOMAIN page.points = 1..Len(page.points)
      /\ \A i \in DOMAIN page.points :
           /\ page.points[i] \in Point /\ page.points[i].scan \in Scan
           /\ InProject(page.from, page.points[i].scan)
  <2>1. Len(page.points) \in Nat /\ DOMAIN page.points = 1..Len(page.points)
    BY <1>1
  <2>2. \A i \in DOMAIN page.points : page.points[i] \in Point
    BY <1>1
  <2>3. \A pt \in Point : pt.scan \in Scan
    BY DEF Point
  <2>4. \A i \in DOMAIN page.points : InProject(page.from, page.points[i].scan)
    BY <1>1 DEF PageShape
  <2> QED
    BY <2>1, <2>2, <2>3, <2>4
<1>6. page.at \in {"new", "gone"} =>
        /\ LastPoint \in DOMAIN page.points
        /\ LastPoint - 1 \in DOMAIN page.points
        /\ page.points[LastPoint].scan = Current
        /\ Previous \in Scan
  BY <1>1, <1>5 DEF LastPoint, Previous, Current, PageShape
<1> QED
  BY <1>1, <1>2, <1>3, <1>4, <1>5, <1>6

(* NextPoint and the passing on to the next scan.                           *)
LEMMA PassedOn ==
  ASSUME NEW v, NEW q, DOMAIN v = DOMAIN NewPage, q = NextPoint(v)
  PROVE  /\ DOMAIN q = DOMAIN NewPage /\ q.kind = v.kind /\ q.from = v.from
         /\ q.to = v.to /\ q.status = v.status /\ q.left = v.left
         /\ q.points = v.points /\ q.guessed = v.guessed
         /\ q.at = IF v.left = <<>> THEN "answered" ELSE "total"
BY DEF NextPoint, NewPage

(* The total of the scan in hand becomes a point; a first one is finished.  *)
LEMMA TotalPage ==
  ASSUME PageSound(page), page.at = "total", NEW n \in Nat,
         NEW q, q = WithTotal(n)
  PROVE  /\ PageShape(q) /\ q.kind = "trends" /\ q.from = page.from
         /\ q.guessed = page.guessed /\ q.at # "gone"
         /\ Len(q.points) = Len(page.points) + 1
         /\ DOMAIN q.points = 1..(Len(page.points) + 1)
         /\ \A i \in DOMAIN page.points : q.points[i] = page.points[i]
         /\ LET pt == q.points[Len(page.points) + 1]
            IN  /\ pt.scan = Current /\ pt.status = Head(page.left).status
                /\ pt.total = n
                /\ page.points = <<>> => pt.added = n /\ pt.resolved = 0
         /\ q.left = page.left \/ q.left = Tail(page.left)
         /\ page.points # <<>> => q.at = "new"
<1> DEFINE isFirst == page.points = <<>>
           m == Len(page.points) + 1
<1>0. /\ PageShape(page) /\ page.kind = "trends" /\ page.from \in Scan
      /\ page.left \in Seq(Listed) /\ page.left # <<>>
      /\ Head(page.left) \in Listed /\ Tail(page.left) \in Seq(Listed)
      /\ InProject(page.from, Current)
      /\ \A i \in DOMAIN Tail(page.left) :
           i + 1 \in DOMAIN page.left /\ Tail(page.left)[i] = page.left[i + 1]
      /\ page.points \in Seq(Point) /\ Len(page.points) \in Nat
      /\ DOMAIN page.points = 1..Len(page.points)
  BY InHand
<1>1. PICK pt : pt = [scan |-> Current, status |-> Head(page.left).status,
                      total |-> n, added |-> IF isFirst THEN n ELSE 0,
                      resolved |-> 0]
  OBVIOUS
<1>2. /\ pt \in Point /\ pt.scan = Current /\ pt.status = Head(page.left).status
      /\ pt.total = n /\ (isFirst => pt.added = n /\ pt.resolved = 0)
  BY <1>0, <1>1 DEF Listed, Point, Current
<1>3. PICK points : points = Append(page.points, pt)
  OBVIOUS
<1>4. /\ points \in Seq(Point) /\ Len(points) = m /\ DOMAIN points = 1..m
      /\ points[m] = pt
      /\ \A i \in DOMAIN page.points : points[i] = page.points[i]
  BY <1>0, <1>2, <1>3
<1>5. PICK v : v = [page EXCEPT !.points = points]
  OBVIOUS
<1>6. /\ DOMAIN v = DOMAIN NewPage /\ v.kind = page.kind /\ v.from = page.from
      /\ v.to = page.to /\ v.status = page.status /\ v.left = page.left
      /\ v.points = points /\ v.guessed = page.guessed
  BY <1>0, <1>5 DEF PageShape, NewPage
<1>7. q = IF isFirst THEN NextPoint([v EXCEPT !.left = Tail(page.left)])
          ELSE [v EXCEPT !.at = "new"]
  BY <1>1, <1>3, <1>5, <1>6 DEF WithTotal
<1>8. /\ DOMAIN q = DOMAIN NewPage /\ q.kind = "trends" /\ q.from = page.from
      /\ q.to = page.to /\ q.status = page.status /\ q.points = points
      /\ q.guessed = page.guessed
      /\ IF isFirst
           THEN q.left = Tail(page.left)
                /\ q.at = IF q.left = <<>> THEN "answered" ELSE "total"
           ELSE q.left = page.left /\ q.at = "new"
  <2>1. CASE isFirst
    <3>1. PICK w : w = [v EXCEPT !.left = Tail(page.left)]
      OBVIOUS
    <3>2. /\ DOMAIN w = DOMAIN NewPage /\ w.kind = page.kind /\ w.from = page.from
          /\ w.to = page.to /\ w.status = page.status
          /\ w.left = Tail(page.left)
          /\ w.points = points /\ w.guessed = page.guessed
      BY <1>6, <3>1 DEF NewPage
    <3>3. q = NextPoint(w)
      BY <1>7, <2>1, <3>1
    <3> QED
      BY <1>0, <2>1, <3>2, <3>3, PassedOn
  <2>2. CASE ~isFirst
    <3>1. q = [v EXCEPT !.at = "new"]
      BY <1>7, <2>2
    <3> QED
      BY <1>0, <1>6, <2>2, <3>1 DEF NewPage
  <2> QED
    BY <2>1, <2>2
<1>9. /\ q.at \in StagesOf(q.kind) \cup Ended
      /\ q.left \in Seq(Listed)
      /\ \A i \in DOMAIN q.left : InProject(q.from, q.left[i].scan)
  BY <1>0, <1>8 DEF StagesOf, Ended, PageShape
<1>10. \A i \in DOMAIN q.points : InProject(q.from, q.points[i].scan)
  <2>1. \A i \in DOMAIN points : i \in DOMAIN page.points \/ i = m
    BY <1>0, <1>4
  <2> QED
    BY <1>0, <1>2, <1>4, <1>8, <2>1 DEF PageShape
<1>11. ~isFirst => m >= 2
  BY <1>0
<1>12. PageShape(q)
  <2>1. CASE isFirst
    BY <1>0, <1>4, <1>8, <1>9, <1>10, <2>1 DEF PageShape
  <2>2. CASE ~isFirst
    BY <1>0, <1>2, <1>4, <1>8, <1>9, <1>10, <1>11, <2>2 DEF PageShape, Current
  <2> QED
    BY <2>1, <2>2
<1> QED
  BY <1>2, <1>4, <1>8, <1>12

(* The other two counts go into the last point.                             *)
LEMMA LastPointPage ==
  ASSUME PageSound(page), NEW n \in Nat, NEW q,
         \/ page.at = "new" /\ q = WithAdded(n)
         \/ page.at = "gone" /\ q = WithResolved(n)
  PROVE  /\ PageShape(q) /\ q.kind = "trends" /\ q.from = page.from
         /\ q.guessed = page.guessed
         /\ Len(q.points) = Len(page.points)
         /\ DOMAIN q.points = DOMAIN page.points
         /\ \A i \in DOMAIN page.points :
              /\ q.points[i].scan = page.points[i].scan
              /\ q.points[i].status = page.points[i].status
              /\ q.points[i].total = page.points[i].total
              /\ i # LastPoint => q.points[i] = page.points[i]
         /\ page.at = "new" =>
              q.points[LastPoint].added = n /\ q.left = page.left /\ q.at = "gone"
         /\ page.at = "gone" =>
              /\ q.points[LastPoint].added = page.points[LastPoint].added
              /\ q.points[LastPoint].resolved = n
              /\ q.left = Tail(page.left) /\ q.at \in {"total", "answered"}
<1> DEFINE L == LastPoint
<1>0. /\ PageShape(page) /\ page.kind = "trends" /\ page.from \in Scan
      /\ page.left \in Seq(Listed) /\ page.left # <<>>
      /\ Tail(page.left) \in Seq(Listed)
      /\ \A i \in DOMAIN Tail(page.left) :
           i + 1 \in DOMAIN page.left /\ Tail(page.left)[i] = page.left[i + 1]
      /\ page.points \in Seq(Point) /\ Len(page.points) \in Nat
      /\ DOMAIN page.points = 1..Len(page.points)
      /\ \A i \in DOMAIN page.points : page.points[i] \in Point
      /\ L \in DOMAIN page.points /\ page.points[L].scan = Current
      /\ page.at \in {"new", "gone"}
  BY InHand
<1>1. PICK pt : pt = IF page.at = "new" THEN [page.points[L] EXCEPT !.added = n]
                     ELSE [page.points[L] EXCEPT !.resolved = n]
  OBVIOUS
<1>2. /\ pt \in Point /\ pt.scan = page.points[L].scan
      /\ pt.status = page.points[L].status /\ pt.total = page.points[L].total
      /\ page.at = "new" => pt.added = n
      /\ page.at = "gone" => pt.added = page.points[L].added /\ pt.resolved = n
  <2>1. page.points[L] \in Point
    BY <1>0
  <2> QED
    BY <1>0, <1>1, <2>1 DEF Point
<1>3. PICK points : points = [page.points EXCEPT ![L] = pt]
  OBVIOUS
<1>4. /\ points \in Seq(Point) /\ Len(points) = Len(page.points)
      /\ DOMAIN points = DOMAIN page.points /\ points[L] = pt
      /\ \A i \in DOMAIN page.points : i # L => points[i] = page.points[i]
  BY <1>0, <1>2, <1>3
<1>5. PICK v : v = [page EXCEPT !.points = points]
  OBVIOUS
<1>6. /\ DOMAIN v = DOMAIN NewPage /\ v.kind = page.kind /\ v.from = page.from
      /\ v.to = page.to /\ v.status = page.status /\ v.left = page.left
      /\ v.points = points /\ v.guessed = page.guessed
  BY <1>0, <1>5 DEF PageShape, NewPage
<1>7. /\ DOMAIN q = DOMAIN NewPage /\ q.kind = "trends" /\ q.from = page.from
      /\ q.to = page.to /\ q.status = page.status /\ q.points = points
      /\ q.guessed = page.guessed
      /\ page.at = "new" => q.left = page.left /\ q.at = "gone"
      /\ page.at = "gone" => q.left = Tail(page.left)
           /\ q.at = IF q.left = <<>> THEN "answered" ELSE "total"
  <2>1. CASE page.at = "new"
    <3>1. q = [page EXCEPT !.points[L].added = n, !.at = "gone"]
      BY <2>1 DEF WithAdded
    <3>2. q = [v EXCEPT !.at = "gone"]
      BY <1>0, <1>1, <1>3, <1>5, <2>1, <3>1 DEF PageShape, NewPage
    <3> QED
      BY <1>0, <1>6, <2>1, <3>2 DEF NewPage
  <2>2. CASE page.at = "gone"
    <3>1. PICK w : w = [page EXCEPT !.points[L].resolved = n, !.left = Tail(@)]
      OBVIOUS
    <3>2. q = NextPoint(w)
      BY <2>2, <3>1 DEF WithResolved
    <3>3. w = [v EXCEPT !.left = Tail(page.left)]
      BY <1>0, <1>1, <1>3, <1>5, <2>2, <3>1 DEF PageShape, NewPage
    <3>4. /\ DOMAIN w = DOMAIN NewPage /\ w.kind = page.kind /\ w.from = page.from
          /\ w.to = page.to /\ w.status = page.status
          /\ w.left = Tail(page.left)
          /\ w.points = points /\ w.guessed = page.guessed
      BY <1>6, <3>3 DEF NewPage
    <3> QED
      BY <1>0, <2>2, <3>2, <3>4, PassedOn
  <2> QED
    BY <1>0, <2>1, <2>2
<1>8. /\ q.at \in StagesOf(q.kind) \cup Ended
      /\ q.left \in Seq(Listed)
      /\ \A i \in DOMAIN q.left : InProject(q.from, q.left[i].scan)
  BY <1>0, <1>7 DEF StagesOf, Ended, PageShape
<1>9. \A i \in DOMAIN points : points[i].scan = page.points[i].scan
  BY <1>2, <1>4
<1>10. PageShape(q)
  <2>1. /\ q.from \in Scan /\ q.to \in Scan
        /\ q.status \in Seq(ScanRowStatus)
        /\ \A i \in DOMAIN page.points : InProject(page.from, page.points[i].scan)
        /\ page.at \in {"new", "gone"} =>
             /\ Len(page.points) >= 2
             /\ page.points[Len(page.points)].scan = Head(page.left).scan
    BY <1>0, <1>7 DEF PageShape
  <2>2. q.at # "idle"
    BY <1>7, <1>8 DEF StagesOf, Ended
  <2>3. \A i \in DOMAIN q.points : InProject(q.from, q.points[i].scan)
    BY <1>4, <1>7, <1>9, <2>1
  <2>4. q.at \in {"total", "new", "gone"} => q.left # <<>>
    BY <1>0, <1>7
  <2>5. q.at \in {"new", "gone"} =>
          Len(q.points) >= 2 /\ q.points[Len(q.points)].scan = Head(q.left).scan
    <3>1. Len(points) \in DOMAIN points
      BY <1>0, <1>4
    <3>2. points[Len(points)].scan = page.points[Len(page.points)].scan
      BY <1>4, <1>9, <3>1
    <3>3. q.at \in {"new", "gone"} => page.at = "new"
      BY <1>0, <1>7
    <3> QED
      BY <1>0, <1>4, <1>7, <2>1, <3>2, <3>3
  <2> QED
    BY <1>4, <1>7, <1>8, <2>1, <2>2, <2>3, <2>4, <2>5 DEF PageShape
<1> QED
  BY <1>0, <1>2, <1>4, <1>7, <1>10

(* What is listed after the scan in hand was listed before.                 *)
LEMMA PassedLeft ==
  ASSUME NEW left, NEW rest,
         \A i \in DOMAIN rest : i + 1 \in DOMAIN left /\ rest[i] = left[i + 1],
         \A i \in DOMAIN left :
           left[i].status = "completed" => scanStatus[left[i].scan] = "completed"
  PROVE  \A i \in DOMAIN rest :
           rest[i].status = "completed" => scanStatus[rest[i].scan] = "completed"
OBVIOUS

(* The total of a settled scan is the number of what it reported.           *)
LEMMA CountTotalSound ==
  ASSUME HInv, RowInv, PageSound(page), CountTotal, NEW q, q = page'
  PROVE  PageSound(q)
<1> DEFINE L == Len(page.points)
           n == CountFindingsByScanAssoc(Current)
<1>0. /\ page.at = "total" /\ TrendSound(page) /\ Current \in Scan
      /\ page.from \in Scan /\ InProject(page.from, Current)
      /\ page.left \in Seq(Listed)
      /\ Head(page.left) = page.left[1] /\ 1 \in DOMAIN page.left
      /\ \A i \in DOMAIN Tail(page.left) :
           i + 1 \in DOMAIN page.left /\ Tail(page.left)[i] = page.left[i + 1]
      /\ L \in Nat /\ DOMAIN page.points = 1..L
      /\ \A i \in DOMAIN page.points : page.points[i].scan \in Scan
  BY InHand DEF CountTotal
<1>1. n \in Nat /\ 0 \in Nat
  BY <1>0, Counts
<1>2. CASE q = [WithTotal(0) EXCEPT !.guessed = TRUE]
  BY <1>0, <1>1, <1>2, TotalPage, GuessedPage
<1>3. CASE q = WithTotal(n)
  <2>1. /\ PageShape(q) /\ q.kind = "trends" /\ q.from = page.from
        /\ q.guessed = page.guessed /\ q.at # "gone"
        /\ Len(q.points) = L + 1 /\ DOMAIN q.points = 1..(L + 1)
        /\ \A i \in DOMAIN page.points : q.points[i] = page.points[i]
        /\ q.points[L + 1].scan = Current
        /\ q.points[L + 1].status = Head(page.left).status
        /\ q.points[L + 1].total = n
        /\ page.points = <<>> =>
             q.points[L + 1].added = n /\ q.points[L + 1].resolved = 0
        /\ q.left = page.left \/ q.left = Tail(page.left)
        /\ page.points # <<>> => q.at = "new"
    BY <1>0, <1>1, <1>3, TotalPage
  <2>2. ASSUME ~q.guessed, ~ProjectLostAScan(q.from)
        PROVE  /\ \A i \in DOMAIN q.left :
                    q.left[i].status = "completed" =>
                      scanStatus[q.left[i].scan] = "completed"
               /\ AllCompleted(q.points) =>
                    \A i \in DOMAIN q.points :
                      scanStatus[q.points[i].scan] = "completed" /\ PointSound(q, i)
    <3>1. /\ \A i \in DOMAIN page.left :
               page.left[i].status = "completed" =>
                 scanStatus[page.left[i].scan] = "completed"
          /\ AllCompleted(page.points) =>
               \A i \in DOMAIN page.points :
                 scanStatus[page.points[i].scan] = "completed" /\ PointSound(page, i)
      BY <1>0, <2>1, <2>2 DEF TrendSound
    <3>2. \A i \in DOMAIN q.left :
            q.left[i].status = "completed" =>
              scanStatus[q.left[i].scan] = "completed"
      <4>1. CASE q.left = page.left
        BY <3>1, <4>1
      <4>2. CASE q.left = Tail(page.left)
        BY <1>0, <3>1, <4>2, PassedLeft
      <4> QED
        BY <1>0, <2>1, <4>1, <4>2
    <3>3. ASSUME AllCompleted(q.points), NEW i \in DOMAIN q.points
          PROVE  scanStatus[q.points[i].scan] = "completed" /\ PointSound(q, i)
      <4>0. /\ L + 1 \in DOMAIN q.points
            /\ \A j \in DOMAIN page.points : j \in DOMAIN q.points
            /\ \A j \in DOMAIN q.points : j # L + 1 => j \in DOMAIN page.points
            /\ \A j \in DOMAIN page.points : j # 1 => j - 1 \in DOMAIN page.points
        <5> HIDE DEF L
        <5>1. /\ L \in Nat /\ DOMAIN page.points = 1..L
              /\ DOMAIN q.points = 1..(L + 1)
          BY <1>0, <2>1 DEF L
        <5> QED
          BY <5>1
      <4>1. AllCompleted(page.points) /\ q.points[L + 1].status = "completed"
        BY <2>1, <3>3, <4>0 DEF AllCompleted
      <4>2. CASE i # L + 1
        <5>1. /\ i \in DOMAIN page.points /\ q.points[i] = page.points[i]
              /\ i # 1 => q.points[i - 1] = page.points[i - 1]
          BY <2>1, <4>0, <4>2
        <5>2. PointSound(page, i) /\ scanStatus[page.points[i].scan] = "completed"
          BY <3>1, <4>1, <5>1
        <5>3. /\ q.points[i].total = Cardinality(Reported(q.points[i].scan))
              /\ q.points[i].total + q.points[i].resolved = q.points[i].added +
                   (IF i = 1 THEN 0 ELSE q.points[i - 1].total)
          BY <1>0, <5>1, <5>2 DEF PointSound
        <5> QED
          BY <2>1, <5>1, <5>2, <5>3 DEF PointSound
      <4>3. CASE i = L + 1
        <5>1. scanStatus[Current] = "completed"
          BY <1>0, <2>1, <3>1, <4>1 DEF Current
        <5>2. Settled(Current)
          BY <1>0, <2>1, <2>2, <5>1, SameLoss DEF Settled
        <5>3. n = Cardinality(Reported(Current))
          BY <1>0, <5>2, Counts
        <5>4. CASE page.points = <<>>
          <6>1. L = 0 /\ i = 1
            BY <4>3, <5>4
          <6> QED
            BY <1>1, <2>1, <5>1, <5>3, <5>4, <6>1 DEF PointSound
        <5>5. CASE page.points # <<>>
          BY <2>1, <4>3, <5>1, <5>3, <5>5 DEF PointSound
        <5> QED
          BY <5>4, <5>5
      <4> QED
        BY <4>2, <4>3
    <3> QED
      BY <3>2, <3>3
  <2>3. TrendSound(q)
    BY <2>2 DEF TrendSound
  <2> QED
    BY <2>1, <2>3, TrendPage
<1> QED
  BY <1>2, <1>3 DEF CountTotal, Counted

(* What only the scan in hand has, or only the one before it.               *)
LEMMA CountChangeSound ==
  ASSUME HInv, RowInv, PageSound(page), CountNew \/ CountGone, NEW q, q = page'
  PROVE  PageSound(q)
<1> DEFINE L == LastPoint
           n == IF page.at = "new" THEN CountFindingsOnlyInScan(Current, Previous)
                ELSE CountFindingsOnlyInScan(Previous, Current)
<1>0. /\ page.at \in {"new", "gone"} /\ TrendSound(page)
      /\ Current \in Scan /\ Previous \in Scan
      /\ page.from \in Scan /\ InProject(page.from, Current)
      /\ page.left \in Seq(Listed)
      /\ \A i \in DOMAIN Tail(page.left) :
           i + 1 \in DOMAIN page.left /\ Tail(page.left)[i] = page.left[i + 1]
      /\ Len(page.points) \in Nat /\ DOMAIN page.points = 1..Len(page.points)
      /\ \A i \in DOMAIN page.points :
           page.points[i] \in Point /\ InProject(page.from, page.points[i].scan)
      /\ L \in DOMAIN page.points /\ L - 1 \in DOMAIN page.points
      /\ page.points[L].scan = Current
  BY InHand DEF CountNew, CountGone
<1>1. n \in Nat /\ 0 \in Nat
  BY <1>0, Counts
<1>2. \/ /\ page.at = "new"
         /\ q = WithAdded(n) \/ q = [WithAdded(0) EXCEPT !.guessed = TRUE]
      \/ /\ page.at = "gone"
         /\ q = WithResolved(n) \/ q = [WithResolved(0) EXCEPT !.guessed = TRUE]
  BY DEF CountNew, CountGone, Counted
<1>3. CASE \/ page.at = "new" /\ q = [WithAdded(0) EXCEPT !.guessed = TRUE]
           \/ page.at = "gone" /\ q = [WithResolved(0) EXCEPT !.guessed = TRUE]
  BY <1>1, <1>3, LastPointPage, GuessedPage
<1>4. CASE \/ page.at = "new" /\ q = WithAdded(n)
           \/ page.at = "gone" /\ q = WithResolved(n)
  <2>1. /\ PageShape(q) /\ q.kind = "trends" /\ q.from = page.from
        /\ q.guessed = page.guessed
        /\ Len(q.points) = Len(page.points) /\ DOMAIN q.points = DOMAIN page.points
        /\ \A i \in DOMAIN page.points :
             /\ q.points[i].scan = page.points[i].scan
             /\ q.points[i].status = page.points[i].status
             /\ q.points[i].total = page.points[i].total
             /\ i # L => q.points[i] = page.points[i]
        /\ page.at = "new" =>
             q.points[L].added = n /\ q.left = page.left /\ q.at = "gone"
        /\ page.at = "gone" =>
             /\ q.points[L].added = page.points[L].added
             /\ q.points[L].resolved = n
             /\ q.left = Tail(page.left) /\ q.at \in {"total", "answered"}
    BY <1>1, <1>4, LastPointPage
  <2>2. ASSUME ~q.guessed, ~ProjectLostAScan(q.from)
        PROVE  /\ \A i \in DOMAIN q.left :
                    q.left[i].status = "completed" =>
                      scanStatus[q.left[i].scan] = "completed"
               /\ AllCompleted(q.points) =>
                    \A i \in DOMAIN q.points :
                      scanStatus[q.points[i].scan] = "completed" /\ PointSound(q, i)
    <3>1. /\ \A i \in DOMAIN page.left :
               page.left[i].status = "completed" =>
                 scanStatus[page.left[i].scan] = "completed"
          /\ AllCompleted(page.points) =>
               \A i \in DOMAIN page.points :
                 scanStatus[page.points[i].scan] = "completed" /\ PointSound(page, i)
      BY <1>0, <2>1, <2>2 DEF TrendSound
    <3>2. \A i \in DOMAIN q.left :
            q.left[i].status = "completed" =>
              scanStatus[q.left[i].scan] = "completed"
      <4>1. CASE q.left = page.left
        BY <3>1, <4>1
      <4>2. CASE q.left = Tail(page.left)
        BY <1>0, <3>1, <4>2, PassedLeft
      <4> QED
        BY <1>0, <2>1, <4>1, <4>2
    <3>3. ASSUME AllCompleted(q.points), NEW i \in DOMAIN q.points
          PROVE  scanStatus[q.points[i].scan] = "completed" /\ PointSound(q, i)
      <4>1. \A j \in DOMAIN page.points :
              /\ scanStatus[page.points[j].scan] = "completed" /\ PointSound(page, j)
              /\ Settled(page.points[j].scan)
        <5>1. AllCompleted(page.points)
          BY <2>1, <3>3 DEF AllCompleted
        <5>2. \A j \in DOMAIN page.points : ~ProjectLostAScan(page.points[j].scan)
          BY <1>0, <2>1, <2>2, SameLoss
        <5> QED
          BY <3>1, <5>1, <5>2 DEF Settled
      <4>2. i \in DOMAIN page.points /\ scanStatus[q.points[i].scan] = "completed"
        BY <2>1, <4>1
      <4>3. CASE i # L
        <5>1. /\ q.points[i] = page.points[i]
              /\ i # 1 => i - 1 \in DOMAIN page.points
              /\ i # 1 => q.points[i - 1].total = page.points[i - 1].total
          BY <1>0, <2>1, <4>2, <4>3
        <5>2. /\ q.points[i].total = Cardinality(Reported(q.points[i].scan))
              /\ q.points[i].total + q.points[i].resolved = q.points[i].added +
                   (IF i = 1 THEN 0 ELSE q.points[i - 1].total)
          BY <4>1, <4>2, <4>3, <5>1 DEF PointSound, LastPoint
        <5> QED
          BY <2>1, <4>2, <4>3, <5>2 DEF PointSound, LastPoint
      <4>4. CASE i = L
        <5> DEFINE now == Reported(Current)
                   before == Reported(Previous)
        <5>1. /\ Settled(Current) /\ Settled(Previous)
              /\ page.points[L].scan = Current /\ page.points[L - 1].scan = Previous
              /\ q.points[L].scan = Current /\ q.points[L - 1].scan = Previous
          BY <1>0, <2>1, <4>1 DEF Previous
        <5>2. /\ q.points[L].total = Cardinality(now)
              /\ q.points[L - 1].total = Cardinality(before)
          BY <1>0, <2>1, <4>1, <5>1 DEF PointSound
        <5>3. n = IF page.at = "new" THEN Cardinality(now \ before)
                  ELSE Cardinality(before \ now)
          BY <1>0, <5>1, Counts
        <5>4. CASE page.at = "new"
          BY <2>1, <4>2, <4>4, <5>1, <5>2, <5>3, <5>4 DEF PointSound, LastPoint
        <5>5. CASE page.at = "gone"
          <6>1. q.points[L].added = Cardinality(now \ before)
            BY <1>0, <2>1, <4>1, <5>1, <5>5 DEF PointSound, LastPoint
          <6>2. q.points[L].resolved = Cardinality(before \ now)
            BY <2>1, <5>3, <5>5
          <6>3. IsFiniteSet(now) /\ IsFiniteSet(before)
            BY <1>0 DEF RowInv, Reported
          <6>4. q.points[L].total + q.points[L].resolved =
                  q.points[L].added + q.points[L - 1].total
            BY <5>2, <6>1, <6>2, <6>3, Difference
          <6>5. L # 1
            BY <1>0
          <6> QED
            BY <2>1, <4>2, <4>4, <5>1, <5>2, <5>5, <6>4, <6>5
            DEF PointSound, LastPoint
        <5> QED
          BY <1>0, <5>4, <5>5
      <4> QED
        BY <4>3, <4>4
    <3> QED
      BY <3>2, <3>3
  <2>3. TrendSound(q)
    BY <2>2 DEF TrendSound
  <2> QED
    BY <2>1, <2>3, TrendPage
<1> QED
  BY <1>2, <1>3, <1>4

----------------------------------------------------------------------------
(* The theorems *)

LEMMA ReadStep ==
  ASSUME PageInv, Read \/ \E r \in Requests : Request(r[1], r[2], r[3])
  PROVE  PageInv'
<1>1. HInv /\ RowInv /\ PageSound(page)
  BY DEF PageInv
<1>2. UNCHANGED vars
  BY DEF Read, Request, ReadFrom, ReadTo, ReadFails, ReadRuns, ReadObserved,
         ReadAdded, ReadRemoved, ReadCommon, ReadProject, ReadScans,
         CountTotal, CountNew, CountGone, Counted, ReadAt
<1>3. HInv' /\ RowInv'
  BY <1>1, <1>2, HistoryInductive, RowStep
<1>4. PICK q : q = page'
  OBVIOUS
<1>5. PageSound(q)
  <2>1. CASE \E r \in Requests : Request(r[1], r[2], r[3])
    BY <1>1, <1>4, <2>1, RequestMade
  <2>2. CASE Read
    BY <1>1, <1>4, <2>2, StatementFailed, FromRead, ToRead, RunsRead,
       ObservedRead, DiffRead, ProjectRead, ScansRead, CountTotalSound,
       CountChangeSound
    DEF Read
  <2> QED
    BY <2>1, <2>2
<1>6. /\ PageShape(q)' /\ WholeSound(q)' /\ DiffSound(q)'
      /\ SparedSound(q)' /\ TrendSound(q)'
  <2>1. /\ PageShape(q) /\ WholeSound(q) /\ DiffSound(q)
        /\ SparedSound(q) /\ TrendSound(q)
    BY <1>5 DEF PageSound
  <2> QED
    BY <1>1, <1>2, <1>3, <2>1, WholeKept, DiffKept, SparedKept, TrendKept
    DEF PageShape, InProject
<1> QED
  BY <1>3, <1>4, <1>6 DEF PageInv, PageSound

LEMMA PageInductive == PageInv /\ [ReadNext]_readVars => PageInv'
<1> SUFFICES ASSUME PageInv, [ReadNext]_readVars PROVE PageInv'
  OBVIOUS
<1>1. CASE Next /\ UNCHANGED page
  <2>1. HInv /\ RowInv /\ PageSound(page)
    BY DEF PageInv
  <2>2. HInv'
    BY <1>1, <2>1, HistoryInductive
  <2>3. RowInv'
    BY <1>1, <2>1, <2>2, RowStep
  <2> QED
    BY <1>1, <2>1, <2>2, <2>3, PageKept DEF PageInv
<1>2. CASE Read \/ \E r \in Requests : Request(r[1], r[2], r[3])
  BY <1>2, ReadStep
<1>3. CASE UNCHANGED readVars
  <2>1. UNCHANGED vars /\ UNCHANGED page
    BY <1>3 DEF readVars
  <2>2. HInv /\ RowInv /\ PageSound(page)
    BY DEF PageInv
  <2>3. HInv' /\ RowInv'
    BY <2>1, <2>2, HistoryInductive, RowStep
  <2>4. PICK q : q = page
    OBVIOUS
  <2>5. /\ PageShape(q) /\ WholeSound(q) /\ DiffSound(q)
        /\ SparedSound(q) /\ TrendSound(q)
    BY <2>2, <2>4 DEF PageSound
  <2>6. /\ PageShape(q)' /\ WholeSound(q)' /\ DiffSound(q)'
        /\ SparedSound(q)' /\ TrendSound(q)'
    BY <2>1, <2>2, <2>3, <2>5, WholeKept, DiffKept, SparedKept, TrendKept
    DEF PageShape, InProject
  <2> QED
    BY <2>1, <2>3, <2>4, <2>6 DEF PageInv, PageSound
<1> QED
  BY <1>1, <1>2, <1>3 DEF ReadNext

(* Every page holds what the queries of the stages it has gone past         *)
(* computed, and that still is what the scans it calls completed reported.  *)
THEOREM PagesSound == ReadSpec => []PageInv
<1>1. Init => HInv /\ RowInv
  BY InitInv, PlaceInit, PlanInit, ErrorInit, LatestInit, HistoryInit, EventInit,
     RowInit
  DEF HInv
<1>2. ReadInit => PageInv
  BY <1>1, PageInit DEF PageInv, ReadInit
<1> QED
  BY <1>2, PageInductive, PTL DEF ReadSpec

(* A detail page or report that shows a scan as completed shows a run for   *)
(* each engine of its plan and all they reported: it reads the status       *)
(* before the rows, and the worker writes it after them.                    *)
THEOREM CompletedShownWhole == ReadSpec => []CompletedIsShownWhole
<1>1. PageInv => CompletedIsShownWhole
  BY DEF PageInv, PageSound, WholeSound, Tells, RunsShown, PlanOf, Reported,
         CompletedIsShownWhole, Answered, SaysCompleted
<1> QED
  BY <1>1, PagesSound, PTL

(* A diff of two scans it shows as completed is the difference of what      *)
(* their engines reported, though three statements compute it; and when     *)
(* another scan is deleted under it, nothing that both reported passes for  *)
(* new or resolved.                                                         *)
THEOREM DiffsExact == ReadSpec => []DiffIsExact
<1>1. ASSUME PageInv, Answered({"diff"}), SaysCompleted
      PROVE  DiffIsExact
  <2>1. DiffSound(page) /\ SparedSound(page) /\ page.at = "answered"
    BY <1>1 DEF PageInv, PageSound, Answered
  <2>2. ~ProjectLostAScan(page.from) =>
          /\ page.added = Reported(page.to) \ Reported(page.from)
          /\ page.removed = Reported(page.from) \ Reported(page.to)
          /\ page.common = Cardinality(Reported(page.from) \cap Reported(page.to))
    BY <1>1, <2>1 DEF DiffSound, Tells, Answered, SaysCompleted
  <2>3. page.intact /\ Present(page.from) /\ Present(page.to) =>
          /\ page.added \subseteq Reported(page.to) \ Reported(page.from)
          /\ page.removed \subseteq Reported(page.from) \ Reported(page.to)
          /\ page.common <= Cardinality(Reported(page.from) \cap Reported(page.to))
    BY <1>1, <2>1 DEF SparedSound, Comparing, Answered, SaysCompleted
  <2> QED
    BY <2>2, <2>3 DEF DiffIsExact, Reported
<1>2. PageInv => DiffIsExact
  BY <1>1 DEF DiffIsExact
<1> QED
  BY <1>2, PagesSound, PTL

(* The points of a trend of completed scans add up: a total is the one      *)
(* before it, less what was resolved, with what is new.                     *)
THEOREM TrendsDoAddUp == ReadSpec => []TrendsAddUp
<1>1. ASSUME PageInv, Answered({"trends"}), ~page.guessed,
             ~ProjectLostAScan(page.from), AllCompleted(page.points),
             NEW i \in DOMAIN page.points
      PROVE  LET pt == page.points[i] IN
             /\ pt.total = Cardinality(task[pt.scan].reported)
             /\ pt.total + pt.resolved =
                  pt.added + (IF i = 1 THEN 0 ELSE page.points[i - 1].total)
  <2>1. page.at = "answered" /\ TrendSound(page)
    BY <1>1 DEF Answered, PageInv, PageSound
  <2>2. PointSound(page, i)
    BY <1>1, <2>1 DEF TrendSound
  <2> QED
    BY <2>1, <2>2 DEF PointSound, Reported
<1>2. PageInv => TrendsAddUp
  BY <1>1 DEF TrendsAddUp, AllCompleted
<1> QED
  BY <1>2, PagesSound, PTL
=============================================================================
