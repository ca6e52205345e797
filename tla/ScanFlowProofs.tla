--------------------------- MODULE ScanFlowProofs ---------------------------
(***************************************************************************)
(* What ScanFlow guarantees for every set of scans, projects and hashes,   *)
(* every job and every output of the engines.                              *)
(***************************************************************************)
EXTENDS ScanFlow, TLAPS

----------------------------------------------------------------------------
(* Types *)

(* A worker stays one when the fields that say where it is are set. *)
LEMMA TaskMoves ==
  ASSUME NEW t \in Task, NEW pc \in PC, NEW pos \in Nat,
         NEW out \in Seq(Hash), NEW row \in FindingId \cup {NoRow}
  PROVE  /\ [t EXCEPT !.pc = pc] \in Task
         /\ [t EXCEPT !.pc = pc, !.row = row] \in Task
         /\ [t EXCEPT !.pc = pc, !.out = out, !.row = row] \in Task
         /\ [t EXCEPT !.pc = pc, !.pos = pos, !.out = out, !.row = row] \in Task
  BY DEF Task

(* A worker past an engine is a worker at the next engine of its plan or    *)
(* past them all (the end of runEngine and the loop around it).             *)
LEMMA AfterEngineType ==
  ASSUME NEW s \in Scan, NEW t \in Task
  PROVE  /\ AfterEngine(s, t) \in Task
         /\ AfterEngine(s, t).pc \in {"engine", "sbom", "finish"}
         /\ AfterEngine(s, t).pos \in {t.pos, t.pos + 1}
         /\ AfterEngine(s, t).pc = "engine" =>
              AfterEngine(s, t).pos = t.pos + 1
<1>1. AfterEngines(s) \in PC /\ "engine" \in PC
  BY DEF AfterEngines, PC
<1>2. /\ <<>> \in Seq(Hash)
      /\ NoRow \in FindingId \cup {NoRow}
      /\ t.pos + 1 \in Nat
  BY DEF Task
<1>3. [t EXCEPT !.pc = AfterEngines(s), !.out = <<>>, !.row = NoRow] \in Task
  BY <1>1, <1>2, TaskMoves
<1>4. [t EXCEPT !.pc = "engine", !.pos = @ + 1, !.out = <<>>, !.row = NoRow]
        \in Task
  BY <1>1, <1>2, TaskMoves
<1>5. AfterEngine(s, t) \in Task
  BY <1>3, <1>4 DEF AfterEngine
<1>6. AfterEngine(s, t).pc \in {"engine", "sbom", "finish"}
  BY DEF AfterEngine, AfterEngines, Task
<1>7. /\ AfterEngine(s, t).pos \in {t.pos, t.pos + 1}
      /\ AfterEngine(s, t).pc = "engine" => AfterEngine(s, t).pos = t.pos + 1
  BY DEF AfterEngine, AfterEngines, Task
<1> QED
  BY <1>5, <1>6, <1>7

(* What runEngine adds to result keeps it one. *)
LEMMA ResultType ==
  ASSUME NEW t \in Task
  PROVE  /\ Started(t) \in Task
         /\ \A e \in {"engine", "store"} :
              WithErr(t, e) \in Task /\ WithErr(Started(t), e) \in Task
         /\ [t EXCEPT !.skipped = @ \cup {t.pos}] \in Task
<1>1. t.ran + 1 \in Nat /\ t.skipped \cup {t.pos} \in SUBSET Nat
  BY DEF Task
<1>2. Started(t) \in Task
  BY <1>1 DEF Started, Task
<1>3. ASSUME NEW u \in Task, NEW e \in {"engine", "store"}
      PROVE  WithErr(u, e) \in Task
  BY DEF WithErr, Task
<1>4. [t EXCEPT !.skipped = @ \cup {t.pos}] \in Task
  BY <1>1 DEF Task
<1> QED
  BY <1>2, <1>3, <1>4

(* The initial state is well typed. *)
LEMMA InitTypeOK == Init => TypeOK
<1> SUFFICES ASSUME Init PROVE TypeOK
  OBVIOUS
<1>1. NewTask \in Task
  <2>1. <<>> \in Seq(Hash) /\ NoRow \in FindingId \cup {NoRow}
    OBVIOUS
  <2> QED
    BY <2>1 DEF NewTask, Task, PC
<1>2. StoreTypeOK
  BY DEF Init, StoreInit, StoreTypeOK
<1>3. 0 \in 0..MaxFaults
  BY MaxFaultsAssumption
<1> QED
  BY <1>1, <1>2, <1>3 DEF Init, TypeOK

(* The statements keep the tables well typed. *)
LEMMA StatementTypes ==
  ASSUME StoreTypeOK, NEW s \in Scan, NEW p \in Project
  PROVE  /\ UpsertProject(p) => StoreTypeOK'
         /\ CreateScan(s) => StoreTypeOK'
         /\ \A v \in ScanRowStatus : UpdateScanStatus(s, v) => StoreTypeOK'
         /\ \A S : ReapStaleRunningScans(S) => StoreTypeOK'
         /\ DeleteScan(s) => StoreTypeOK'
         /\ \A run \in RunId, v \in RunStatus :
              CreateEngineRun(run, v) => StoreTypeOK'
         /\ \A f \in Finding : UpsertFinding(f) => StoreTypeOK'
         /\ \A a \in ScanFinding : CreateScanFinding(a) => StoreTypeOK'
         /\ \A id, v \in FindingStatus :
              UpdateFindingStatus(id, v) => StoreTypeOK'
         /\ CreateArtifact(s) => StoreTypeOK'
<1> USE DEF StoreTypeOK
<1>1. UpsertProject(p) => StoreTypeOK'
  BY DEF UpsertProject
<1>2. CreateScan(s) => StoreTypeOK'
  BY DEF CreateScan, ScanRowStatus
<1>3. \A v \in ScanRowStatus : UpdateScanStatus(s, v) => StoreTypeOK'
  BY DEF UpdateScanStatus
<1>4. \A S : ReapStaleRunningScans(S) => StoreTypeOK'
  BY DEF ReapStaleRunningScans, ScanRowStatus
<1>5. DeleteScan(s) => StoreTypeOK'
  BY DEF DeleteScan
<1>6. \A run \in RunId, v \in RunStatus : CreateEngineRun(run, v) => StoreTypeOK'
  BY DEF CreateEngineRun, EngineRun
<1>7. \A f \in Finding : UpsertFinding(f) => StoreTypeOK'
  <2> SUFFICES ASSUME NEW f \in Finding, UpsertFinding(f)
               PROVE  findings' \subseteq Finding
    BY DEF UpsertFinding
  <2>1. SameFinding(f) \subseteq findings
    BY DEF SameFinding
  <2>2. \A g \in Finding : Merged(g, f) \in Finding
    BY DEF Merged, Finding, Refreshed, FindingStatus
  <2>3. {Merged(g, f) : g \in SameFinding(f)} \subseteq Finding
    BY <2>1, <2>2
  <2> QED
    BY <2>3 DEF UpsertFinding
<1>8. \A a \in ScanFinding : CreateScanFinding(a) => StoreTypeOK'
  BY DEF CreateScanFinding
<1>9. \A id, v \in FindingStatus : UpdateFindingStatus(id, v) => StoreTypeOK'
  BY DEF UpdateFindingStatus, Finding
<1>10. CreateArtifact(s) => StoreTypeOK'
  BY DEF CreateArtifact
<1> QED
  BY <1>1, <1>2, <1>3, <1>4, <1>5, <1>6, <1>7, <1>8, <1>9, <1>10

(* Setting one worker, and publishing an event of it, keep the types. *)
LEMMA StepTypes ==
  ASSUME TypeOK, NEW s \in Scan
  PROVE  /\ task[s] \in Task /\ task[s].pos \in Nat /\ Run(s) \in RunId
         /\ \A u \in Task : Goto(s, u) => task' \in [Scan -> Task]
         /\ \A pos \in Nat, v \in RunStatus :
              Emit(s, pos, v) => events' \subseteq Event
         /\ (UNCHANGED faults \/ Fault) => faults' \in 0..MaxFaults
<1>1. task[s] \in Task /\ task[s].pos \in Nat
  BY DEF TypeOK, Task
<1>2. Run(s) \in RunId
  BY <1>1 DEF Run, RunId
<1>3. \A u \in Task : Goto(s, u) => task' \in [Scan -> Task]
  BY DEF TypeOK, Goto
<1>4. \A pos \in Nat, v \in RunStatus :
        Emit(s, pos, v) => events' \subseteq Event
  BY DEF TypeOK, Emit, Event
<1>5. (UNCHANGED faults \/ Fault) => faults' \in 0..MaxFaults
  BY MaxFaultsAssumption DEF TypeOK, Fault
<1> QED
  BY <1>1, <1>2, <1>3, <1>4, <1>5

(* beginScan and runEngine up to the storing of findings. *)
LEMMA EngineStepTypes ==
  ASSUME TypeOK, NEW s \in Scan,
         \/ BeginProject(s) \/ BeginFails(s) \/ BeginScan(s)
         \/ SkipEngine(s) \/ EngineFails(s) \/ EngineUnparsable(s)
         \/ \E report \in Reports : EngineReports(s, report)
         \/ EngineNotRecorded(s)
  PROVE  TypeOK'
<1> DEFINE t == task[s]
<1>t. /\ t \in Task /\ t.pos \in Nat /\ Run(s) \in RunId
      /\ \A u \in Task : Goto(s, u) => task' \in [Scan -> Task]
      /\ \A pos \in Nat, v \in RunStatus :
           Emit(s, pos, v) => events' \subseteq Event
      /\ (UNCHANGED faults \/ Fault) => faults' \in 0..MaxFaults
  BY StepTypes
<1>u. UNCHANGED storeVars => StoreTypeOK'
  BY DEF TypeOK, StoreTypeOK, storeVars
<1>v. StoreTypeOK
  BY DEF TypeOK
<1>w. ProjectOf[s] \in Project
  BY ProjectOfAssumption
<1>x. \A pc \in PC : [t EXCEPT !.pc = pc] \in Task
  BY <1>t DEF Task
<1> HIDE DEF t
<1>1. CASE BeginProject(s)
  <2>1. [t EXCEPT !.pc = "project"] \in Task
    BY <1>x DEF PC
  <2>2. task' \in [Scan -> Task]
    BY <2>1, <1>t, <1>1 DEF BeginProject, t
  <2>3. StoreTypeOK'
    BY <1>v, <1>w, <1>1, StatementTypes DEF BeginProject
  <2> QED
    BY <2>2, <2>3, <1>1 DEF BeginProject, TypeOK
<1>2. CASE BeginFails(s)
  <2>1. [t EXCEPT !.pc = "refused"] \in Task
    BY <1>x DEF PC
  <2> QED
    BY <2>1, <1>t, <1>u, <1>2 DEF BeginFails, TypeOK, t
<1>3. CASE BeginScan(s)
  <2>1. PICK pc \in {"sbom", "finish", "engine"} :
          Goto(s, [t EXCEPT !.pc = pc])
    BY <1>3 DEF BeginScan, AfterEngines, t
  <2>2. [t EXCEPT !.pc = pc] \in Task
    BY <1>x DEF PC
  <2>3. StoreTypeOK'
    BY <1>v, <1>w, <1>3, StatementTypes DEF BeginScan
  <2> QED
    BY <2>1, <2>2, <2>3, <1>t, <1>3 DEF BeginScan, TypeOK
<1>4. CASE SkipEngine(s)
  <2>1. AfterEngine(s, [t EXCEPT !.skipped = @ \cup {t.pos}]) \in Task
    BY <1>t, ResultType, AfterEngineType
  <2>2. StoreTypeOK'
    BY <1>t, <1>u, <1>v, <1>w, <1>4, StatementTypes DEF SkipEngine, RunStatus
  <2>3. events' \subseteq Event
    BY <1>t, <1>4 DEF SkipEngine, RunStatus, t
  <2> QED
    BY <2>1, <2>2, <2>3, <1>t, <1>4 DEF SkipEngine, TypeOK, t
<1>5. CASE EngineFails(s)
  <2>1. AfterEngine(s, WithErr(Started(t), "engine")) \in Task
    BY <1>t, ResultType, AfterEngineType
  <2>2. StoreTypeOK'
    BY <1>t, <1>v, <1>w, <1>5, StatementTypes DEF EngineFails, RunStatus
  <2>3. events' \subseteq Event
    BY <1>t, <1>5 DEF EngineFails, RunStatus, t
  <2> QED
    BY <2>1, <2>2, <2>3, <1>t, <1>5 DEF EngineFails, TypeOK, t
<1>6. CASE EngineUnparsable(s)
  <2>1. AfterEngine(s, WithErr(Started(t), "engine")) \in Task
    BY <1>t, ResultType, AfterEngineType
  <2>2. StoreTypeOK'
    BY <1>t, <1>v, <1>w, <1>6, StatementTypes DEF EngineUnparsable, RunStatus
  <2> QED
    BY <2>1, <2>2, <1>t, <1>6 DEF EngineUnparsable, TypeOK, t
<1>7. ASSUME NEW report \in Reports, EngineReports(s, report)
      PROVE  TypeOK'
  <2> DEFINE u == [Started(t) EXCEPT
                     !.pc = "upsert", !.out = report,
                     !.reported = @ \cup {report[i] : i \in DOMAIN report}]
  <2>1. AfterEngine(s, Started(t)) \in Task
    BY <1>t, ResultType, AfterEngineType
  <2>2. u \in Task
    <3>1. report \in Seq(Hash)
      BY ReportsAssumption
    <3>2. {report[i] : i \in DOMAIN report} \subseteq Hash
      BY <3>1
    <3>3. Started(t) \in Task
      BY <1>t, ResultType
    <3> QED
      BY <3>1, <3>2, <3>3 DEF Task, PC
  <2>3. StoreTypeOK'
    BY <1>t, <1>v, <1>w, <1>7, StatementTypes DEF EngineReports, RunStatus
  <2>4. events' \subseteq Event
    BY <1>t, <1>7 DEF EngineReports, RunStatus, TypeOK, t
  <2>5. task' \in [Scan -> Task]
    BY <2>1, <2>2, <1>t, <1>7 DEF EngineReports, t
  <2> QED
    BY <2>3, <2>4, <2>5, <1>7 DEF EngineReports, TypeOK
<1>8. CASE EngineNotRecorded(s)
  <2>1. AfterEngine(s, WithErr(Started(t), "store")) \in Task
    BY <1>t, ResultType, AfterEngineType
  <2> QED
    BY <2>1, <1>t, <1>u, <1>8 DEF EngineNotRecorded, TypeOK, t
<1> QED
  BY <1>1, <1>2, <1>3, <1>4, <1>5, <1>6, <1>7, <1>8

(* The invariant that is inductive: the tables' consistency needs that of   *)
(* the keys the workers hold and hand out, and both need the types.         *)
IInv ==
  /\ TypeOK
  /\ RowsConsistent
  /\ OneRowPerKey
  /\ WorkersKnowTheirRows

(* A nonempty output has a first element and a shorter rest. *)
LEMMA HeadAndTail ==
  ASSUME NEW q \in Seq(Hash), q # <<>>
  PROVE  /\ Head(q) \in Hash /\ Tail(q) \in Seq(Hash)
         /\ Len(q) \in Nat /\ Len(q) > 0 /\ Len(Tail(q)) = Len(q) - 1
  OBVIOUS

(* The storing of findings. *)
LEMMA StoringStepTypes ==
  ASSUME IInv, NEW s \in Scan,
         \/ RecordFinding(s) \/ FindingNotRecorded(s)
         \/ AssociateFinding(s) \/ AssociationFails(s)
  PROVE  /\ TypeOK'
         /\ RecordFinding(s) => NextFinding(s) \in Finding
         /\ AssociateFinding(s) => NextObservation(s) \in ScanFinding
<1> DEFINE t == task[s]
<1>t. /\ t \in Task /\ t.pos \in Nat /\ Run(s) \in RunId
      /\ \A u \in Task : Goto(s, u) => task' \in [Scan -> Task]
      /\ \A pos \in Nat, v \in RunStatus :
           Emit(s, pos, v) => events' \subseteq Event
      /\ (UNCHANGED faults \/ Fault) => faults' \in 0..MaxFaults
  BY StepTypes DEF IInv
<1>u. UNCHANGED storeVars => StoreTypeOK'
  BY DEF IInv, TypeOK, StoreTypeOK, storeVars
<1>v. StoreTypeOK /\ ProjectOf[s] \in Project
  BY ProjectOfAssumption DEF IInv, TypeOK
<1>w. t.pc \in {"upsert", "assoc"}
  BY DEF RecordFinding, FindingNotRecorded, AssociateFinding,
         AssociationFails, At
<1>x. /\ t.out \in Seq(Hash) /\ t.out # <<>>
      /\ Head(t.out) \in Hash /\ Tail(t.out) \in Seq(Hash) /\ Len(t.out) \in Nat
  <2>1. t.out \in Seq(Hash) /\ t.out # <<>>
    BY <1>t, <1>w DEF IInv, WorkersKnowTheirRows, Task
  <2> QED
    BY <2>1, HeadAndTail
<1>y. t.pc = "assoc" => t.row \in FindingId
  BY DEF IInv, WorkersKnowTheirRows
<1>1. CASE RecordFinding(s)
  <2>1. NextFinding(s) \in Finding
    BY <1>t, <1>v, <1>x
    DEF NextFinding, Finding, FindingId, FindingStatus
  <2>2. StoreTypeOK'
    BY <1>v, <1>1, <2>1, StatementTypes DEF RecordFinding
  <2>3. PICK f \in findings' : Goto(s, [t EXCEPT !.pc = "assoc", !.row = f.id])
    BY <1>1 DEF RecordFinding
  <2>4. f.id \in FindingId
    BY <2>2 DEF StoreTypeOK, Finding
  <2>5. [t EXCEPT !.pc = "assoc", !.row = f.id] \in Task
    <3>1. "assoc" \in PC /\ f.id \in FindingId \cup {NoRow}
      BY <2>4 DEF PC
    <3>2. <<>> \in Seq(Hash)
      OBVIOUS
    <3> QED
      BY <1>t, <3>1, <3>2, TaskMoves
  <2>6. ~AssociateFinding(s)
    BY <1>1 DEF RecordFinding, AssociateFinding, At
  <2> QED
    BY <1>t, <1>1, <2>1, <2>2, <2>3, <2>5, <2>6 DEF RecordFinding, IInv, TypeOK
<1>2. CASE FindingNotRecorded(s)
  <2>1. AfterEngine(s, WithErr(t, "store")) \in Task
    BY <1>t, ResultType, AfterEngineType
  <2>2. TypeOK'
    BY <2>1, <1>t, <1>u, <1>2 DEF FindingNotRecorded, IInv, TypeOK
  <2>3. ~AssociateFinding(s)
    BY <1>2 DEF FindingNotRecorded, AssociateFinding, At
  <2>4. NextFinding(s) \in Finding
    BY <1>t, <1>v, <1>x
    DEF NextFinding, Finding, FindingId, FindingStatus
  <2> QED
    BY <2>2, <2>3, <2>4
<1>3. CASE AssociateFinding(s)
  <2>1. NextObservation(s) \in ScanFinding
    BY <1>x, <1>y, <1>3
    DEF NextObservation, ScanFinding, AssociateFinding, At
  <2>2. StoreTypeOK'
    BY <1>v, <1>3, <2>1, StatementTypes DEF AssociateFinding
  <2>3. AfterEngine(s, t) \in Task
    BY <1>t, AfterEngineType
  <2>4. [t EXCEPT !.pc = "upsert", !.out = Tail(@), !.row = NoRow] \in Task
    <3>1. "upsert" \in PC /\ NoRow \in FindingId \cup {NoRow}
      BY DEF PC
    <3> QED
      BY <1>t, <1>x, <3>1, TaskMoves
  <2>5. task' \in [Scan -> Task]
    BY <1>t, <1>3, <2>3, <2>4 DEF AssociateFinding
  <2>6. events' \subseteq Event
    BY <1>t, <1>3 DEF AssociateFinding, RunStatus, IInv, TypeOK
  <2>7. ~RecordFinding(s)
    BY <1>3 DEF RecordFinding, AssociateFinding, At
  <2> QED
    BY <1>3, <2>1, <2>2, <2>5, <2>6, <2>7 DEF AssociateFinding, IInv, TypeOK
<1>4. CASE AssociationFails(s)
  <2>1. AfterEngine(s, WithErr(t, "store")) \in Task
    BY <1>t, ResultType, AfterEngineType
  <2>2. TypeOK'
    BY <2>1, <1>t, <1>u, <1>4 DEF AssociationFails, IInv, TypeOK
  <2>3. ~RecordFinding(s)
    BY <1>4 DEF RecordFinding, AssociationFails, At
  <2>4. NextObservation(s) \in ScanFinding
    BY <1>x, <1>y, <1>4 DEF NextObservation, ScanFinding, AssociationFails, At
  <2> QED
    BY <2>2, <2>3, <2>4
<1> QED
  BY <1>1, <1>2, <1>3, <1>4

(* The end of a scan, and what happens around the workers. *)
LEMMA OtherStepTypes ==
  ASSUME TypeOK,
         \/ \E s \in Scan :
              \/ GenerateSBOM(s) \/ SBOMFails(s) \/ Finish(s) \/ Announce(s)
              \/ RemoveScan(s) \/ HourPasses(s) \/ KillCLI(s)
         \/ \E f \in findings, status \in FindingStatus :
              TriageFinding(f, status)
         \/ ServerStops \/ ServeStart
  PROVE  TypeOK'
<1>u. UNCHANGED storeVars => StoreTypeOK'
  BY DEF TypeOK, StoreTypeOK, storeVars
<1>v. StoreTypeOK
  BY DEF TypeOK
<1>w. \A t \in Task, pc \in PC : [t EXCEPT !.pc = pc] \in Task
  BY DEF Task
<1>1. ASSUME NEW s \in Scan,
             \/ GenerateSBOM(s) \/ SBOMFails(s) \/ Finish(s) \/ Announce(s)
             \/ RemoveScan(s) \/ HourPasses(s) \/ KillCLI(s)
      PROVE  TypeOK'
  <2>t. /\ task[s] \in Task
        /\ \A u \in Task : Goto(s, u) => task' \in [Scan -> Task]
        /\ \A pos \in Nat, v \in RunStatus :
             Emit(s, pos, v) => events' \subseteq Event
        /\ (UNCHANGED faults \/ Fault) => faults' \in 0..MaxFaults
    BY StepTypes
  <2>v. Verdict(s) \in ScanRowStatus /\ Verdict(s) \in RunStatus
    BY DEF Verdict, ScanRowStatus, RunStatus
  <2>p. ProjectOf[s] \in Project
    BY ProjectOfAssumption
  <2>1. CASE GenerateSBOM(s)
    <3>1. [task[s] EXCEPT !.pc = "finish"] \in Task
      BY <2>t, <1>w DEF PC
    <3>2. StoreTypeOK'
      BY <1>v, <2>p, <2>1, StatementTypes DEF GenerateSBOM
    <3> QED
      BY <2>t, <2>1, <3>1, <3>2 DEF GenerateSBOM, TypeOK
  <2>2. CASE SBOMFails(s)
    <3>1. [task[s] EXCEPT !.pc = "finish", !.sbomErr = TRUE] \in Task
      BY <2>t DEF Task, PC
    <3> QED
      BY <1>u, <2>t, <2>2, <3>1 DEF SBOMFails, TypeOK
  <2>3. CASE Finish(s)
    <3>1. [task[s] EXCEPT !.pc = "announce"] \in Task
      BY <2>t, <1>w DEF PC
    <3>2. StoreTypeOK'
      BY <1>u, <1>v, <2>p, <2>v, <2>3, StatementTypes DEF Finish
    <3> QED
      BY <2>t, <2>3, <3>1, <3>2 DEF Finish, TypeOK
  <2>4. CASE Announce(s)
    <3>1. [task[s] EXCEPT !.pc = "done"] \in Task
      BY <2>t, <1>w DEF PC
    <3> QED
      BY <1>u, <2>t, <2>v, <2>4, <3>1 DEF Announce, TypeOK
  <2>5. CASE RemoveScan(s)
    <3>1. StoreTypeOK'
      BY <1>v, <2>p, <2>5, StatementTypes DEF RemoveScan
    <3> QED
      BY <2>5, <3>1 DEF RemoveScan, TypeOK
  <2>6. CASE HourPasses(s)
    BY <1>u, <2>6 DEF HourPasses, TypeOK
  <2>7. CASE KillCLI(s)
    <3>1. [task[s] EXCEPT !.pc = "dead"] \in Task
      BY <2>t, <1>w DEF PC
    <3> QED
      BY <1>u, <2>t, <2>7, <3>1 DEF KillCLI, TypeOK
  <2> QED
    BY <1>1, <2>1, <2>2, <2>3, <2>4, <2>5, <2>6, <2>7
<1>2. ASSUME NEW f \in findings, NEW status \in FindingStatus,
             TriageFinding(f, status)
      PROVE  TypeOK'
  <2>1. StoreTypeOK'
    BY <1>v, <1>2 DEF TriageFinding, UpdateFindingStatus, StoreTypeOK, Finding
  <2> QED
    BY <1>2, <2>1 DEF TriageFinding, TypeOK
<1>3. CASE ServerStops
  <2>1. \A s \in Scan : [task[s] EXCEPT !.pc = "dead"] \in Task
    BY <1>w DEF TypeOK, PC
  <2> QED
    BY <1>u, <1>3, <2>1 DEF ServerStops, TypeOK
<1>4. CASE ServeStart
  <2>1. StoreTypeOK'
    BY <1>u, <1>v, <1>4
    DEF ServeStart, ReapStaleRunningScans, StoreTypeOK, ScanRowStatus
  <2>2. faults' \in 0..MaxFaults
    BY <1>4, MaxFaultsAssumption DEF ServeStart, Fault, TypeOK
  <2> QED
    BY <1>4, <2>1, <2>2 DEF ServeStart, TypeOK
<1> QED
  BY <1>1, <1>2, <1>3, <1>4


----------------------------------------------------------------------------
(* The keys workers hand out *)

(* A worker that has become u has used the keys it had used as t. *)
Later(t, u) ==
  \A i, n \in Nat :
    /\ RunUsed(t, i) => RunUsed(u, i)
    /\ IdUsed(t, i, n) => IdUsed(u, i, n)

(* No key is handed out twice: what a worker's step does to its position,   *)
(* its place in the code and the output it is storing only uses up keys     *)
(* (the loops of runAndFinish and runEngine never go back).                 *)
LEMMA LaterCases ==
  ASSUME NEW t \in Task, NEW u \in Task,
         \/ u.pos = t.pos /\ u.pc = t.pc /\ u.out = t.out
         \/ u.pos = t.pos + 1
         \/ u.pos = t.pos /\ t.pc \in {"idle", "project", "engine"}
         \/ u.pos = t.pos /\ u.pc \notin {"idle", "project", "engine",
                                          "upsert", "assoc"}
         \/ /\ u.pos = t.pos /\ t.pc = "upsert" /\ u.pc = "assoc"
            /\ u.out = t.out
         \/ /\ u.pos = t.pos /\ t.pc = "assoc" /\ u.pc = "upsert"
            /\ t.out # <<>> /\ u.out = Tail(t.out)
  PROVE  Later(t, u)
<1> DEFINE a == Len(t.out)
           b == Len(u.out)
<1>1. /\ t.pos \in Nat /\ u.pos \in Nat
      /\ t.out \in Seq(Hash) /\ u.out \in Seq(Hash)
  BY DEF Task
<1>2. a \in Nat /\ b \in Nat
  BY <1>1
<1>3. t.out # <<>> /\ u.out = Tail(t.out) => b = a - 1
  BY <1>1, HeadAndTail
<1>4. u.out = t.out => a = b
  OBVIOUS
<1> SUFFICES ASSUME NEW i \in Nat, NEW n \in Nat
             PROVE  /\ RunUsed(t, i) => RunUsed(u, i)
                    /\ IdUsed(t, i, n) => IdUsed(u, i, n)
  BY DEF Later
<1> HIDE DEF a, b
<1>5. RunUsed(t, i) => RunUsed(u, i)
  BY <1>1 DEF RunUsed
<1>6. IdUsed(t, i, n) <=>
        /\ RunUsed(t, i)
        /\ i = t.pos /\ t.pc = "upsert" => n > a
        /\ i = t.pos /\ t.pc = "assoc" => n >= a
  BY DEF IdUsed, a
<1>7. IdUsed(u, i, n) <=>
        /\ RunUsed(u, i)
        /\ i = u.pos /\ u.pc = "upsert" => n > b
        /\ i = u.pos /\ u.pc = "assoc" => n >= b
  BY DEF IdUsed, b
<1>8. IdUsed(t, i, n) => IdUsed(u, i, n)
  BY <1>1, <1>2, <1>3, <1>4, <1>5, <1>6, <1>7 DEF RunUsed
<1> QED
  BY <1>5, <1>8

(* Being past an engine uses up keys, from wherever in runEngine. *)
LEMMA LaterAfterEngine ==
  ASSUME NEW s \in Scan, NEW t \in Task, NEW u \in Task, u.pos = t.pos
  PROVE  /\ AfterEngine(s, u) \in Task
         /\ Later(t, AfterEngine(s, u))
         /\ RunUsed(AfterEngine(s, u), t.pos)
         /\ AfterEngine(s, u).pc \notin {"upsert", "assoc"}
<1> DEFINE v == AfterEngine(s, u)
<1>1. /\ v \in Task /\ v.pc \in {"engine", "sbom", "finish"}
      /\ v.pos \in {t.pos, t.pos + 1}
      /\ v.pc = "engine" => v.pos = t.pos + 1
  BY AfterEngineType
<1>2. t.pos \in Nat
  BY DEF Task
<1> HIDE DEF v
<1>3. Later(t, v)
  <2>1. CASE v.pos = t.pos + 1
    BY <1>1, <2>1, LaterCases
  <2>2. CASE v.pos = t.pos
    BY <1>1, <1>2, <2>2, LaterCases
  <2> QED
    BY <1>1, <2>1, <2>2
<1>4. RunUsed(v, t.pos)
  BY <1>1, <1>2 DEF RunUsed
<1> QED
  BY <1>1, <1>3, <1>4 DEF v

(* Keys in use stay in use. *)
LEMMA KeysStayUsed ==
  ASSUME \A x \in Scan : Later(task[x], task'[x])
  PROVE  /\ \A id \in FindingId : Issued(id) => Issued(id)'
         /\ \A run \in RunId : RunUsed(task[run[1]], run[2]) =>
                               RunUsed(task'[run[1]], run[2])
  BY DEF Later, Issued, FindingId, RunId

(* The identifiers in the tables, and the workers, have their types. *)
LEMMA RowTypes ==
  ASSUME TypeOK
  PROVE  /\ \A r \in engineRuns : r.run \in RunId /\ r.run[1] \in Scan
         /\ \A f \in findings : f \in Finding /\ f.id \in FindingId
         /\ \A x \in Scan : task[x] \in Task
  BY DEF TypeOK, StoreTypeOK, EngineRun, Finding, RunId

----------------------------------------------------------------------------
(* Steps that leave runs, findings and observations alone *)

LEMMA QuietStep ==
  ASSUME IInv, TypeOK',
         UNCHANGED <<engineRuns, findings, scanFindings>>,
         projects \subseteq projects',
         \A x \in Scan : Present(x) => Present(x)',
         \A x \in artifacts' : Present(x)',
         \A x \in Scan : Later(task[x], task'[x]),
         \A x \in Scan : task'[x].pc \in {"upsert", "assoc"} =>
           task'[x] = task[x] /\ (Present(x)' => Present(x))
  PROVE  IInv'
<1>1. RowsConsistent'
  BY RowTypes DEF IInv, RowsConsistent, Finding, TypeOK, StoreTypeOK, ScanFinding
<1>2. OneRowPerKey'
  BY DEF IInv, OneRowPerKey
<1>3. WorkersKnowTheirRows'
  <2>1. \A s \in Scan : task'[s].pc \in {"upsert", "assoc"} =>
          /\ task'[s].out # <<>>
          /\ Present(s)' =>
               [run |-> Run(s)', status |-> "completed"] \in engineRuns'
    BY DEF IInv, WorkersKnowTheirRows, Run
  <2>2. \A s \in Scan : task'[s].pc = "assoc" =>
          /\ task'[s].row \in FindingId /\ Issued(task[s].row)'
          /\ \A f \in findings' : f.id = task'[s].row =>
               f.project = ProjectOf[s] /\ f.hash = Head(task'[s].out)
    BY KeysStayUsed DEF IInv, WorkersKnowTheirRows
  <2>3. \A r \in engineRuns' : RunUsed(task'[r.run[1]], r.run[2])
    BY KeysStayUsed, RowTypes DEF IInv, WorkersKnowTheirRows
  <2>4. \A f \in findings' : Issued(f.id)'
    BY KeysStayUsed, RowTypes DEF IInv, WorkersKnowTheirRows
  <2> QED
    BY <2>1, <2>2, <2>3, <2>4 DEF WorkersKnowTheirRows, Issued, Run
<1> QED
  BY <1>1, <1>2, <1>3 DEF IInv

----------------------------------------------------------------------------
(* Steps that change runs, findings or observations *)

(* CreateEngineRun: the run is the one of the engine the worker is at,      *)
(* which has none yet; a worker that goes on to store findings leaves a     *)
(* completed run behind.                                                    *)
LEMMA RunInserted ==
  ASSUME IInv, TypeOK', NEW s \in Scan, NEW v \in RunStatus, NEW u \in Task,
         At(s, "engine"), CreateEngineRun(Run(s), v), Goto(s, u),
         Later(task[s], u), RunUsed(u, task[s].pos), u.pc # "assoc",
         u.pc = "upsert" =>
           v = "completed" /\ u.pos = task[s].pos /\ u.out # <<>>
  PROVE  IInv'
<1> DEFINE new == [run |-> Run(s), status |-> v]
<1>1. /\ TypeOK /\ task \in [Scan -> Task] /\ task[s].pos \in Nat
      /\ Run(s) \in RunId /\ Run(s)[1] = s /\ Run(s)[2] = task[s].pos
  BY StepTypes DEF IInv, Run, TypeOK
<1>2. /\ engineRuns' = engineRuns \cup {new} /\ Present(s)
      /\ UNCHANGED <<projects, scanStatus, findings, scanFindings, artifacts>>
  BY <1>1 DEF CreateEngineRun
<1>3. \A x \in Scan : Present(x)' <=> Present(x)
  BY <1>2 DEF Present
<1>4. task'[s] = u /\ \A x \in Scan : x # s => task'[x] = task[x]
  BY <1>1 DEF Goto
<1>5. \A x \in Scan : Later(task[x], task'[x])
  BY <1>4 DEF Later
<1>6. \A r \in engineRuns : r.run # Run(s)
  BY <1>1 DEF IInv, WorkersKnowTheirRows, RunUsed, At
<1>7. RowsConsistent'
  BY <1>1, <1>2, <1>3, RowTypes
  DEF IInv, RowsConsistent, TypeOK, StoreTypeOK, ScanFinding, Finding
<1>8. OneRowPerKey'
  BY <1>2, <1>6 DEF IInv, OneRowPerKey
<1>9. WorkersKnowTheirRows'
  <2>1. \A x \in Scan : task'[x].pc \in {"upsert", "assoc"} =>
          /\ task'[x].out # <<>>
          /\ Present(x)' =>
               [run |-> Run(x)', status |-> "completed"] \in engineRuns'
    <3>1. ASSUME NEW x \in Scan, x # s, task'[x].pc \in {"upsert", "assoc"}
          PROVE  /\ task'[x].out # <<>>
                 /\ Present(x)' =>
                      [run |-> Run(x)', status |-> "completed"] \in engineRuns'
      BY <1>2, <1>3, <1>4, <3>1 DEF IInv, WorkersKnowTheirRows, Run
    <3>2. u.pc \in {"upsert", "assoc"} =>
            /\ u.out # <<>>
            /\ [run |-> Run(s)', status |-> "completed"] = new
      BY <1>4 DEF Run
    <3> QED
      BY <1>2, <1>4, <3>1, <3>2
  <2>2. \A x \in Scan : task'[x].pc = "assoc" =>
          /\ task'[x].row \in FindingId /\ Issued(task[x].row)'
          /\ \A f \in findings' : f.id = task'[x].row =>
               f.project = ProjectOf[x] /\ f.hash = Head(task'[x].out)
    BY <1>2, <1>4, <1>5, KeysStayUsed DEF IInv, WorkersKnowTheirRows
  <2>3. \A r \in engineRuns' : RunUsed(task'[r.run[1]], r.run[2])
    BY <1>1, <1>2, <1>4, <1>5, KeysStayUsed, RowTypes
    DEF IInv, WorkersKnowTheirRows
  <2>4. \A f \in findings' : Issued(f.id)'
    BY <1>1, <1>2, <1>5, KeysStayUsed, RowTypes DEF IInv, WorkersKnowTheirRows
  <2> QED
    BY <2>1, <2>2, <2>3, <2>4 DEF WorkersKnowTheirRows
<1> QED
  BY <1>7, <1>8, <1>9 DEF IInv

(* DeleteScan: of the findings, exactly those the scan was the last to      *)
(* report go, because a finding's run is of its scan.                       *)
LEMMA ScanDeleted ==
  ASSUME IInv, TypeOK', NEW s \in Scan, RemoveScan(s)
  PROVE  IInv'
<1>1. TypeOK /\ UNCHANGED <<task, projects>>
  BY DEF IInv, RemoveScan, DeleteScan
<1>2. \A x \in Scan : Present(x)' <=> x # s /\ Present(x)
  BY <1>1 DEF RemoveScan, DeleteScan, Present, ScanRowStatus, TypeOK, StoreTypeOK
<1>3. /\ engineRuns' = {r \in engineRuns : r.run[1] # s}
      /\ artifacts' = artifacts \ {s}
  BY DEF RemoveScan, DeleteScan
<1> DEFINE gone == {f \in findings :
                      \/ f.scan = s
                      \/ \E r \in {q \in engineRuns : q.run[1] = s} :
                           r.run = f.run}
<1>4. gone = {f \in findings : f.scan = s}
  BY DEF IInv, RowsConsistent
<1>5. /\ findings' = {f \in findings : f.scan # s}
      /\ scanFindings' = {a \in scanFindings : a.scan # s /\
                            \A f \in findings : f.scan = s => f.id # a.finding}
  <2>1. /\ findings' = findings \ gone
        /\ scanFindings' = {a \in scanFindings :
                              a.scan # s /\ \A f \in gone : f.id # a.finding}
    BY DEF RemoveScan, DeleteScan
  <2> HIDE DEF gone
  <2> QED
    BY <1>4, <2>1
<1> HIDE DEF gone
<1>6. RowsConsistent'
  <2>1. \A r \in engineRuns' : Present(r.run[1])'
    BY <1>1, <1>2, <1>3, RowTypes DEF IInv, RowsConsistent
  <2>2. \A f \in findings' :
          /\ f.project \in projects' /\ f.project = ProjectOf[f.scan]
          /\ Present(f.scan)' /\ f.run[1] = f.scan
          /\ [run |-> f.run, status |-> "completed"] \in engineRuns'
    BY <1>1, <1>2, <1>3, <1>5, RowTypes DEF IInv, RowsConsistent, Finding
  <2>3. \A a \in scanFindings' :
          /\ Present(a.scan)'
          /\ \E f \in findings' :
               f.id = a.finding /\ f.hash = a.hash /\ f.project = ProjectOf[a.scan]
    BY <1>1, <1>2, <1>5
    DEF IInv, RowsConsistent, TypeOK, StoreTypeOK, ScanFinding
  <2>4. \A x \in artifacts' : Present(x)'
    BY <1>1, <1>2, <1>3 DEF IInv, RowsConsistent, TypeOK, StoreTypeOK
  <2> QED
    BY <2>1, <2>2, <2>3, <2>4 DEF RowsConsistent
<1>7. OneRowPerKey'
  BY <1>3, <1>5 DEF IInv, OneRowPerKey
<1>8. WorkersKnowTheirRows'
  BY <1>1, <1>2, <1>3, <1>5 DEF IInv, WorkersKnowTheirRows, Run, Issued
<1> QED
  BY <1>6, <1>7, <1>8 DEF IInv

(* UpdateFindingStatus changes nothing but the triage status. *)
LEMMA FindingTriaged ==
  ASSUME IInv, TypeOK', NEW f \in findings, NEW v \in FindingStatus,
         TriageFinding(f, v)
  PROVE  IInv'
<1>1. /\ TypeOK
      /\ UNCHANGED <<task, projects, scanStatus, engineRuns, scanFindings,
                     artifacts>>
  BY DEF IInv, TriageFinding, UpdateFindingStatus
<1>2. \A x \in Scan : Present(x)' <=> Present(x)
  BY <1>1 DEF Present
<1> DEFINE Triaged(g) == IF g.id = f.id THEN [g EXCEPT !.status = v] ELSE g
<1>3. findings' = {Triaged(g) : g \in findings}
  BY DEF TriageFinding, UpdateFindingStatus
<1>4. \A g \in Finding :
        /\ Triaged(g).id = g.id /\ Triaged(g).project = g.project
        /\ Triaged(g).hash = g.hash /\ Triaged(g).scan = g.scan
        /\ Triaged(g).run = g.run
  BY DEF Finding
<1>5. findings \subseteq Finding
  BY <1>1 DEF TypeOK, StoreTypeOK
<1> HIDE DEF Triaged
<1>6. RowsConsistent'
  BY <1>1, <1>2, <1>3, <1>4, <1>5, RowTypes
  DEF IInv, RowsConsistent, TypeOK, StoreTypeOK, ScanFinding, Finding
<1>7. OneRowPerKey'
  BY <1>1, <1>3, <1>4, <1>5 DEF IInv, OneRowPerKey
<1>8. WorkersKnowTheirRows'
  BY <1>1, <1>2, <1>3, <1>4, <1>5 DEF IInv, WorkersKnowTheirRows, Run, Issued
<1> QED
  BY <1>6, <1>7, <1>8 DEF IInv

(* UpsertFinding, insert case: the id is one the worker has not used, so no *)
(* row has it and no other worker holds it.                                 *)
LEMMA FindingInserted ==
  ASSUME IInv, TypeOK', NEW s \in Scan, RecordFinding(s),
         SameFinding(NextFinding(s)) = {}
  PROVE  IInv'
<1> DEFINE t == task[s]
<1>0. PICK new : new = NextFinding(s)
  OBVIOUS
<1>1. /\ TypeOK /\ task \in [Scan -> Task] /\ t \in Task /\ t.pos \in Nat
      /\ Run(s) \in RunId /\ Run(s)[1] = s /\ Run(s)[2] = t.pos
      /\ t.pc = "upsert" /\ t.out \in Seq(Hash) /\ Len(t.out) \in Nat
  <2>1. TypeOK /\ task \in [Scan -> Task] /\ t \in Task /\ t.pc = "upsert"
    BY DEF IInv, TypeOK, RecordFinding, At
  <2>2. t.out \in Seq(Hash) /\ t.pos \in Nat
    BY <2>1 DEF Task
  <2> QED
    BY <2>1, <2>2, StepTypes DEF Run
<1>2. /\ new \in Finding /\ new.run = Run(s) /\ new.scan = s
      /\ new.id = [run |-> Run(s), nth |-> Len(t.out)] /\ new.id \in FindingId
      /\ new.project = ProjectOf[s] /\ new.hash = Head(t.out)
  BY <1>0, <1>1, StoringStepTypes DEF NextFinding, FindingId
<1>3. /\ Present(s) /\ ProjectOf[s] \in projects
      /\ findings' = findings \cup {new}
      /\ UNCHANGED <<projects, scanStatus, engineRuns, scanFindings, artifacts>>
  BY <1>0, <1>2 DEF RecordFinding, UpsertFinding, FindingKeysExist
<1>4. \A x \in Scan : Present(x)' <=> Present(x)
  BY <1>3 DEF Present
<1>5. ~Issued(new.id)
  BY <1>1, <1>2 DEF Issued, IdUsed
<1>6. /\ \A f \in findings : f.id # new.id
      /\ \A x \in Scan : task[x].pc = "assoc" => task[x].row # new.id
  BY <1>5 DEF IInv, WorkersKnowTheirRows
<1>7. \A f \in findings : ~(f.project = new.project /\ f.hash = new.hash)
  BY <1>0 DEF SameFinding
<1>8. task' = [task EXCEPT ![s] = [t EXCEPT !.pc = "assoc", !.row = new.id]]
  <2>1. PICK f \in findings' :
          /\ f.project = ProjectOf[s] /\ f.hash = Head(t.out)
          /\ Goto(s, [t EXCEPT !.pc = "assoc", !.row = f.id])
    BY DEF RecordFinding
  <2>2. f = new
    BY <1>2, <1>3, <1>7, <2>1
  <2> QED
    BY <2>1, <2>2 DEF Goto
<1>9. /\ task'[s] \in Task /\ task'[s].pc = "assoc" /\ task'[s].row = new.id
      /\ task'[s].pos = t.pos /\ task'[s].out = t.out
      /\ \A x \in Scan : x # s => task'[x] = task[x]
  <2>1. task'[s] = [t EXCEPT !.pc = "assoc", !.row = new.id]
    BY <1>1, <1>8
  <2>2. \A x \in Scan : x # s => task'[x] = task[x]
    BY <1>1, <1>8
  <2> QED
    BY <1>1, <2>1, <2>2 DEF TypeOK, Task
<1>10. \A x \in Scan : Later(task[x], task'[x])
  <2>1. Later(t, task'[s])
    BY <1>1, <1>9, LaterCases
  <2> QED
    BY <1>9, <2>1 DEF Later
<1>11. [run |-> Run(s), status |-> "completed"] \in engineRuns
  BY <1>1, <1>3 DEF IInv, WorkersKnowTheirRows
<1>12. Issued(new.id)'
  BY <1>1, <1>2, <1>9 DEF Issued, IdUsed, RunUsed
<1>13. RowsConsistent'
  BY <1>1, <1>2, <1>3, <1>4, <1>11, RowTypes
  DEF IInv, RowsConsistent, TypeOK, StoreTypeOK, ScanFinding, Finding
<1>14. OneRowPerKey'
  BY <1>3, <1>6, <1>7 DEF IInv, OneRowPerKey
<1>15. WorkersKnowTheirRows'
  <2>1. \A x \in Scan : task'[x].pc \in {"upsert", "assoc"} =>
          /\ task'[x].out # <<>>
          /\ Present(x)' =>
               [run |-> Run(x)', status |-> "completed"] \in engineRuns'
    BY <1>1, <1>3, <1>4, <1>9 DEF IInv, WorkersKnowTheirRows, Run
  <2>2. \A x \in Scan : task'[x].pc = "assoc" =>
          /\ task'[x].row \in FindingId /\ Issued(task[x].row)'
          /\ \A f \in findings' : f.id = task'[x].row =>
               f.project = ProjectOf[x] /\ f.hash = Head(task'[x].out)
    <3>1. ASSUME NEW x \in Scan, x # s, task'[x].pc = "assoc"
          PROVE  /\ task'[x].row \in FindingId /\ Issued(task[x].row)'
                 /\ \A f \in findings' : f.id = task'[x].row =>
                      f.project = ProjectOf[x] /\ f.hash = Head(task'[x].out)
      BY <1>3, <1>6, <1>9, <1>10, <3>1, KeysStayUsed
      DEF IInv, WorkersKnowTheirRows
    <3>2. /\ task'[s].row \in FindingId /\ Issued(task[s].row)'
          /\ \A f \in findings' : f.id = task'[s].row =>
               f.project = ProjectOf[s] /\ f.hash = Head(task'[s].out)
      BY <1>2, <1>3, <1>6, <1>9, <1>12
    <3> QED
      BY <3>1, <3>2
  <2>3. \A r \in engineRuns' : RunUsed(task'[r.run[1]], r.run[2])
    BY <1>1, <1>3, <1>10, KeysStayUsed, RowTypes DEF IInv, WorkersKnowTheirRows
  <2>4. \A f \in findings' : Issued(f.id)'
    BY <1>1, <1>3, <1>10, <1>12, KeysStayUsed, RowTypes
    DEF IInv, WorkersKnowTheirRows
  <2> QED
    BY <2>1, <2>2, <2>3, <2>4 DEF WorkersKnowTheirRows
<1> QED
  BY <1>13, <1>14, <1>15 DEF IInv

(* UpsertFinding, conflict case: the one row of the project with that hash  *)
(* keeps its id, project and hash, and moves to the worker's scan and run.  *)
LEMMA FindingMerged ==
  ASSUME IInv, TypeOK', NEW s \in Scan, RecordFinding(s),
         SameFinding(NextFinding(s)) # {}
  PROVE  IInv'
<1> DEFINE new == NextFinding(s)
           t == task[s]
<1>1. /\ TypeOK /\ task \in [Scan -> Task] /\ t \in Task /\ t.pos \in Nat
      /\ Run(s) \in RunId /\ Run(s)[1] = s /\ Run(s)[2] = t.pos
      /\ t.pc = "upsert" /\ t.out \in Seq(Hash) /\ Len(t.out) \in Nat
  <2>1. TypeOK /\ task \in [Scan -> Task] /\ t \in Task /\ t.pc = "upsert"
    BY DEF IInv, TypeOK, RecordFinding, At
  <2>2. t.out \in Seq(Hash) /\ t.pos \in Nat
    BY <2>1 DEF Task
  <2> QED
    BY <2>1, <2>2, StepTypes DEF Run
<1>2. /\ new \in Finding /\ new.run = Run(s) /\ new.scan = s
      /\ new.project = ProjectOf[s] /\ new.hash = Head(t.out)
  BY <1>1, StoringStepTypes DEF NextFinding
<1>3. PICK g \in findings : g.project = new.project /\ g.hash = new.hash
  BY DEF SameFinding
<1>4. SameFinding(new) = {g}
  BY <1>3 DEF SameFinding, IInv, OneRowPerKey
<1> DEFINE m == Merged(g, new)
<1>5. /\ m.id = g.id /\ m.project = ProjectOf[s] /\ m.hash = Head(t.out)
      /\ m.scan = s /\ m.run = Run(s) /\ g.id \in FindingId
  BY <1>1, <1>2, <1>3, RowTypes DEF Merged, Finding
<1>6. /\ Present(s) /\ ProjectOf[s] \in projects
      /\ findings' = (findings \ {g}) \cup {m}
      /\ UNCHANGED <<projects, scanStatus, engineRuns, scanFindings, artifacts>>
  BY <1>2, <1>4 DEF RecordFinding, UpsertFinding, FindingKeysExist
<1> HIDE DEF new, m
<1>7. \A x \in Scan : Present(x)' <=> Present(x)
  BY <1>6 DEF Present
<1>8. \A f \in findings \ {g} :
        f.id # g.id /\ ~(f.project = g.project /\ f.hash = g.hash)
  BY <1>3 DEF IInv, OneRowPerKey
<1>9. task' = [task EXCEPT ![s] = [t EXCEPT !.pc = "assoc", !.row = g.id]]
  <2>1. PICK f \in findings' :
          /\ f.project = ProjectOf[s] /\ f.hash = Head(t.out)
          /\ Goto(s, [t EXCEPT !.pc = "assoc", !.row = f.id])
    BY DEF RecordFinding
  <2>2. f = m
    BY <1>2, <1>3, <1>6, <1>8, <2>1
  <2> QED
    BY <1>5, <2>1, <2>2 DEF Goto
<1>10. /\ task'[s] \in Task /\ task'[s].pc = "assoc" /\ task'[s].row = g.id
       /\ task'[s].pos = t.pos /\ task'[s].out = t.out
       /\ \A x \in Scan : x # s => task'[x] = task[x]
  <2>1. task'[s] = [t EXCEPT !.pc = "assoc", !.row = g.id]
    BY <1>1, <1>9
  <2>2. \A x \in Scan : x # s => task'[x] = task[x]
    BY <1>1, <1>9
  <2> QED
    BY <1>1, <2>1, <2>2 DEF TypeOK, Task
<1>11. \A x \in Scan : Later(task[x], task'[x])
  <2>1. Later(t, task'[s])
    BY <1>1, <1>10, LaterCases
  <2> QED
    BY <1>10, <2>1 DEF Later
<1>12. [run |-> Run(s), status |-> "completed"] \in engineRuns
  BY <1>1, <1>6 DEF IInv, WorkersKnowTheirRows
<1>13. RowsConsistent'
  <2>1. \A f \in findings' :
          /\ f.project \in projects' /\ f.project = ProjectOf[f.scan]
          /\ Present(f.scan)' /\ f.run[1] = f.scan
          /\ [run |-> f.run, status |-> "completed"] \in engineRuns'
    BY <1>1, <1>5, <1>6, <1>7, <1>12, RowTypes DEF IInv, RowsConsistent, Finding
  <2>2. \A a \in scanFindings' :
          /\ Present(a.scan)'
          /\ \E f \in findings' :
               f.id = a.finding /\ f.hash = a.hash /\ f.project = ProjectOf[a.scan]
    <3>1. ASSUME NEW a \in scanFindings
          PROVE  \E f \in findings' : f.id = a.finding /\ f.hash = a.hash
                                       /\ f.project = ProjectOf[a.scan]
      <4>1. PICK f \in findings : f.id = a.finding /\ f.hash = a.hash
                                   /\ f.project = ProjectOf[a.scan]
        BY DEF IInv, RowsConsistent
      <4>2. CASE f = g
        BY <1>2, <1>3, <1>5, <1>6, <4>1, <4>2
      <4>3. CASE f # g
        BY <1>6, <4>1, <4>3
      <4> QED
        BY <4>2, <4>3
    <3> QED
      BY <1>1, <1>6, <1>7, <3>1
      DEF IInv, RowsConsistent, TypeOK, StoreTypeOK, ScanFinding
  <2> QED
    BY <1>1, <1>6, <1>7, <2>1, <2>2, RowTypes
    DEF IInv, RowsConsistent, TypeOK, StoreTypeOK
<1>14. OneRowPerKey'
  BY <1>2, <1>3, <1>5, <1>6, <1>8 DEF IInv, OneRowPerKey
<1>15. WorkersKnowTheirRows'
  <2>1. \A x \in Scan : task'[x].pc \in {"upsert", "assoc"} =>
          /\ task'[x].out # <<>>
          /\ Present(x)' =>
               [run |-> Run(x)', status |-> "completed"] \in engineRuns'
    BY <1>1, <1>6, <1>7, <1>10 DEF IInv, WorkersKnowTheirRows, Run
  <2>2. \A x \in Scan : task'[x].pc = "assoc" =>
          /\ task'[x].row \in FindingId /\ Issued(task[x].row)'
          /\ \A f \in findings' : f.id = task'[x].row =>
               f.project = ProjectOf[x] /\ f.hash = Head(task'[x].out)
    <3>1. ASSUME NEW x \in Scan, x # s, task'[x].pc = "assoc"
          PROVE  /\ task'[x].row \in FindingId /\ Issued(task[x].row)'
                 /\ \A f \in findings' : f.id = task'[x].row =>
                      f.project = ProjectOf[x] /\ f.hash = Head(task'[x].out)
      BY <1>2, <1>3, <1>5, <1>6, <1>10, <1>11, <3>1, KeysStayUsed
      DEF IInv, WorkersKnowTheirRows
    <3>2. Issued(g.id)'
      BY <1>5, <1>11, KeysStayUsed DEF IInv, WorkersKnowTheirRows
    <3>3. /\ task'[s].row \in FindingId /\ Issued(task[s].row)'
          /\ \A f \in findings' : f.id = task'[s].row =>
               f.project = ProjectOf[s] /\ f.hash = Head(task'[s].out)
      BY <1>5, <1>6, <1>8, <1>10, <3>2
    <3> QED
      BY <3>1, <3>3
  <2>3. \A r \in engineRuns' : RunUsed(task'[r.run[1]], r.run[2])
    BY <1>1, <1>6, <1>11, KeysStayUsed, RowTypes DEF IInv, WorkersKnowTheirRows
  <2>4. \A f \in findings' : Issued(f.id)'
    BY <1>1, <1>3, <1>5, <1>6, <1>11, KeysStayUsed, RowTypes
    DEF IInv, WorkersKnowTheirRows
  <2> QED
    BY <2>1, <2>2, <2>3, <2>4 DEF WorkersKnowTheirRows
<1> QED
  BY <1>13, <1>14, <1>15 DEF IInv

(* CreateScanFinding: the row the worker holds is, if it is still there,    *)
(* the finding in hand.                                                     *)
LEMMA ObservationInserted ==
  ASSUME IInv, TypeOK', NEW s \in Scan, AssociateFinding(s)
  PROVE  IInv'
<1> DEFINE t == task[s]
<1>0. PICK new : new = NextObservation(s)
  OBVIOUS
<1>1. /\ TypeOK /\ task \in [Scan -> Task] /\ t \in Task /\ t.pc = "assoc"
      /\ t.out \in Seq(Hash) /\ t.out # <<>>
      /\ Tail(t.out) \in Seq(Hash)
  <2>1. TypeOK /\ task \in [Scan -> Task] /\ t \in Task /\ t.pc = "assoc"
    BY DEF IInv, TypeOK, AssociateFinding, At
  <2>2. t.out \in Seq(Hash) /\ t.out # <<>>
    BY <2>1 DEF Task, IInv, WorkersKnowTheirRows
  <2> QED
    BY <2>1, <2>2, HeadAndTail
<1>2. new.scan = s /\ new.finding = t.row /\ new.hash = Head(t.out)
  BY <1>0 DEF NextObservation
<1>3. /\ UNCHANGED <<projects, scanStatus, engineRuns, findings, artifacts>>
      /\ \/ scanFindings' = scanFindings
         \/ /\ scanFindings' = scanFindings \cup {new}
            /\ ~Associated(new) /\ ScanFindingKeysExist(new)
  BY <1>0 DEF AssociateFinding, CreateScanFinding
<1>4. \A x \in Scan : Present(x)' <=> Present(x)
  BY <1>3 DEF Present
<1>5. PICK u : /\ task' = [task EXCEPT ![s] = u]
               /\ \/ u = AfterEngine(s, t)
                  \/ /\ Tail(t.out) # <<>>
                     /\ u = [t EXCEPT !.pc = "upsert", !.out = Tail(@),
                                      !.row = NoRow]
  BY DEF AssociateFinding, Goto
<1>6. /\ task'[s] = u /\ u \in Task
      /\ \A x \in Scan : x # s => task'[x] = task[x]
  BY <1>1, <1>5 DEF TypeOK
<1>7. /\ Later(t, u)
      /\ \/ u.pc \notin {"upsert", "assoc"}
         \/ /\ u.pc = "upsert" /\ u.pos = t.pos
            /\ u.out # <<>>
  <2>1. CASE u = AfterEngine(s, t)
    BY <1>1, <2>1, LaterAfterEngine
  <2>2. CASE /\ Tail(t.out) # <<>>
             /\ u = [t EXCEPT !.pc = "upsert", !.out = Tail(@), !.row = NoRow]
    <3>1. u.pc = "upsert" /\ u.pos = t.pos /\ u.out = Tail(t.out)
      BY <1>1, <2>2 DEF Task
    <3> QED
      BY <1>1, <1>6, <2>2, <3>1, LaterCases
  <2> QED
    BY <1>5, <2>1, <2>2
<1>8. \A x \in Scan : Later(task[x], task'[x])
  BY <1>6, <1>7 DEF Later
<1>9. RowsConsistent'
  <2>1. \A a \in scanFindings' :
          /\ Present(a.scan)'
          /\ \E f \in findings' :
               f.id = a.finding /\ f.hash = a.hash /\ f.project = ProjectOf[a.scan]
    <3>1. ASSUME NEW a \in scanFindings
          PROVE  /\ Present(a.scan)'
                 /\ \E f \in findings' : f.id = a.finding /\ f.hash = a.hash
                                          /\ f.project = ProjectOf[a.scan]
      BY <1>1, <1>3, <1>4
      DEF IInv, RowsConsistent, TypeOK, StoreTypeOK, ScanFinding
    <3>2. ASSUME ScanFindingKeysExist(new)
          PROVE  /\ Present(new.scan)'
                 /\ \E f \in findings' : f.id = new.finding /\ f.hash = new.hash
                                          /\ f.project = ProjectOf[new.scan]
      BY <1>1, <1>2, <1>3, <1>4, <3>2
      DEF IInv, WorkersKnowTheirRows, ScanFindingKeysExist
    <3> QED
      BY <1>3, <3>1, <3>2
  <2> QED
    BY <1>1, <1>3, <1>4, <2>1, RowTypes
    DEF IInv, RowsConsistent, TypeOK, StoreTypeOK, Finding
<1>10. OneRowPerKey'
  BY <1>3 DEF IInv, OneRowPerKey, Associated
<1>11. WorkersKnowTheirRows'
  <2>1. \A x \in Scan : task'[x].pc \in {"upsert", "assoc"} =>
          /\ task'[x].out # <<>>
          /\ Present(x)' =>
               [run |-> Run(x)', status |-> "completed"] \in engineRuns'
    BY <1>1, <1>3, <1>4, <1>6, <1>7 DEF IInv, WorkersKnowTheirRows, Run
  <2>2. \A x \in Scan : task'[x].pc = "assoc" =>
          /\ task'[x].row \in FindingId /\ Issued(task[x].row)'
          /\ \A f \in findings' : f.id = task'[x].row =>
               f.project = ProjectOf[x] /\ f.hash = Head(task'[x].out)
    BY <1>3, <1>6, <1>7, <1>8, KeysStayUsed DEF IInv, WorkersKnowTheirRows
  <2>3. \A r \in engineRuns' : RunUsed(task'[r.run[1]], r.run[2])
    BY <1>1, <1>3, <1>8, KeysStayUsed, RowTypes DEF IInv, WorkersKnowTheirRows
  <2>4. \A f \in findings' : Issued(f.id)'
    BY <1>1, <1>3, <1>8, KeysStayUsed, RowTypes DEF IInv, WorkersKnowTheirRows
  <2> QED
    BY <2>1, <2>2, <2>3, <2>4 DEF WorkersKnowTheirRows
<1> QED
  BY <1>9, <1>10, <1>11 DEF IInv

----------------------------------------------------------------------------
(* The invariant *)

(* Nothing is stored and nobody is at work before the first step. *)
LEMMA InitInv == Init => IInv
<1> SUFFICES ASSUME Init PROVE IInv
  OBVIOUS
<1>1. TypeOK
  BY InitTypeOK
<1>2. RowsConsistent /\ OneRowPerKey
  BY DEF Init, StoreInit, RowsConsistent, OneRowPerKey
<1>3. \A s \in Scan : task[s].pc = "idle"
  BY DEF Init, NewTask
<1>4. WorkersKnowTheirRows
  BY <1>3 DEF Init, StoreInit, WorkersKnowTheirRows
<1> QED
  BY <1>1, <1>2, <1>4 DEF IInv

(* runEngine up to the storing of findings: at most the engine run is       *)
(* inserted.                                                                *)
LEMMA EngineSteps ==
  ASSUME IInv, NEW s \in Scan,
         \/ SkipEngine(s) \/ EngineFails(s) \/ EngineUnparsable(s)
         \/ \E report \in Reports : EngineReports(s, report)
         \/ EngineNotRecorded(s)
  PROVE  IInv'
<1> DEFINE t == task[s]
<1>1. TypeOK'
  BY EngineStepTypes DEF IInv
<1>2. /\ TypeOK /\ t \in Task /\ t.pos \in Nat /\ task \in [Scan -> Task]
      /\ At(s, "engine") /\ t.pc = "engine"
  BY StepTypes DEF IInv, TypeOK, SkipEngine, EngineFails, EngineUnparsable,
                   EngineReports, EngineNotRecorded, At
<1>p. /\ \A e \in {"engine", "store"} :
           /\ WithErr(Started(t), e) \in Task
           /\ WithErr(Started(t), e).pos = t.pos
      /\ Started(t) \in Task /\ Started(t).pos = t.pos
      /\ [t EXCEPT !.skipped = @ \cup {t.pos}] \in Task
      /\ [t EXCEPT !.skipped = @ \cup {t.pos}].pos = t.pos
  BY <1>2, ResultType DEF WithErr, Started, Task
<1>q. ASSUME NEW u \in Task, u.pos = t.pos
      PROVE  /\ AfterEngine(s, u) \in Task /\ Later(t, AfterEngine(s, u))
             /\ RunUsed(AfterEngine(s, u), t.pos)
             /\ AfterEngine(s, u).pc \notin {"upsert", "assoc"}
  BY <1>2, <1>q, LaterAfterEngine
<1>3. ASSUME NEW u \in Task, u.pos = t.pos, NEW v \in RunStatus,
             CreateEngineRun(Run(s), v), Goto(s, AfterEngine(s, u))
      PROVE  IInv'
  BY <1>1, <1>2, <1>3, <1>q, RunInserted
<1>4. ASSUME NEW u \in Task, u.pos = t.pos, UNCHANGED storeVars,
             Goto(s, AfterEngine(s, u))
      PROVE  IInv'
  <2>1. /\ task'[s] = AfterEngine(s, u)
        /\ \A x \in Scan : x # s => task'[x] = task[x]
    BY <1>2, <1>4 DEF Goto
  <2>2. \A x \in Scan : Later(task[x], task'[x])
    BY <1>4, <1>q, <2>1 DEF Later
  <2>3. \A x \in Scan : task'[x].pc \in {"upsert", "assoc"} =>
          task'[x] = task[x]
    BY <1>4, <1>q, <2>1
  <2>4. \A x \in artifacts' : Present(x)'
    BY <1>4 DEF IInv, RowsConsistent, storeVars, Present
  <2>5. \A x \in Scan : Present(x)' <=> Present(x)
    BY <1>4 DEF storeVars, Present
  <2> QED
    BY <1>1, <1>4, <2>2, <2>3, <2>4, <2>5, QuietStep DEF storeVars
<1>5. CASE SkipEngine(s)
  BY <1>3, <1>4, <1>p, <1>5 DEF SkipEngine, RunStatus, storeVars
<1>6. CASE EngineFails(s)
  BY <1>3, <1>p, <1>6 DEF EngineFails, RunStatus
<1>7. CASE EngineUnparsable(s)
  BY <1>3, <1>p, <1>7 DEF EngineUnparsable, RunStatus
<1>8. ASSUME NEW report \in Reports, EngineReports(s, report)
      PROVE  IInv'
  <2>1. CreateEngineRun(Run(s), "completed") /\ "completed" \in RunStatus
    BY <1>8 DEF EngineReports, RunStatus
  <2>2. CASE report = <<>>
    BY <1>3, <1>8, <1>p, <2>1, <2>2 DEF EngineReports
  <2>3. CASE report # <<>>
    <3>1. PICK u : /\ Goto(s, u)
                   /\ u = [Started(t) EXCEPT
                             !.pc = "upsert", !.out = report,
                             !.reported = @ \cup
                               {report[i] : i \in DOMAIN report}]
      BY <1>8, <2>3 DEF EngineReports
    <3>2. u.pc = "upsert" /\ u.out = report /\ u.pos = t.pos
      BY <1>p, <3>1 DEF Task
    <3>3. u \in Task
      BY <1>1, <1>2, <3>1 DEF Goto, TypeOK
    <3>4. Later(t, u) /\ RunUsed(u, t.pos)
      BY <1>2, <3>2, <3>3, LaterCases DEF RunUsed
    <3> QED
      BY <1>1, <1>2, <2>1, <2>3, <3>1, <3>2, <3>3, <3>4, RunInserted
  <2> QED
    BY <2>2, <2>3
<1>9. CASE EngineNotRecorded(s)
  BY <1>4, <1>p, <1>9 DEF EngineNotRecorded
<1> QED
  BY <1>5, <1>6, <1>7, <1>8, <1>9

(* A worker that neither stores findings next nor changes runs, findings    *)
(* or observations.                                                         *)
LEMMA QuietWorker ==
  ASSUME IInv, TypeOK', NEW s \in Scan, NEW u \in Task, Goto(s, u),
         UNCHANGED <<engineRuns, findings, scanFindings>>,
         projects \subseteq projects',
         \A x \in Scan : Present(x) => Present(x)',
         \A x \in Scan : x # s /\ Present(x)' => Present(x),
         \A x \in artifacts' : Present(x)',
         Later(task[s], u), u.pc \notin {"upsert", "assoc"}
  PROVE  IInv'
<1>1. /\ task'[s] = u
      /\ \A x \in Scan : x # s => task'[x] = task[x]
  BY DEF IInv, TypeOK, Goto
<1>2. \A x \in Scan : Later(task[x], task'[x])
  BY <1>1 DEF Later
<1>3. \A x \in Scan : task'[x].pc \in {"upsert", "assoc"} =>
        task'[x] = task[x] /\ (Present(x)' => Present(x))
  BY <1>1
<1> QED
  BY <1>2, <1>3, QuietStep

(* beginScan, the failures of runEngine, the SBOM, the final status and the *)
(* death of a worker.                                                       *)
LEMMA QuietWorkerSteps ==
  ASSUME IInv, TypeOK', NEW s \in Scan,
         \/ BeginProject(s) \/ BeginScan(s) \/ BeginFails(s)
         \/ FindingNotRecorded(s) \/ AssociationFails(s)
         \/ GenerateSBOM(s) \/ SBOMFails(s) \/ Finish(s) \/ Announce(s)
         \/ KillCLI(s)
  PROVE  IInv'
<1> DEFINE t == task[s]
           Quiet == {"project", "refused", "sbom", "engine", "finish",
                     "announce", "done", "dead"}
<1>1. /\ TypeOK /\ t \in Task /\ task \in [Scan -> Task]
      /\ \A x \in artifacts : Present(x) /\ x \in Scan
  BY DEF IInv, TypeOK, RowsConsistent, StoreTypeOK
<1>2. /\ UNCHANGED <<engineRuns, findings, scanFindings>>
      /\ projects \subseteq projects'
      /\ \A x \in Scan : Present(x) => Present(x)'
      /\ \A x \in Scan : x # s /\ Present(x)' => Present(x)
      /\ \A x \in artifacts' : Present(x)'
  <2>1. CASE UNCHANGED storeVars
    BY <1>1, <2>1 DEF storeVars, Present
  <2>2. CASE BeginProject(s)
    BY <1>1, <2>2 DEF BeginProject, UpsertProject, Present
  <2>3. CASE BeginScan(s)
    BY <1>1, <2>3 DEF BeginScan, CreateScan, Present, TypeOK, StoreTypeOK,
                      ScanRowStatus
  <2>4. CASE GenerateSBOM(s)
    BY <1>1, <2>4 DEF GenerateSBOM, CreateArtifact, Present
  <2>5. CASE Finish(s) /\ ~UNCHANGED storeVars
    <3>1. Verdict(s) \in ScanRowStatus
      BY DEF Verdict, ScanRowStatus
    <3>2. /\ UpdateScanStatus(s, Verdict(s))
          /\ scanStatus \in [Scan -> ScanRowStatus \cup {"none", "deleted"}]
      BY <1>1, <2>5 DEF Finish, TypeOK, StoreTypeOK
    <3> QED
      BY <1>1, <3>1, <3>2 DEF UpdateScanStatus, Present
  <2> QED
    BY <2>1, <2>2, <2>3, <2>4, <2>5
    DEF BeginFails, FindingNotRecorded, AssociationFails, SBOMFails, Finish,
        Announce, KillCLI
<1>3. PICK u \in Task : /\ Goto(s, u) /\ Later(t, u)
                        /\ u.pc \notin {"upsert", "assoc"}
  <2>1. CASE FindingNotRecorded(s) \/ AssociationFails(s)
    <3>1. Goto(s, AfterEngine(s, WithErr(t, "store")))
      BY <2>1 DEF FindingNotRecorded, AssociationFails
    <3>2. WithErr(t, "store") \in Task /\ WithErr(t, "store").pos = t.pos
      BY <1>1, ResultType DEF WithErr, Task
    <3> QED
      BY <1>1, <3>1, <3>2, LaterAfterEngine
  <2>2. CASE ~(FindingNotRecorded(s) \/ AssociationFails(s))
    <3>1. PICK u : /\ Goto(s, u)
                   /\ \E pc \in Quiet :
                        /\ \/ u = [t EXCEPT !.pc = pc]
                           \/ u = [t EXCEPT !.pc = pc, !.sbomErr = TRUE]
                        /\ \/ t.pc \in {"idle", "project"}
                           \/ pc \notin {"engine", "project"}
      BY <2>2 DEF BeginProject, BeginScan, BeginFails, MayBegin, At,
                  GenerateSBOM, SBOMFails, Finish, Announce, KillCLI,
                  AfterEngines
    <3>2. u \in Task
      BY <1>1, <3>1 DEF Goto, TypeOK
    <3>3. u.pos = t.pos /\ u.pc \in Quiet
      BY <1>1, <3>1 DEF Task
    <3>4. \/ t.pc \in {"idle", "project", "engine"}
          \/ u.pc \notin {"engine", "project"}
      BY <1>1, <3>1 DEF Task
    <3>5. Later(t, u)
      BY <1>1, <3>2, <3>3, <3>4, LaterCases
    <3> QED
      BY <3>1, <3>2, <3>3, <3>5
  <2> QED
    BY <2>1, <2>2
<1> QED
  BY <1>2, <1>3, QuietWorker

(* Time, and the server's start and stop. *)
LEMMA QuietOtherSteps ==
  ASSUME IInv, TypeOK',
         \/ \E s \in Scan : HourPasses(s)
         \/ ServerStops \/ ServeStart \/ UNCHANGED vars
  PROVE  IInv'
<1>1. /\ TypeOK /\ task \in [Scan -> Task] /\ \A x \in Scan : task[x] \in Task
      /\ scanStatus \in [Scan -> ScanRowStatus \cup {"none", "deleted"}]
      /\ \A x \in artifacts : Present(x) /\ x \in Scan
  BY DEF IInv, TypeOK, RowsConsistent, StoreTypeOK
<1>2. UNCHANGED <<projects, engineRuns, findings, scanFindings, artifacts>>
  BY DEF HourPasses, ServerStops, ServeStart, ReapStaleRunningScans, storeVars,
         vars
<1>3. \A x \in Scan : Present(x)' <=> Present(x)
  <2>1. CASE UNCHANGED scanStatus
    BY <2>1 DEF Present
  <2>2. CASE ReapStaleRunningScans(old)
    BY <1>1, <2>2 DEF ReapStaleRunningScans, Present, ScanRowStatus
  <2> QED
    BY <2>1, <2>2 DEF HourPasses, ServerStops, ServeStart, storeVars, vars
<1>4. \A x \in Scan :
        \/ task'[x] = task[x]
        \/ task'[x] = [task[x] EXCEPT !.pc = "dead"]
  BY DEF HourPasses, ServerStops, ServeStart, vars
<1>5. ASSUME NEW x \in Scan
      PROVE  /\ Later(task[x], task'[x])
             /\ task'[x].pc \in {"upsert", "assoc"} => task'[x] = task[x]
  <2>1. CASE task'[x] = task[x]
    BY <2>1 DEF Later
  <2>2. CASE task'[x] = [task[x] EXCEPT !.pc = "dead"]
    <3>1. task'[x] \in Task
      BY DEF TypeOK
    <3>2. task'[x].pos = task[x].pos /\ task'[x].pc = "dead"
      BY <1>1, <2>2 DEF Task
    <3> QED
      BY <1>1, <3>1, <3>2, LaterCases
  <2> QED
    BY <1>4, <2>1, <2>2
<1> QED
  BY <1>1, <1>2, <1>3, <1>5, QuietStep

(* Every step keeps the invariant: each of the operations of the            *)
(* orchestrator, the API and the server's start, whatever the others do.    *)
LEMMA StepInv == IInv /\ [Next]_vars => IInv'
<1> SUFFICES ASSUME IInv, [Next]_vars PROVE IInv'
  OBVIOUS
<1>1. ASSUME NEW s \in Scan, RunEngine(s)
      PROVE  IInv'
  <2>1. CASE \/ SkipEngine(s) \/ EngineFails(s) \/ EngineUnparsable(s)
             \/ \E report \in Reports : EngineReports(s, report)
             \/ EngineNotRecorded(s)
    BY <2>1, EngineSteps
  <2>2. CASE RecordFinding(s)
    BY <2>2, StoringStepTypes, FindingInserted, FindingMerged
  <2>3. CASE AssociateFinding(s)
    BY <2>3, StoringStepTypes, ObservationInserted
  <2>4. CASE FindingNotRecorded(s) \/ AssociationFails(s)
    BY <2>4, StoringStepTypes, QuietWorkerSteps
  <2> QED
    BY <1>1, <2>1, <2>2, <2>3, <2>4 DEF RunEngine
<1>2. ASSUME NEW s \in Scan,
             \/ BeginProject(s) \/ BeginScan(s) \/ BeginFails(s)
      PROVE  IInv'
  BY <1>2, EngineStepTypes, QuietWorkerSteps DEF IInv
<1>3. ASSUME NEW s \in Scan,
             \/ GenerateSBOM(s) \/ SBOMFails(s) \/ Finish(s) \/ Announce(s)
             \/ KillCLI(s)
      PROVE  IInv'
  BY <1>3, OtherStepTypes, QuietWorkerSteps DEF IInv
<1>4. ASSUME NEW s \in Scan, RemoveScan(s)
      PROVE  IInv'
  BY <1>4, OtherStepTypes, ScanDeleted DEF IInv
<1>5. ASSUME NEW f \in findings, NEW v \in FindingStatus, TriageFinding(f, v)
      PROVE  IInv'
  BY <1>5, OtherStepTypes, FindingTriaged DEF IInv
<1>6. CASE (\E s \in Scan : HourPasses(s)) \/ ServerStops \/ ServeStart
  BY <1>6, OtherStepTypes, QuietOtherSteps DEF IInv
<1>7. CASE UNCHANGED vars
  <2>1. TypeOK'
    BY <1>7 DEF IInv, TypeOK, StoreTypeOK, vars, storeVars
  <2> QED
    BY <1>7, <2>1, QuietOtherSteps
<1> QED
  BY <1>1, <1>2, <1>3, <1>4, <1>5, <1>6, <1>7 DEF Next, WorkerStep

(* The conjunction is an invariant of the system. *)
THEOREM Invariant == Spec => []IInv
BY InitInv, StepInv, PTL DEF Spec

(* Every table and every worker stays well typed. *)
THEOREM TypeCorrect == Spec => []TypeOK
BY Invariant, PTL DEF IInv

(* The foreign keys hold and the columns stored twice agree, however        *)
(* workers, deletions, triage and restarts interleave.                      *)
THEOREM StoreConsistent == Spec => []RowsConsistent
BY Invariant, PTL DEF IInv

(* One row per engine of a plan, per finding of a project and per           *)
(* observation of a scan.                                                   *)
THEOREM KeysUnique == Spec => []OneRowPerKey
BY Invariant, PTL DEF IInv

(* The id a worker holds between its two statements names the finding in    *)
(* hand or nothing, even if the row was deleted or moved meanwhile.         *)
THEOREM WorkersHoldTheirRows == Spec => []WorkersKnowTheirRows
BY Invariant, PTL DEF IInv
=============================================================================
