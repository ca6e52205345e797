------------------------------ MODULE ScanFlow ------------------------------
(***************************************************************************)
(* Scans being run: the orchestrator's worker of each scan, in a CLI       *)
(* process of its own or in a goroutine of the web server, together with   *)
(* everything that changes the database under it: other workers, scan      *)
(* deletion, triage, and the clean-up the server does when it starts.      *)
(*                                                                         *)
(* A worker's step is one SQL statement with the local work up to the next *)
(* one, so that every interleaving of statements the code admits is a      *)
(* behaviour.  What an engine reports is chosen from Reports; whether it   *)
(* is installed, runs, exits as expected or can be parsed is a choice of   *)
(* the environment.                                                        *)
(***************************************************************************)
EXTENDS VigilaStore, Sequences

CONSTANTS
  Job,        \* what each scan is asked to do
  Reports,    \* outputs an engine may be parsed into, sequences of Hash
  MaxFaults   \* statements that may fail for a reason of their own (disk,
              \* SQLITE_BUSY after busy_timeout)

(* engines: length of the plan; web: started through the API, which offers  *)
(* no SBOM.  An SBOM-only scan has no engines, and is refused before it has *)
(* a row unless its target is a path.                                       *)
JobType ==
  [kind : {"engines", "sbom"}, engines : Nat, failFast : BOOLEAN,
   withSBOM : BOOLEAN, isPath : BOOLEAN, web : BOOLEAN]

ASSUME JobAssumption ==
  /\ Job \in [Scan -> JobType]
  /\ \A s \in Scan :
       /\ Job[s].kind = "sbom" => Job[s].isPath /\ Job[s].engines = 0
       /\ Job[s].web => Job[s].kind = "engines" /\ ~Job[s].withSBOM
ASSUME ReportsAssumption == Reports \subseteq Seq(Hash)
ASSUME MaxFaultsAssumption == MaxFaults \in Nat

VARIABLES
  task,      \* the worker of each scan
  events,    \* events published by web scans
  serverUp,  \* the web server is running
  old,       \* scans created more than an hour ago
  faults     \* statements that failed for a reason of their own, so far

vars == <<storeVars, task, events, serverUp, old, faults>>

(* err: result.Err, "engine" for an engine's own failure and "store" for a *)
(* failed statement; reported: all that the engines' outputs parsed into;     *)
(* out: what is left of the output being stored; row: the id UpsertFinding  *)
(* returned for its head.                                                   *)
PC == {"idle", "project", "engine", "upsert", "assoc", "sbom", "finish",
       "announce", "done", "refused", "dead"}
Live == PC \ {"idle", "done", "refused", "dead"}
NoRow == [run |-> <<>>, nth |-> 0]
Task ==
  [pc : PC, pos : Nat, ran : Nat, skipped : SUBSET Nat,
   err : {"none", "engine", "store"}, sbomErr : BOOLEAN,
   out : Seq(Hash), row : FindingId \cup {NoRow}, reported : SUBSET Hash]

(* pos = 0 is the scan itself (scan_completed), otherwise an engine of its *)
(* plan (engine_completed).                                                *)
Event == [scan : Scan, pos : Nat, status : RunStatus]

TypeOK ==
  /\ StoreTypeOK
  /\ task \in [Scan -> Task]
  /\ events \subseteq Event
  /\ serverUp \in BOOLEAN
  /\ old \subseteq Scan
  /\ faults \in 0..MaxFaults

NewTask ==
  [pc |-> "idle", pos |-> 1, ran |-> 0, skipped |-> {}, err |-> "none",
   sbomErr |-> FALSE, out |-> <<>>, row |-> NoRow, reported |-> {}]

Init ==
  /\ StoreInit
  /\ task = [s \in Scan |-> NewTask]
  /\ events = {}
  /\ serverUp = FALSE
  /\ old = {}
  /\ faults = 0

----------------------------------------------------------------------------
At(s, pc) == task[s].pc = pc

(* The statement the worker is about to make fails though nothing forbids it. *)
Fault == faults < MaxFaults /\ faults' = faults + 1

Emit(s, pos, status) ==
  events' = IF Job[s].web
              THEN events \cup {[scan |-> s, pos |-> pos, status |-> status]}
              ELSE events

(* Past the last engine: the SBOM if asked for, then the final status.     *)
AfterEngines(s) == IF Job[s].withSBOM THEN "sbom" ELSE "finish"

(* Mutant: each engine begins with a result of its own.                    *)
EngineForgetsErr(s, t) ==
  IF t.pos = Job[s].engines
    THEN [t EXCEPT !.pc = AfterEngines(s), !.out = <<>>, !.row = NoRow]
    ELSE [t EXCEPT !.pc = "engine", !.pos = @ + 1, !.out = <<>>, !.row = NoRow,
                   !.err = "none"]

(* What t becomes when the worker of s is through with the engine t.pos.   *)
AfterEngine(s, t) ==
  IF \/ t.pos = Job[s].engines
     \/ Job[s].failFast /\ t.err # "none"
    THEN [t EXCEPT !.pc = AfterEngines(s), !.out = <<>>, !.row = NoRow]
    ELSE [t EXCEPT !.pc = "engine", !.pos = @ + 1, !.out = <<>>, !.row = NoRow]

Goto(s, t) == task' = [task EXCEPT ![s] = t]

----------------------------------------------------------------------------
(* beginScan: two statements, the second of which creates the row.         *)

MayBegin(s) == At(s, "idle") /\ (Job[s].web => serverUp)

BeginProject(s) ==
  /\ MayBegin(s)
  /\ UpsertProject(ProjectOf[s])
  /\ Goto(s, [task[s] EXCEPT !.pc = "project"])
  /\ UNCHANGED <<events, serverUp, old, faults>>

BeginScan(s) ==
  /\ At(s, "project")
  /\ CreateScan(s)
  /\ Goto(s, [task[s] EXCEPT
       !.pc = IF Job[s].kind = "sbom" THEN "sbom"
              ELSE IF Job[s].engines = 0 THEN AfterEngines(s) ELSE "engine"])
  /\ UNCHANGED <<events, serverUp, old, faults>>

(* Either statement fails: the caller gets the error and no scan is run.   *)
BeginFails(s) ==
  /\ MayBegin(s) \/ At(s, "project")
  /\ Fault
  /\ Goto(s, [task[s] EXCEPT !.pc = "refused"])
  /\ UNCHANGED <<storeVars, events, serverUp, old>>

----------------------------------------------------------------------------
(* runEngine *)

RunOfNext(s) == <<s, task[s].pos + 1>>   \* mutant: the wrong engine
Run(s) == <<s, task[s].pos>>
WithErr(t, e) == [t EXCEPT !.err = e]
Started(t) == [t EXCEPT !.ran = @ + 1]

(* CheckInstalled fails.  The error of the insert is discarded, so the     *)
(* engine counts as skipped and is announced whether or not it has a row.  *)
SkipEngine(s) ==
  /\ At(s, "engine")
  /\ \/ CreateEngineRun(Run(s), "skipped") /\ UNCHANGED faults
     \/ ~Present(s) /\ UNCHANGED <<storeVars, faults>>
     \/ Fault /\ UNCHANGED storeVars
  /\ Emit(s, task[s].pos, "skipped")
  /\ Goto(s, AfterEngine(s, [task[s] EXCEPT !.skipped = @ \cup {task[s].pos}]))
  /\ UNCHANGED <<serverUp, old>>

(* The engine cannot be run or exits with an unexpected code.              *)
EngineFails(s) ==
  /\ At(s, "engine")
  /\ CreateEngineRun(Run(s), "failed")
  /\ Emit(s, task[s].pos, "failed")
  /\ Goto(s, AfterEngine(s, WithErr(Started(task[s]), "engine")))
  /\ UNCHANGED <<serverUp, old, faults>>

(* Its output cannot be parsed: the row says completed, no event is sent.  *)
EngineUnparsable(s) ==
  /\ At(s, "engine")
  /\ CreateEngineRun(Run(s), "completed")
  /\ Goto(s, AfterEngine(s, WithErr(Started(task[s]), "engine")))
  /\ UNCHANGED <<events, serverUp, old, faults>>

EngineReports(s, report) ==
  /\ At(s, "engine")
  /\ CreateEngineRun(Run(s), "completed")
  /\ IF report = <<>>
       THEN /\ Emit(s, task[s].pos, "completed")
            /\ Goto(s, AfterEngine(s, Started(task[s])))
       ELSE /\ UNCHANGED events
            /\ Goto(s, [Started(task[s]) EXCEPT
                 !.pc = "upsert", !.out = report,
                 !.reported = @ \cup {report[i] : i \in DOMAIN report}])
  /\ UNCHANGED <<serverUp, old, faults>>

(* The insert of the engine run fails: the scan's row is gone, or a fault. *)
EngineNotRecorded(s) ==
  /\ At(s, "engine")
  /\ (~Present(s) /\ UNCHANGED faults) \/ Fault
  /\ Goto(s, AfterEngine(s, WithErr(Started(task[s]), "store")))
  /\ UNCHANGED <<storeVars, events, serverUp, old>>

(* The row of the next finding, and of what ties it to this scan.          *)
NextFindingAsNew(s) ==   \* mutant: a status the schema does not know
  [id |-> [run |-> Run(s), nth |-> Len(task[s].out)],
   project |-> ProjectOf[s], hash |-> Head(task[s].out),
   scan |-> s, run |-> Run(s), status |-> "new"]
NextFinding(s) ==
  [id |-> [run |-> Run(s), nth |-> Len(task[s].out)],
   project |-> ProjectOf[s], hash |-> Head(task[s].out),
   scan |-> s, run |-> Run(s), status |-> "open"]
NextObservation(s) ==
  [scan |-> s, finding |-> task[s].row, hash |-> Head(task[s].out)]

RecordFinding(s) ==
  /\ At(s, "upsert")
  /\ UpsertFinding(NextFinding(s))
  /\ \E f \in findings' :
       /\ f.project = ProjectOf[s] /\ f.hash = Head(task[s].out)
       /\ Goto(s, [task[s] EXCEPT !.pc = "assoc", !.row = f.id])
  /\ UNCHANGED <<events, serverUp, old, faults>>

(* Mutant: a failed upsert is tried again until it succeeds.               *)
FindingRetried(s) ==
  /\ At(s, "upsert")
  /\ ~FindingKeysExist(NextFinding(s))
  /\ UNCHANGED vars

FindingNotRecorded(s) ==
  /\ At(s, "upsert")
  /\ (~FindingKeysExist(NextFinding(s)) /\ UNCHANGED faults) \/ Fault
  /\ Goto(s, AfterEngine(s, WithErr(task[s], "store")))
  /\ UNCHANGED <<storeVars, events, serverUp, old>>

(* The association, and after the last finding the event.                  *)
AssociateFinding(s) ==
  /\ At(s, "assoc")
  /\ CreateScanFinding(NextObservation(s))
  /\ IF Tail(task[s].out) = <<>>
       THEN /\ Emit(s, task[s].pos, "completed")
            /\ Goto(s, AfterEngine(s, task[s]))
       ELSE /\ UNCHANGED events
            /\ Goto(s, [task[s] EXCEPT
                 !.pc = "upsert", !.out = Tail(@), !.row = NoRow])
  /\ UNCHANGED <<serverUp, old, faults>>

AssociationFails(s) ==
  /\ At(s, "assoc")
  /\ \/ /\ ~Associated(NextObservation(s))
        /\ ~ScanFindingKeysExist(NextObservation(s))
        /\ UNCHANGED faults
     \/ Fault
  /\ Goto(s, AfterEngine(s, WithErr(task[s], "store")))
  /\ UNCHANGED <<storeVars, events, serverUp, old>>

----------------------------------------------------------------------------
(* generateSBOM and the end of runAndFinish and RunSBOMOnly *)

GenerateSBOM(s) ==
  /\ At(s, "sbom") /\ Job[s].isPath
  /\ CreateArtifact(s)
  /\ Goto(s, [task[s] EXCEPT !.pc = "finish"])
  /\ UNCHANGED <<events, serverUp, old, faults>>

(* Not a path, the generator fails, or the artifact cannot be inserted.    *)
SBOMFails(s) ==
  /\ At(s, "sbom")
  /\ Goto(s, [task[s] EXCEPT !.pc = "finish", !.sbomErr = TRUE])
  /\ UNCHANGED <<storeVars, events, serverUp, old, faults>>

(* Mutant: result.Err does not count once an engine has run.               *)
VerdictIgnoresErr(s) ==
  IF Job[s].kind = "engines" /\ task[s].ran = 0 THEN "failed" ELSE "completed"

(* The final status.  An SBOM error fails only an SBOM-only scan.          *)
Verdict(s) ==
  IF \/ Job[s].kind = "sbom" /\ task[s].sbomErr
     \/ Job[s].kind = "engines" /\ (task[s].err # "none" \/ task[s].ran = 0)
    THEN "failed" ELSE "completed"

(* A failed update is only logged.                                         *)
Finish(s) ==
  /\ At(s, "finish")
  /\ \/ UpdateScanStatus(s, Verdict(s)) /\ UNCHANGED faults
     \/ Fault /\ UNCHANGED storeVars
  /\ Goto(s, [task[s] EXCEPT !.pc = "announce"])
  /\ UNCHANGED <<events, serverUp, old>>

Announce(s) ==
  /\ At(s, "announce")
  /\ Emit(s, 0, Verdict(s))
  /\ Goto(s, [task[s] EXCEPT !.pc = "done"])
  /\ UNCHANGED <<storeVars, serverUp, old, faults>>

----------------------------------------------------------------------------
(* Around the workers *)

(* DELETE /api/scans/{id} and vigila scan delete; nothing asks whether the *)
(* scan is still running.                                                  *)
RemoveScan(s) ==
  /\ Present(s)
  /\ DeleteScan(s)
  /\ UNCHANGED <<task, events, serverUp, old, faults>>

(* PATCH /api/findings/{id} *)
TriageFinding(f, status) ==
  /\ serverUp
  /\ UpdateFindingStatus(f.id, status)
  /\ UNCHANGED <<task, events, serverUp, old, faults>>

HourPasses(s) ==
  /\ scanStatus[s] = "running"
  /\ old' = old \cup {s}
  /\ UNCHANGED <<storeVars, task, events, serverUp, faults>>

KillCLI(s) ==
  /\ ~Job[s].web /\ task[s].pc \in Live
  /\ Goto(s, [task[s] EXCEPT !.pc = "dead"])
  /\ UNCHANGED <<storeVars, events, serverUp, old, faults>>

(* The server stops, and with it every scan it was running.                *)
ServerStops ==
  /\ serverUp
  /\ serverUp' = FALSE
  /\ task' = [s \in Scan |->
       IF Job[s].web /\ task[s].pc \in Live
         THEN [task[s] EXCEPT !.pc = "dead"] ELSE task[s]]
  /\ UNCHANGED <<storeVars, events, old, faults>>

(* vigila serve: reap, then listen.  A failed reap is only logged.         *)
ServeStart ==
  /\ ~serverUp
  /\ serverUp' = TRUE
  /\ \/ ReapStaleRunningScans(old) /\ UNCHANGED faults
     \/ Fault /\ UNCHANGED storeVars
  /\ UNCHANGED <<task, events, old>>

----------------------------------------------------------------------------
RunEngine(s) ==
  \/ SkipEngine(s) \/ EngineFails(s) \/ EngineUnparsable(s)
  \/ \E report \in Reports : EngineReports(s, report)
  \/ EngineNotRecorded(s)
  \/ RecordFinding(s) \/ FindingNotRecorded(s)
  \/ AssociateFinding(s) \/ AssociationFails(s)

WorkerStep(s) ==
  \/ BeginScan(s)
  \/ RunEngine(s)
  \/ GenerateSBOM(s) \/ SBOMFails(s)
  \/ Finish(s) \/ Announce(s)

Next ==
  \/ \E s \in Scan :
       \/ BeginProject(s) \/ BeginFails(s) \/ WorkerStep(s)
       \/ RemoveScan(s) \/ HourPasses(s) \/ KillCLI(s)
  \/ \E f \in findings, status \in FindingStatus : TriageFinding(f, status)
  \/ ServerStops
  \/ ServeStart

Spec == Init /\ [][Next]_vars

(* A worker that has begun keeps going: it is sequential code that nothing  *)
(* cancels (the context is context.Background()), provided every engine it  *)
(* runs terminates.  Time passes.  Nobody has to start, stop or delete.     *)
Fairness ==
  \A s \in Scan : WF_vars(WorkerStep(s)) /\ WF_vars(HourPasses(s))

FairSpec == Spec /\ Fairness

----------------------------------------------------------------------------
(* Properties *)

Observed(s) == {a.hash : a \in {b \in scanFindings : b.scan = s}}

(* A scan of the project of s has been deleted. *)
ProjectLostAScan(s) ==
  \E d \in Scan : scanStatus[d] = "deleted" /\ ProjectOf[d] = ProjectOf[s]

(* No row refers to a row that is gone (the foreign keys), and the columns  *)
(* the schema stores twice agree: a finding's engine run is a completed run *)
(* of the scan the finding names, that scan is of the finding's project,    *)
(* and an observation has the hash and the project of its finding.  The     *)
(* upsert moves scan_id and engine_run_id of a row other workers hold.      *)
RowsConsistent ==
  /\ \A r \in engineRuns : Present(r.run[1])
  /\ \A f \in findings :
       /\ f.project \in projects /\ f.project = ProjectOf[f.scan]
       /\ Present(f.scan) /\ f.run[1] = f.scan
       /\ [run |-> f.run, status |-> "completed"] \in engineRuns
  /\ \A a \in scanFindings :
       /\ Present(a.scan)
       /\ \E f \in findings :
            f.id = a.finding /\ f.hash = a.hash /\ f.project = ProjectOf[a.scan]
  /\ \A s \in artifacts : Present(s)

(* A project has one row per finding, a run one row per engine of the plan  *)
(* and a scan observes a finding once, however many workers report it.      *)
OneRowPerKey ==
  /\ \A r, q \in engineRuns : r.run = q.run => r = q
  /\ \A f, g \in findings :
       f.id = g.id \/ (f.project = g.project /\ f.hash = g.hash) => f = g
  /\ \A a, b \in scanFindings : a.scan = b.scan /\ a.hash = b.hash => a = b

(* What a worker of scan s has used of the keys it hands out: an engine run *)
(* once it is past the insert, the numbers of a run's findings downwards    *)
(* from the length of its output.                                           *)
RunUsed(t, i) ==
  i < t.pos \/ (i = t.pos /\ t.pc \notin {"idle", "project", "engine"})
IdUsed(t, i, n) ==
  /\ RunUsed(t, i)
  /\ i = t.pos /\ t.pc = "upsert" => n > Len(t.out)
  /\ i = t.pos /\ t.pc = "assoc" => n >= Len(t.out)
Issued(id) == IdUsed(task[id.run[1]], id.run[2], id.nth)

(* While a worker stores findings, the run they belong to is on record as   *)
(* completed, if its scan is on record at all.  Between its two statements  *)
(* the id it holds is that of the finding in hand or of no row: a row that  *)
(* is deleted under it never comes back with the same id for another.  So   *)
(* rows that exist carry only keys that a worker has already used.          *)
WorkersKnowTheirRows ==
  /\ \A s \in Scan : task[s].pc \in {"upsert", "assoc"} =>
       /\ task[s].out # <<>>
       /\ Present(s) =>
            [run |-> Run(s), status |-> "completed"] \in engineRuns
  /\ \A s \in Scan : task[s].pc = "assoc" =>
       /\ task[s].row \in FindingId /\ Issued(task[s].row)
       /\ \A f \in findings : f.id = task[s].row =>
            f.project = ProjectOf[s] /\ f.hash = Head(task[s].out)
  /\ \A r \in engineRuns : RunUsed(task[r.run[1]], r.run[2])
  /\ \A f \in findings : Issued(f.id)

(* A scan on record as completed lacks no engine of its plan: each has a    *)
(* completed run, or was skipped, and one at least ran; an SBOM-only scan   *)
(* that completed has its SBOM (runAndFinish's choice of the final status). *)
CompletedIsComplete ==
  \A s \in Scan : scanStatus[s] = "completed" =>
    LET RanWell(i) == [run |-> <<s, i>>, status |-> "completed"] \in engineRuns
    IN  IF Job[s].kind = "sbom" THEN s \in artifacts ELSE
          /\ \A i \in 1..Job[s].engines : RanWell(i) \/ i \in task[s].skipped
          /\ \E i \in 1..Job[s].engines : RanWell(i)

(* What a completed scan observed is exactly what its engines reported, as  *)
(* long as no scan of the same project is deleted, and never more than      *)
(* that: other workers' upserts of the same findings take nothing away.     *)
HistoryIsWhatWasReported ==
  \A s \in Scan :
    /\ Observed(s) \subseteq task[s].reported
    /\ scanStatus[s] = "completed" /\ ~ProjectLostAScan(s) =>
         Observed(s) = task[s].reported

(* A statement of a worker fails only by a fault of its own or because a    *)
(* scan of the same project was deleted under it: no other worker's step,   *)
(* no triage and nothing of another project can make a scan fail.           *)
StoreErrorNeedsDeletion ==
  \A s \in Scan :
    task[s].err = "store" /\ faults = 0 => ProjectLostAScan(s)

(* The scan a finding names as its latest, once completed, observed it:     *)
(* findings.scan_id and scan_findings are written by two statements.        *)
LatestScanObservedIt ==
  \A f \in findings : scanStatus[f.scan] = "completed" =>
    \E a \in scanFindings : a.scan = f.scan /\ a.finding = f.id

(* What was published of a scan that is still on record is what its rows    *)
(* say, unless a statement failed by a fault: an engine's status is that of *)
(* its run, and the final status that of the scan, which the server's       *)
(* clean-up does not change afterwards.                                     *)
EventsMatchRows ==
  faults = 0 => \A e \in events : Present(e.scan) =>
    IF e.pos = 0 THEN scanStatus[e.scan] = e.status
    ELSE [run |-> <<e.scan, e.pos>>, status |-> e.status] \in engineRuns

(* The database, read as a ledger of what each scan observed and of the     *)
(* project's current view, changes only as ScanLedger allows.               *)
Ledger == INSTANCE ScanLedger WITH
  state    <- scanStatus,
  view     <- {[project |-> f.project, hash |-> f.hash,
                status |-> f.status, by |-> f.scan] : f \in findings},
  observed <- {<<a.scan, a.hash>> : a \in scanFindings}

ImplementsLedger == Ledger!Spec

(* A scan that has begun comes to its end or dies with its process, even    *)
(* when its rows are deleted under it or a statement fails.                 *)
WorkerEnds == \A s \in Scan : task[s].pc \in Live ~> task[s].pc \notin Live

(* No scan stays on record as running for ever, if the server is restarted  *)
(* again and again: what a killed worker, or one whose last update failed,  *)
(* leaves running is reaped at a start that is late enough.                 *)
NoScanRunsForever ==
  []<>serverUp /\ []<>~serverUp =>
    \A s \in Scan : scanStatus[s] = "running" ~> scanStatus[s] # "running"

(* What the comment on deleteScan says: the findings another scan shares    *)
(* are not affected, so what the others observed stays on record.           *)
DeletionSparesOtherScans ==
  [][\A d, s \in Scan :
       scanStatus[d] # "deleted" /\ scanStatus'[d] = "deleted" /\ s # d =>
         Observed(s) \subseteq Observed(s)']_vars
=============================================================================
