---------------------------- MODULE VigilaStore ----------------------------
(***************************************************************************)
(* The SQLite tables Vigila keeps, and the SQL statements that change      *)
(* them.  The application opens no transaction, so one statement is one    *)
(* atomic step: the operators below are those steps, each with the foreign *)
(* keys it is subject to, and every other module is built from them.       *)
(*                                                                         *)
(* A scan's row is identified by the scan's ULID (an element of Scan), a   *)
(* project's by its unique target_key, an engine run's by the scan and the *)
(* position of the engine in the scan's plan, and a finding's by the       *)
(* engine run that first inserted it and a number that tells apart the     *)
(* rows one run inserts.                                                   *)
(***************************************************************************)
EXTENDS Naturals, FiniteSets

CONSTANTS
  Scan,      \* ULIDs of the scans that may be created
  Project,   \* project identities (target_key)
  Hash,      \* finding fingerprints (hash_code)
  ProjectOf  \* the project each scan's target maps to (scans.project_id)

ASSUME ProjectOfAssumption == ProjectOf \in [Scan -> Project]

VARIABLES
  projects,      \* target_keys that have a row
  scanStatus,    \* scans.status; "none" before the row, "deleted" after it
  engineRuns,    \* rows of engine_runs
  findings,      \* rows of findings, the current view of a project
  scanFindings,  \* rows of scan_findings, what each scan observed
  artifacts      \* scans that have an SBOM row in artifacts

storeVars ==
  <<projects, scanStatus, engineRuns, findings, scanFindings, artifacts>>

ScanRowStatus == {"running", "completed", "failed"}
RunStatus     == {"completed", "failed", "skipped"}
FindingStatus == {"open", "resolved", "ignored"}

RunId       == Scan \X Nat
FindingId   == [run : RunId, nth : Nat]
EngineRun   == [run : RunId, status : RunStatus]
Finding     == [id : FindingId, project : Project, hash : Hash,
                scan : Scan, run : RunId, status : FindingStatus]
ScanFinding == [scan : Scan, finding : FindingId, hash : Hash]

StoreTypeOK ==
  /\ projects \subseteq Project
  /\ scanStatus \in [Scan -> ScanRowStatus \cup {"none", "deleted"}]
  /\ engineRuns \subseteq EngineRun
  /\ findings \subseteq Finding
  /\ scanFindings \subseteq ScanFinding
  /\ artifacts \subseteq Scan

StoreInit ==
  /\ projects = {}
  /\ scanStatus = [s \in Scan |-> "none"]
  /\ engineRuns = {}
  /\ findings = {}
  /\ scanFindings = {}
  /\ artifacts = {}

Present(s) == scanStatus[s] \in ScanRowStatus

----------------------------------------------------------------------------
(* projects and scans *)

UpsertProject(p) ==
  /\ projects' = projects \cup {p}
  /\ UNCHANGED <<scanStatus, engineRuns, findings, scanFindings, artifacts>>

CreateScan(s) ==
  /\ ProjectOf[s] \in projects
  /\ scanStatus' = [scanStatus EXCEPT ![s] = "running"]
  /\ UNCHANGED <<projects, engineRuns, findings, scanFindings, artifacts>>

(* Mutant: an upsert in place of the UPDATE, which revives a deleted scan. *)
UpdateScanStatusUpserts(s, status) ==
  /\ scanStatus' = [scanStatus EXCEPT ![s] = status]
  /\ UNCHANGED <<projects, engineRuns, findings, scanFindings, artifacts>>

(* An UPDATE by id: it changes nothing when the row is gone, and it does   *)
(* not look at the status it overwrites.                                   *)
UpdateScanStatus(s, status) ==
  /\ scanStatus' =
       IF Present(s) THEN [scanStatus EXCEPT ![s] = status] ELSE scanStatus
  /\ UNCHANGED <<projects, engineRuns, findings, scanFindings, artifacts>>

(* Mutants: the clean-up forgets to ask for running rows; or compares two  *)
(* text formats of a time, and never finds a row old enough.               *)
ReapAnyStatus(old) ==
  /\ scanStatus' = [s \in Scan |->
       IF Present(s) /\ s \in old THEN "failed" ELSE scanStatus[s]]
  /\ UNCHANGED <<projects, engineRuns, findings, scanFindings, artifacts>>
ReapFindsNothing(old) == old \subseteq Scan /\ UNCHANGED storeVars

(* Every running row of more than an hour becomes failed, whoever owns it. *)
ReapStaleRunningScans(old) ==
  /\ scanStatus' = [s \in Scan |->
       IF scanStatus[s] = "running" /\ s \in old
         THEN "failed" ELSE scanStatus[s]]
  /\ UNCHANGED <<projects, engineRuns, findings, scanFindings, artifacts>>

(* Mutant: scan_findings.finding_id without its foreign key.               *)
DeleteScanLeavesObservations(s) ==
  /\ scanStatus' = [scanStatus EXCEPT ![s] = "deleted"]
  /\ engineRuns' = {r \in engineRuns : r.run[1] # s}
  /\ findings' = {f \in findings : f.scan # s}
  /\ scanFindings' = {a \in scanFindings : a.scan # s}
  /\ artifacts' = artifacts \ {s}
  /\ UNCHANGED projects

(* ON DELETE CASCADE: the scan's engine runs and artifacts, the findings   *)
(* whose scan_id or engine_run_id is now gone, and the scan_findings rows  *)
(* of the scan or of a finding that is now gone.                           *)
DeleteScan(s) ==
  LET runsGone     == {r \in engineRuns : r.run[1] = s}
      findingsGone == {f \in findings :
                         \/ f.scan = s
                         \/ \E r \in runsGone : r.run = f.run}
  IN  /\ scanStatus' = [scanStatus EXCEPT ![s] = "deleted"]
      /\ engineRuns' = engineRuns \ runsGone
      /\ findings' = findings \ findingsGone
      /\ scanFindings' = {a \in scanFindings :
                            /\ a.scan # s
                            /\ \A f \in findingsGone : f.id # a.finding}
      /\ artifacts' = artifacts \ {s}
      /\ UNCHANGED projects

----------------------------------------------------------------------------
(* engine_runs, findings, scan_findings, artifacts *)

CreateEngineRun(run, status) ==
  /\ Present(run[1])
  /\ engineRuns' = engineRuns \cup {[run |-> run, status |-> status]}
  /\ UNCHANGED <<projects, scanStatus, findings, scanFindings, artifacts>>

FindingKeysExist(f) ==
  /\ f.project \in projects
  /\ Present(f.scan)
  /\ \E r \in engineRuns : r.run = f.run

(* Mutant: the upsert reopens an ignored finding as well.                  *)
RefreshedBlindly(status) == IF status = "open" THEN status ELSE "open"

(* What the upsert leaves of a triage decision: a finding seen again is    *)
(* reopened when it was resolved and stays ignored when it was ignored.    *)
Refreshed(status) == IF status = "resolved" THEN "open" ELSE status

(* The row g after f is found again; id, project and hash stay.            *)
Merged(g, f) ==
  [g EXCEPT !.scan = f.scan, !.run = f.run, !.status = Refreshed(g.status)]

SameFinding(f) == {g \in findings : g.project = f.project /\ g.hash = f.hash}

(* Mutants: INSERT OR REPLACE, which deletes the row with its observations *)
(* and inserts another; and a plain INSERT without the unique index.       *)
UpsertFindingReplaces(f) ==
  /\ FindingKeysExist(f)
  /\ findings' = (findings \ SameFinding(f)) \cup {f}
  /\ scanFindings' = {a \in scanFindings :
                        \A g \in SameFinding(f) : g.id # a.finding}
  /\ UNCHANGED <<projects, scanStatus, engineRuns, artifacts>>
UpsertFindingInserts(f) ==
  /\ FindingKeysExist(f)
  /\ findings' = findings \cup {f}
  /\ UNCHANGED <<projects, scanStatus, engineRuns, scanFindings, artifacts>>

UpsertFinding(f) ==
  /\ FindingKeysExist(f)
  /\ \/ /\ SameFinding(f) = {}
        /\ findings' = findings \cup {f}
     \/ /\ SameFinding(f) # {}
        /\ findings' = (findings \ SameFinding(f)) \cup
                         {Merged(g, f) : g \in SameFinding(f)}
  /\ UNCHANGED <<projects, scanStatus, engineRuns, scanFindings, artifacts>>

(* Mutant: the conflict target lacks scan_id.                              *)
AssociatedWithAnyScan(a) ==
  \E b \in scanFindings : b.scan \in Scan /\ b.hash = a.hash

(* INSERT ... ON CONFLICT(scan_id, hash_code) DO NOTHING *)
Associated(a) ==
  \E b \in scanFindings : b.scan = a.scan /\ b.hash = a.hash

ScanFindingKeysExist(a) ==
  /\ Present(a.scan)
  /\ \E f \in findings : f.id = a.finding

CreateScanFinding(a) ==
  /\ Associated(a) \/ ScanFindingKeysExist(a)
  /\ scanFindings' =
       IF Associated(a) THEN scanFindings ELSE scanFindings \cup {a}
  /\ UNCHANGED <<projects, scanStatus, engineRuns, findings, artifacts>>

UpdateFindingStatus(id, status) ==
  /\ \E f \in findings : f.id = id
  /\ findings' = {IF f.id = id THEN [f EXCEPT !.status = status] ELSE f :
                    f \in findings}
  /\ UNCHANGED <<projects, scanStatus, engineRuns, scanFindings, artifacts>>

CreateArtifact(s) ==
  /\ Present(s)
  /\ artifacts' = artifacts \cup {s}
  /\ UNCHANGED <<projects, scanStatus, engineRuns, findings, scanFindings>>
----------------------------------------------------------------------------
(* Queries.  A list that joins findings has one row per observation; it is  *)
(* given as a set, for a scan observes a finding once.                      *)

ListEngineRunsByScan(s) == {r \in engineRuns : r.run[1] = s}

ListProjectScans(p) == {s \in Scan : Present(s) /\ ProjectOf[s] = p}

ObservationsOf(s) == {a \in scanFindings : a.scan = s}

(* Mutant: what the other scan has, by findings.scan_id, which later scans *)
(* move.                                                                   *)
ObservationsNotInCurrent(s, t) ==
  {a \in ObservationsOf(s) :
     \A f \in findings : f.scan = t => f.hash # a.hash}

ObservationsOnlyIn(s, t) ==
  {a \in ObservationsOf(s) : \A b \in ObservationsOf(t) : b.hash # a.hash}

Joined(observations) ==
  {f \in findings : \E a \in observations : a.finding = f.id}

ListFindingsByScanAssoc(s) == Joined(ObservationsOf(s))

ListFindingsOnlyInScan(s, t) == Joined(ObservationsOnlyIn(s, t))

CountFindingsByScanAssoc(s) == Cardinality(ObservationsOf(s))

CountFindingsOnlyInScan(s, t) == Cardinality(ObservationsOnlyIn(s, t))

CountCommonFindings(s, t) ==
  Cardinality({pair \in ObservationsOf(s) \X ObservationsOf(t) :
                 pair[1].hash = pair[2].hash})
=============================================================================
