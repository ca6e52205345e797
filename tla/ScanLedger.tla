----------------------------- MODULE ScanLedger -----------------------------
(***************************************************************************)
(* What the database of Vigila promises its reader, without saying how it  *)
(* is kept: a project's current view of its findings, and for each scan    *)
(* that is on record its status and what it observed.  There are no row    *)
(* ids, engine runs, workers or crashes here.  ScanFlow implements it.     *)
(***************************************************************************)
CONSTANTS Scan, Project, Hash, ProjectOf

VARIABLES
  state,     \* of each scan, as in scans.status
  view,      \* current findings: project, hash, triage status and the scan
             \* that reported it last
  observed   \* pairs of a scan and a hash

vars == <<state, view, observed>>

Entry == [project : Project, hash : Hash,
          status : {"open", "resolved", "ignored"}, by : Scan]

Init ==
  /\ state = [s \in Scan |-> "none"]
  /\ view = {}
  /\ observed = {}

Of(p, h) == {e \in view : e.project = p /\ e.hash = h}

(* A scan may still be reporting after it was marked failed, never after   *)
(* it was marked completed.                                                *)
Reporting(s) == state[s] \in {"running", "failed"}

Open(s) ==
  /\ state[s] = "none"
  /\ state' = [state EXCEPT ![s] = "running"]
  /\ UNCHANGED <<view, observed>>

(* The view has one entry per finding.  Seen again, it is the latest       *)
(* scan's, and open unless it was ignored.                                 *)
Report(s, h) ==
  LET p == ProjectOf[s] IN
  /\ Reporting(s)
  /\ \/ /\ Of(p, h) = {}
        /\ view' = view \cup
             {[project |-> p, hash |-> h, status |-> "open", by |-> s]}
     \/ \E e \in Of(p, h) :
          view' = (view \ {e}) \cup
            {[e EXCEPT !.by = s,
                       !.status = IF @ = "resolved" THEN "open" ELSE @]}
  /\ UNCHANGED <<state, observed>>

(* Only what is in the project's view can be observed.                     *)
Observe(s, h) ==
  /\ Reporting(s)
  /\ Of(ProjectOf[s], h) # {}
  /\ observed' = observed \cup {<<s, h>>}
  /\ UNCHANGED <<state, view>>

Close(s, status) ==
  /\ Reporting(s)
  /\ state' = [state EXCEPT ![s] = status]
  /\ UNCHANGED <<view, observed>>

Reap(S) ==
  /\ \A s \in S : state[s] = "running"
  /\ state' = [s \in Scan |-> IF s \in S THEN "failed" ELSE state[s]]
  /\ UNCHANGED <<view, observed>>

(* Deleting a scan takes what it was the last to report out of the view,   *)
(* and out of what every scan of the project observed.                     *)
Delete(s) ==
  LET lost == {e \in view : e.by = s} IN
  /\ state[s] \in {"running", "completed", "failed"}
  /\ state' = [state EXCEPT ![s] = "deleted"]
  /\ view' = view \ lost
  /\ observed' = {o \in observed :
       /\ o[1] # s
       /\ \A e \in lost : ~(e.project = ProjectOf[o[1]] /\ e.hash = o[2])}

Triage(e, status) ==
  /\ view' = (view \ {e}) \cup {[e EXCEPT !.status = status]}
  /\ UNCHANGED <<state, observed>>

Next ==
  \/ \E s \in Scan :
       \/ Open(s) \/ Delete(s)
       \/ \E h \in Hash : Report(s, h) \/ Observe(s, h)
       \/ \E status \in {"completed", "failed"} : Close(s, status)
  \/ \E S \in SUBSET Scan : Reap(S)
  \/ \E e \in view, status \in {"open", "resolved", "ignored"} :
       Triage(e, status)

Spec == Init /\ [][Next]_vars
=============================================================================
