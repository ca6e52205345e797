------------------------------ MODULE Readers ------------------------------
(***************************************************************************)
(* A page or a report being put together while scans run and are deleted.  *)
(* Each reader makes several statements and no transaction holds them      *)
(* together, so workers, deletions and triage come between any two:        *)
(*                                                                         *)
(*   detail   GET /api/scans/{id}: the scan, then its engine runs          *)
(*   report   vigila report: the scan, its runs, what it observed          *)
(*   diff     vigila diff and GET .../diff/{other}: two scans, what is     *)
(*            only in the second, only in the first, and common to both    *)
(*   trends   GET /api/projects/{id}/trends: the project's scans, then up  *)
(*            to three counts for each                                     *)
(***************************************************************************)
EXTENDS ScanFlow, SequencesExt

CONSTANT Requests  \* what may be asked: a kind and one or two scans

ASSUME RequestsAssumption ==
  Requests \subseteq {"detail", "report", "diff", "trends"} \X Scan \X Scan

VARIABLE page  \* one request, from its first statement to its answer

readVars == <<vars, page>>

(* An answer, or one of the errors that end a request.                     *)
Ended == {"answered", "notFound", "crossProject", "error"}

(* Where a failed statement ends the request; the counts of trends do not.  *)
Lookups == {"from", "to", "runs", "observed", "added", "removed", "common",
            "project", "scans"}

NewPage ==
  [kind |-> "none", at |-> "idle", from |-> <<>>, to |-> <<>>,
   status |-> <<>>, runs |-> {}, seen |-> {}, added |-> {}, removed |-> {},
   common |-> 0, points |-> <<>>, left |-> <<>>, guessed |-> FALSE,
   intact |-> FALSE]

ReadInit == Init /\ page = NewPage

ReadAt(at) == page.at = at /\ UNCHANGED vars

(* A statement fails: the handler answers 500 and the command an error;    *)
(* only the detail page goes without the engine runs it could not read.    *)
ReadFails ==
  /\ \E at \in Lookups : ReadAt(at)
  /\ page' = [page EXCEPT
       !.at = IF page.kind = "detail" /\ page.at = "runs"
                THEN "answered" ELSE "error",
       !.guessed = TRUE]

----------------------------------------------------------------------------
(* The scans a request names *)

Request(kind, s, t) ==
  /\ ReadAt("idle")
  /\ page' = [page EXCEPT
       !.kind = kind, !.from = s, !.to = t,
       !.at = IF kind = "trends" THEN "project" ELSE "from"]

AfterFrom(kind) == IF kind \in {"detail", "report"} THEN "runs" ELSE "to"

ReadFrom ==
  /\ ReadAt("from")
  /\ page' = IF Present(page.from)
       THEN [page EXCEPT !.status = <<scanStatus[page.from]>>,
                         !.at = AfterFrom(page.kind)]
       ELSE [page EXCEPT !.at = "notFound"]

ReadTo ==
  /\ ReadAt("to")
  /\ page' =
       IF ~Present(page.to) THEN [page EXCEPT !.at = "notFound"]
       ELSE IF ProjectOf[page.from] # ProjectOf[page.to]
         THEN [page EXCEPT !.at = "crossProject"]
       ELSE [page EXCEPT !.status = Append(@, scanStatus[page.to]),
                         !.intact = ~ProjectLostAScan(page.from),
                         !.at = "added"]

----------------------------------------------------------------------------
(* detail and report *)

ReadRuns ==
  /\ ReadAt("runs")
  /\ page' = [page EXCEPT
       !.runs = ListEngineRunsByScan(page.from),
       !.at = IF page.kind = "detail" THEN "answered" ELSE "observed"]

(* Mutant: the report lists the findings by findings.scan_id.              *)
ReadObservedByScanId ==
  /\ ReadAt("observed")
  /\ page' = [page EXCEPT
       !.seen = {f.hash : f \in {g \in findings : g.scan = page.from}},
       !.at = "answered"]

ReadObserved ==
  /\ ReadAt("observed")
  /\ page' = [page EXCEPT
       !.seen = {f.hash : f \in ListFindingsByScanAssoc(page.from)},
       !.at = "answered"]

(* diff *)

ReadAdded ==
  /\ ReadAt("added")
  /\ page' = [page EXCEPT
       !.added = {f.hash : f \in ListFindingsOnlyInScan(page.to, page.from)},
       !.at = "removed"]

ReadRemoved ==
  /\ ReadAt("removed")
  /\ page' = [page EXCEPT
       !.removed = {f.hash : f \in ListFindingsOnlyInScan(page.from, page.to)},
       !.at = "common"]

ReadCommon ==
  /\ ReadAt("common")
  /\ page' = [page EXCEPT
       !.common = CountCommonFindings(page.from, page.to), !.at = "answered"]

----------------------------------------------------------------------------
(* trends, of the project of page.from *)

ReadProject ==
  /\ ReadAt("project")
  /\ page' = [page EXCEPT
       !.at = IF ProjectOf[page.from] \in projects THEN "scans" ELSE "notFound"]

(* Past the last scan the points are the answer.                           *)
NextPoint(pg) == [pg EXCEPT !.at = IF pg.left = <<>> THEN "answered" ELSE "total"]

(* ORDER BY created_at, whose resolution is a second: scans of the same    *)
(* second come in any order.                                               *)
ReadScans ==
  /\ ReadAt("scans")
  /\ \E order \in SetToSeqs(ListProjectScans(ProjectOf[page.from])) :
       page' = NextPoint([page EXCEPT
         !.left = [i \in DOMAIN order |->
                     [scan |-> order[i], status |-> scanStatus[order[i]]]]])

Current == Head(page.left).scan
LastPoint == Len(page.points)
Previous == page.points[LastPoint - 1].scan

(* The error of a count is discarded, and the count is then 0.             *)
Counted(counted, zero) ==
  /\ UNCHANGED vars
  /\ \/ page' = counted
     \/ page' = [zero EXCEPT !.guessed = TRUE]

(* A project's first scan has none before it, and all it has is new.       *)
WithTotal(n) ==
  LET isFirst == page.points = <<>>
      point   == [scan |-> Current, status |-> Head(page.left).status,
                  total |-> n, added |-> IF isFirst THEN n ELSE 0,
                  resolved |-> 0]
      counted == [page EXCEPT !.points = Append(@, point)]
  IN  IF isFirst THEN NextPoint([counted EXCEPT !.left = Tail(@)])
      ELSE [counted EXCEPT !.at = "new"]

WithAdded(n) == [page EXCEPT !.points[LastPoint].added = n, !.at = "gone"]

WithResolved(n) ==
  NextPoint([page EXCEPT !.points[LastPoint].resolved = n, !.left = Tail(@)])

CountTotal ==
  /\ page.at = "total"
  /\ Counted(WithTotal(CountFindingsByScanAssoc(Current)), WithTotal(0))

(* Mutant: the arguments the wrong way round.                              *)
CountNewBackwards ==
  /\ page.at = "new"
  /\ Counted(WithAdded(CountFindingsOnlyInScan(Previous, Current)), WithAdded(0))

CountNew ==
  /\ page.at = "new"
  /\ Counted(WithAdded(CountFindingsOnlyInScan(Current, Previous)), WithAdded(0))

CountGone ==
  /\ page.at = "gone"
  /\ Counted(WithResolved(CountFindingsOnlyInScan(Previous, Current)),
             WithResolved(0))

----------------------------------------------------------------------------
Read ==
  \/ ReadFrom \/ ReadTo \/ ReadFails
  \/ ReadRuns \/ ReadObserved
  \/ ReadAdded \/ ReadRemoved \/ ReadCommon
  \/ ReadProject \/ ReadScans \/ CountTotal \/ CountNew \/ CountGone

ReadNext ==
  \/ Next /\ UNCHANGED page
  \/ \E r \in Requests : Request(r[1], r[2], r[3])
  \/ Read

ReadSpec == ReadInit /\ [][ReadNext]_readVars

----------------------------------------------------------------------------
(* Properties *)

Answered(kinds) == page.kind \in kinds /\ page.at = "answered"

SaysCompleted ==
  \A i \in DOMAIN page.status : page.status[i] = "completed"

(* A detail page or report of a scan it shows as completed shows all of     *)
(* it: a run for each engine of its plan, whatever goes on in between, and  *)
(* everything they reported, unless a scan of the project was deleted.      *)
(* It is the order of the statements that makes this so: the status is read *)
(* first and written last.                                                  *)
CompletedIsShownWhole ==
  Answered({"detail", "report"}) /\ SaysCompleted
    /\ ~page.guessed /\ ~ProjectLostAScan(page.from) =>
    LET s == page.from IN
    /\ faults = 0 =>
         {r.run : r \in page.runs} = {<<s, i>> : i \in 1..Job[s].engines}
    /\ page.kind = "report" => page.seen = task[s].reported

(* A diff of two scans it shows as completed is the difference of what      *)
(* their engines reported, though three statements compute it while other   *)
(* scans move the findings' rows.  When one of those others is deleted      *)
(* under it, with the rows it has moved, findings may be missing from the   *)
(* diff; but none that both scans reported passes for a new or a resolved   *)
(* one, as its observations by the two go in one statement.                 *)
DiffIsExact ==
  LET before == task[page.from].reported
      after  == task[page.to].reported
  IN  Answered({"diff"}) /\ SaysCompleted =>
        /\ ~ProjectLostAScan(page.from) =>
             /\ page.added = after \ before
             /\ page.removed = before \ after
             /\ page.common = Cardinality(before \cap after)
        /\ page.intact /\ Present(page.from) /\ Present(page.to) =>
             /\ page.added \subseteq after \ before
             /\ page.removed \subseteq before \ after
             /\ page.common <= Cardinality(before \cap after)

(* The points of a trend add up: what a scan observed is what the one       *)
(* before it did, less what is resolved, with what is new, as long as the   *)
(* scans were completed when they were listed and none is deleted.          *)
TrendsAddUp ==
  Answered({"trends"}) /\ ~page.guessed /\ ~ProjectLostAScan(page.from)
    /\ (\A i \in DOMAIN page.points : page.points[i].status = "completed") =>
    \A i \in DOMAIN page.points :
      LET pt == page.points[i] IN
      /\ pt.total = Cardinality(task[pt.scan].reported)
      /\ pt.total + pt.resolved =
           pt.added + (IF i = 1 THEN 0 ELSE page.points[i - 1].total)
=============================================================================
