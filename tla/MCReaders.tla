----------------------------- MODULE MCReaders -----------------------------
(***************************************************************************)
(* Two scans of one project, a web scan and a CLI scan of one engine each, *)
(* and one request while they run; and, while a diff of the two is put     *)
(* together, a third that reports what they did, or is deleted.            *)
(***************************************************************************)
EXTENDS Readers, TLC

CONSTANTS s1, s2, s3, p1, h1, h2

EngineJob(web) ==
  [kind |-> "engines", engines |-> 1, failFast |-> FALSE,
   withSBOM |-> FALSE, isPath |-> TRUE, web |-> web]

ReadProjects == [s \in Scan |-> p1]
ReadJobs == s1 :> EngineJob(TRUE) @@ s2 :> EngineJob(FALSE) @@ s3 :> EngineJob(FALSE)
ReadReports == {<<>>, <<h1>>}
ReadRequests ==
  {<<"detail", s1, s1>>, <<"report", s2, s2>>, <<"diff", s1, s2>>,
   <<"trends", s1, s1>>}

(* Bounds: no finding is triaged, for no reader looks at a finding's        *)
(* status; nothing is explored past the end of the request, for what an     *)
(* answer is compared with does not change any more.                        *)
UntilAnswered ==
  /\ \A f \in findings : f.status = "open"
  /\ page.at \notin Ended

(* The third scan begins once a diff has found the first two completed or   *)
(* one of them; and a diff is dropped when its scans are not what           *)
(* DiffIsExact is about, for they will not be again.                        *)
UnderDiff ==
  /\ task[s3].pc # "idle" => page.kind = "diff" /\ page.status # <<>>
  /\ page.kind = "diff" =>
       /\ SaysCompleted
       /\ page.status # <<>> => Present(s1)
       /\ Len(page.status) = 2 => page.intact /\ Present(s2)
=============================================================================
