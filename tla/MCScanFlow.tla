----------------------------- MODULE MCScanFlow -----------------------------
(***************************************************************************)
(* Instances of ScanFlow for TLC.  Pair: two scans of one project, a web   *)
(* scan of two engines that stops at the first failure and a CLI scan of   *)
(* one engine, whose reports overlap.  Apart: two scans of two projects    *)
(* that report the same fingerprint twice, while a statement may fail.     *)
(* Live: a web scan of two engines that does not stop at a failure, and an *)
(* SBOM-only CLI scan.                                                     *)
(***************************************************************************)
EXTENDS ScanFlow, TLC

CONSTANTS s1, s2, p1, p2, h1, h2

EngineJob(engines, failFast, withSBOM, isPath, web) ==
  [kind |-> "engines", engines |-> engines, failFast |-> failFast,
   withSBOM |-> withSBOM, isPath |-> isPath, web |-> web]
SBOMJob ==
  [kind |-> "sbom", engines |-> 0, failFast |-> FALSE,
   withSBOM |-> FALSE, isPath |-> TRUE, web |-> FALSE]

PairProjects == [s \in Scan |-> p1]
PairJobs == s1 :> EngineJob(2, TRUE, FALSE, TRUE, TRUE)
         @@ s2 :> EngineJob(1, FALSE, FALSE, TRUE, FALSE)
PairReports == {<<h1, h2>>}

ApartProjects == s1 :> p1 @@ s2 :> p2
ApartJobs == s1 :> EngineJob(1, FALSE, FALSE, TRUE, TRUE)
          @@ s2 :> EngineJob(1, FALSE, TRUE, TRUE, FALSE)
ApartReports == {<<>>, <<h1, h1>>}

LiveJobs == s1 :> EngineJob(2, FALSE, FALSE, FALSE, TRUE) @@ s2 :> SBOMJob
LiveReports == {<<h1>>}
=============================================================================
