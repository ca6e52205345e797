--------------------------- MODULE MCEventStream ---------------------------
(***************************************************************************)
(* EventStream with two browsers, a scan of two events and one of one, and *)
(* channels of one place, so that a browser is overrun by two events.      *)
(***************************************************************************)
EXTENDS EventStream, TLC
CONSTANTS c1, c2, s1, s2

MCEvents == s1 :> 2 @@ s2 :> 1
=============================================================================
