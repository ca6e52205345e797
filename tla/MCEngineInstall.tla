-------------------------- MODULE MCEngineInstall --------------------------
(***************************************************************************)
(* Instances of EngineInstall for TLC.  Two engines, one with signatures   *)
(* and versioned assets (like trivy) and one with neither (osv-scanner);   *)
(* two releases of each.  Serial: one install at a time, which may be      *)
(* killed or meet a full disk.  Overlapping: two at a time.                *)
(***************************************************************************)
EXTENDS EngineInstall, TLC

CONSTANTS pin, again, newest, other

MCEngine == {"trivy", "osv-scanner"}
MCSigned == {"trivy"}
MCVersion == {"v1", "v2"}

SerialEngineOf ==
  pin :> "trivy" @@ again :> "trivy" @@ newest :> "trivy" @@ other :> "osv-scanner"
SerialRequest ==
  pin :> "v1" @@ again :> "unspecified" @@ newest :> "latest" @@ other :> "v2"

OverlapEngineOf == pin :> "trivy" @@ again :> "trivy" @@ other :> "osv-scanner"
OverlapRequest == pin :> "v1" @@ again :> "unspecified" @@ other :> "latest"
=============================================================================
