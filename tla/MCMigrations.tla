---------------------------- MODULE MCMigrations ----------------------------
(***************************************************************************)
(* An instance of Migrations for TLC: two processes, two targets whose     *)
(* paths end alike and an upload, which is known by its name, and databases *)
(* of every older release.                                                 *)
(***************************************************************************)
EXTENDS Migrations, TLC

CONSTANTS a, b, work, side, api, web

MCNameOf == work :> api @@ side :> api @@ web :> web
=============================================================================
