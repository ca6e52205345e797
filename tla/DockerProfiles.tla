--------------------------- MODULE DockerProfiles ---------------------------
(***************************************************************************)
(* The list of engines to run in containers: the line COMPOSE_PROFILES of  *)
(* .env, which may hold settings of the user besides.  A toggle of the web *)
(* interface reads the list, reads the file again for its lines, and       *)
(* writes all of it in place: os.WriteFile truncates, then writes.  No     *)
(* lock is taken, so requests overlap, and the server may die in between.  *)
(* A file that cannot be read is taken for one without the line, and       *)
(* without lines.                                                          *)
(***************************************************************************)
EXTENDS Naturals, FiniteSets

CONSTANTS
  Profile,      \* the engines that may be toggled
  EnvProfiles,  \* the variable COMPOSE_PROFILES of the environment
  Toggle,       \* requests under way at once
  MaxToggles,   \* requests in all
  MaxBreaks     \* times that reading or writing fails, or the server dies

ASSUME ProfilesAssumption ==
  EnvProfiles \subseteq Profile /\ MaxToggles \in Nat /\ MaxBreaks \in Nat

VARIABLES
  file,        \* .env: the engines listed, and whether the settings are there
  unreadable,  \* whether reading it fails (too many open files, permission)
  toggle,      \* each request: its place, the engine it adds or drops, and
               \* the list and the lines it will write
  started, broken,
  wanted,      \* history: what the file should hold by the requests answered
  spoilt       \* history: a request under way read a file that could not be
               \* read or was truncated, was overtaken after it had read, or
               \* was cut short after it had truncated

envFile == <<file, unreadable>>
profileVars == <<envFile, toggle, started, broken, wanted, spoilt>>

Contents == [profiles : SUBSET Profile, settings : BOOLEAN]

(* What an absent or a truncated file is read as                           *)
Nothing == [profiles |-> {}, settings |-> FALSE]

Request ==
  [at : {"idle", "reread", "open", "writing"}, adds : SUBSET Profile,
   drops : SUBSET Profile, lines : Contents]
Idle == [at |-> "idle", adds |-> {}, drops |-> {}, lines |-> Nothing]
Active(t) == toggle[t].at # "idle"
Quiet == \A t \in Toggle : ~Active(t)

ProfilesTypeOK ==
  /\ file \in Contents
  /\ unreadable \in BOOLEAN
  /\ toggle \in [Toggle -> Request]
  /\ started \in 0..MaxToggles /\ broken \in 0..MaxBreaks
  /\ wanted \in Contents
  /\ spoilt \in BOOLEAN

ProfilesInit ==
  /\ file \in Contents
  /\ unreadable = FALSE
  /\ toggle = [t \in Toggle |-> Idle]
  /\ started \in 0..MaxToggles /\ broken \in 0..MaxBreaks
  /\ wanted = file
  /\ spoilt = FALSE

-----------------------------------------------------------------------------
(* envFileValue, for COMPOSE_PROFILES                                      *)
Listed == IF unreadable THEN {} ELSE file.profiles

composeProfiles == IF EnvProfiles # {} THEN EnvProfiles ELSE Listed

With(contents, adds, drops) ==
  [contents EXCEPT !.profiles = (@ \cup adds) \ drops]

(* A read at this moment does not find what the file should hold.          *)
Misread == unreadable \/ \E t \in Toggle : toggle[t].at = "writing"

(* A request for the state the list has already is answered at once.  What *)
(* was lost before a request that finds no other under way stays lost, and *)
(* is nothing that is wanted of it.                                        *)
SetDockerProfile(t, p, enabled) ==
  LET adds == IF enabled THEN {p} ELSE {}
      drops == {p} \ adds
      read == [Nothing EXCEPT !.profiles = Listed]
      before == IF Quiet /\ spoilt THEN file ELSE wanted
  IN /\ ~Active(t)
     /\ started < MaxToggles /\ started' = started + 1
     /\ spoilt' = (Misread \/ (spoilt /\ ~Quiet))
     /\ \/ /\ With(read, adds, drops) = read
           /\ wanted' = With(before, adds, drops)
           /\ UNCHANGED toggle
        \/ /\ With(read, adds, drops) # read
           /\ wanted' = before
           /\ toggle' = [toggle EXCEPT ![t] =
                [at |-> "reread", adds |-> adds, drops |-> drops,
                 lines |-> With(read, adds, drops)]]
     /\ UNCHANGED <<envFile, broken>>

(* Mutant: the other lines of the file are not read.                       *)
KeepNoLines(t) ==
  /\ toggle[t].at = "reread"
  /\ toggle' = [toggle EXCEPT ![t].at = "open"]
  /\ spoilt' = (spoilt \/ Misread)
  /\ UNCHANGED <<envFile, started, broken, wanted>>

(* writeComposeProfilesLine: a read that fails leaves no lines to keep.    *)
KeepLines(t) ==
  /\ toggle[t].at = "reread"
  /\ toggle' = [toggle EXCEPT ![t].at = "open",
                  ![t].lines.settings = ~unreadable /\ file.settings]
  /\ spoilt' = (spoilt \/ Misread)
  /\ UNCHANGED <<envFile, started, broken, wanted>>

Truncate(t) ==
  /\ toggle[t].at = "open"
  /\ file' = Nothing
  /\ toggle' = [toggle EXCEPT ![t].at = "writing"]
  /\ spoilt' = (spoilt \/ \E u \in Toggle \ {t} : Active(u))
  /\ UNCHANGED <<unreadable, started, broken, wanted>>

(* What a longer file of another request leaves behind the end of this one *)
(* is no line of COMPOSE_PROFILES that is read: the first one is.          *)
Write(t) ==
  /\ toggle[t].at = "writing"
  /\ file' = toggle[t].lines
  /\ toggle' = [toggle EXCEPT ![t] = Idle]
  /\ wanted' = With(wanted, toggle[t].adds, toggle[t].drops)
  /\ UNCHANGED <<unreadable, started, broken, spoilt>>

(* The file cannot be opened, or not be written once it is truncated.      *)
WriteFails(t) ==
  /\ toggle[t].at \in {"open", "writing"}
  /\ broken < MaxBreaks /\ broken' = broken + 1
  /\ spoilt' = (spoilt \/ toggle[t].at = "writing")
  /\ toggle' = [toggle EXCEPT ![t] = Idle]
  /\ UNCHANGED <<envFile, started, wanted>>

ToggleStep(t) ==
  \/ \E p \in Profile, enabled \in BOOLEAN : SetDockerProfile(t, p, enabled)
  \/ KeepLines(t) \/ Truncate(t) \/ Write(t) \/ WriteFails(t)

(* Opening the file to read it begins to fail, and works again.            *)
ReadsFail ==
  /\ ~unreadable /\ unreadable' = TRUE
  /\ broken < MaxBreaks /\ broken' = broken + 1
  /\ UNCHANGED <<file, toggle, started, wanted, spoilt>>

ReadsWork ==
  /\ unreadable /\ unreadable' = FALSE
  /\ UNCHANGED <<file, toggle, started, broken, wanted, spoilt>>

EnvStep == (\E t \in Toggle : ToggleStep(t)) \/ ReadsFail \/ ReadsWork

(* The server dies with every request it serves.                           *)
TogglesDie ==
  /\ ~Quiet
  /\ broken < MaxBreaks /\ broken' = broken + 1
  /\ spoilt' = (spoilt \/ \E t \in Toggle : toggle[t].at = "writing")
  /\ toggle' = [t \in Toggle |-> Idle]
  /\ UNCHANGED <<envFile, started, wanted>>

-----------------------------------------------------------------------------
(* Once no request is under way, the file holds the list that the answered *)
(* requests add up to, and the user's settings, though the list and the    *)
(* lines are read at two moments and written at a third, other requests    *)
(* fail or are answered meanwhile, and an install or a scan may read the   *)
(* file at any of them.  Only the accidents of spoilt lose either.         *)
TogglesAddUp == Quiet /\ ~spoilt => file = wanted
=============================================================================
