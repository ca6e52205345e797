--------------------------- MODULE EngineRunProofs ---------------------------
(***************************************************************************)
(* Which program an engine's run starts, when a run without findings means *)
(* that there are none, and what toggles make of .env: for any engines and *)
(* items, any number of requests and installs, in any order.               *)
(***************************************************************************)
EXTENDS EngineRun, FiniteSetTheorems, WellFoundedInduction, TLAPS

-----------------------------------------------------------------------------
(* The list of profiles *)

ToggleType ==
  /\ toggle \in [Toggle -> Request]
  /\ file \in Contents /\ wanted \in Contents /\ unreadable \in BOOLEAN

(* A request that nothing spoilt will write what is wanted once it is       *)
(* answered, as far as it has read it.                                     *)
Carries(t) ==
  /\ toggle[t].lines.profiles = (wanted.profiles \cup toggle[t].adds) \ toggle[t].drops
  /\ toggle[t].at \in {"open", "writing"} => toggle[t].lines.settings = wanted.settings

(* Unless something was spoilt, the file is as wanted but while a request   *)
(* writes it, and then no other is under way.                              *)
ToggleInv ==
  /\ ToggleType
  /\ spoilt \in BOOLEAN
  /\ ~spoilt =>
       /\ (\A t \in Toggle : toggle[t].at # "writing") => file = wanted
       /\ \A t, u \in Toggle : toggle[t].at = "writing" /\ Active(u) => t = u
       /\ \A t \in Toggle : Active(t) => Carries(t)

LEMMA IdleRequest == Idle \in Request /\ Idle.at = "idle"
BY DEF Idle, Nothing, Contents, Request

LEMMA ToggleInitInv == ProfilesInit => ToggleInv
<1> SUFFICES ASSUME ProfilesInit PROVE ToggleInv  OBVIOUS
<1>1. \A t \in Toggle : toggle[t] = Idle  BY DEF ProfilesInit
<1>2. ToggleType  BY IdleRequest DEF ProfilesInit, ToggleType
<1>3. QED  BY <1>1, <1>2, IdleRequest DEF ProfilesInit, ToggleInv, Active

LEMMA SameContents ==
  ASSUME NEW x \in Contents, NEW y \in Contents,
         x.profiles = y.profiles, x.settings = y.settings
  PROVE  x = y
BY DEF Contents

LEMMA WithFields ==
  ASSUME NEW x \in Contents, NEW adds \in SUBSET Profile, NEW drops \in SUBSET Profile
  PROVE  /\ With(x, adds, drops) \in Contents
         /\ With(x, adds, drops).profiles = (x.profiles \cup adds) \ drops
         /\ With(x, adds, drops).settings = x.settings
BY DEF With, Contents

LEMMA ProfilesReplaced ==
  ASSUME NEW x \in Contents, NEW profiles \in SUBSET Profile
  PROVE  /\ [x EXCEPT !.profiles = profiles] \in Contents
         /\ [x EXCEPT !.profiles = profiles].profiles = profiles
BY DEF Contents

(* A request that reads a file that is as it should be is answered by what *)
(* the file holds, or carries what is wanted.                              *)
LEMMA SetKeeps ==
  ASSUME ToggleInv, NEW t \in Toggle, NEW p \in Profile, NEW enabled \in BOOLEAN,
         SetDockerProfile(t, p, enabled)
  PROVE  ToggleInv'
<1> USE DEF Active
<1> DEFINE adds == IF enabled THEN {p} ELSE {}
           drops == {p} \ adds
           read == [Nothing EXCEPT !.profiles = Listed]
           before == IF Quiet /\ spoilt THEN file ELSE wanted
           new == [at |-> "reread", adds |-> adds, drops |-> drops,
                   lines |-> With(read, adds, drops)]
<1>1. /\ ~Active(t) /\ file' = file /\ unreadable' = unreadable
      /\ spoilt' = (Misread \/ (spoilt /\ ~Quiet))
      /\ \/ /\ With(read, adds, drops) = read
            /\ wanted' = With(before, adds, drops) /\ toggle' = toggle
         \/ wanted' = before /\ toggle' = [toggle EXCEPT ![t] = new]
  BY DEF SetDockerProfile, envFile
<1>2. adds \in SUBSET Profile /\ drops \in SUBSET Profile  OBVIOUS
<1>3. read \in Contents /\ read.profiles = Listed
  <2>1. Listed \in SUBSET Profile  BY DEF Listed, ToggleInv, ToggleType, Contents
  <2>2. Nothing \in Contents  BY DEF Nothing, Contents
  <2>3. QED  BY <2>1, <2>2, ProfilesReplaced DEF read
<1>4. before \in Contents  BY DEF ToggleInv, ToggleType
<1>5. new \in Request /\ new.at = "reread" /\ new.adds = adds /\ new.drops = drops
      /\ new.lines = With(read, adds, drops)
  BY <1>2, <1>3, WithFields DEF Request
<1> HIDE DEF adds, drops, read, before, new
<1>6. ToggleType' /\ spoilt' \in BOOLEAN
  <2>1. wanted' \in Contents
    <3>1. With(before, adds, drops) \in Contents  BY <1>2, <1>4, WithFields
    <3>2. CASE wanted' = With(before, adds, drops)  BY <3>1, <3>2
    <3>3. CASE wanted' = before  BY <1>4, <3>3
    <3>4. QED  BY <1>1, <3>2, <3>3
  <2>2. toggle' \in [Toggle -> Request]  BY <1>1, <1>5 DEF ToggleInv, ToggleType
  <2>3. spoilt' \in BOOLEAN
    <3>1. Misread \in BOOLEAN /\ spoilt \in BOOLEAN /\ Quiet \in BOOLEAN
      BY Zenon DEF Misread, Quiet, ToggleInv, ToggleType
    <3>2. QED  BY <1>1, <3>1
  <2>4. QED  BY <1>1, <2>1, <2>2, <2>3 DEF ToggleInv, ToggleType
<1>7. ASSUME ~spoilt'
      PROVE  /\ file' = wanted'
             /\ \A u \in Toggle : toggle'[u].at # "writing"
             /\ \A u \in Toggle : toggle'[u].at # "idle" => Carries(u)'
  <2>1. /\ ~unreadable /\ \A u \in Toggle : toggle[u].at # "writing"
        /\ spoilt => Quiet
    BY <1>1, <1>7 DEF Misread
  <2>2. before = file /\ Listed = file.profiles
    BY <2>1 DEF before, Listed, ToggleInv
  <2>3. ASSUME NEW u \in Toggle, toggle[u].at # "idle"  PROVE Carries(u) /\ wanted = file
    BY <2>1, <2>3 DEF ToggleInv, Quiet
  <2>4. CASE /\ With(read, adds, drops) = read
             /\ wanted' = With(before, adds, drops) /\ toggle' = toggle
    <3>1. read.profiles = (read.profiles \cup adds) \ drops
      BY <1>2, <1>3, <2>4, WithFields
    <3>. file \in Contents  BY DEF ToggleInv, ToggleType
    <3>2. With(file, adds, drops) \in Contents
          /\ With(file, adds, drops).profiles = file.profiles
          /\ With(file, adds, drops).settings = file.settings
      <4>1. With(file, adds, drops) \in Contents
            /\ With(file, adds, drops).profiles = (file.profiles \cup adds) \ drops
            /\ With(file, adds, drops).settings = file.settings
        BY <1>2, WithFields
      <4>2. file.profiles = (file.profiles \cup adds) \ drops
        BY <1>3, <2>2, <3>1
      <4>3. QED  BY <4>1, <4>2
    <3>3. With(file, adds, drops) = file
      BY <3>2, SameContents DEF ToggleInv, ToggleType
    <3>4. wanted' = file  BY <2>2, <2>4, <3>3
    <3>5. QED  BY <1>1, <2>1, <2>3, <2>4, <3>4 DEF Carries
  <2>5. CASE wanted' = before /\ toggle' = [toggle EXCEPT ![t] = new]
    <3>1. toggle'[t] = new /\ \A u \in Toggle \ {t} : toggle'[u] = toggle[u]
      BY <2>5 DEF ToggleInv, ToggleType
    <3>2. wanted' = file  BY <2>2, <2>5
    <3>3. new.lines.profiles = (file.profiles \cup adds) \ drops
      BY <1>2, <1>3, <1>5, <2>2, WithFields
    <3>4. Carries(t)'  BY <1>5, <3>1, <3>2, <3>3 DEF Carries
    <3>5. ASSUME NEW u \in Toggle \ {t}, toggle'[u].at # "idle"  PROVE Carries(u)'
      BY <2>3, <3>1, <3>2, <3>5 DEF Carries
    <3>6. QED  BY <1>1, <1>5, <2>1, <3>1, <3>2, <3>4, <3>5
  <2>6. QED  BY <1>1, <2>4, <2>5
<1>8. QED  BY <1>6, <1>7 DEF ToggleInv

(* Nor do the steps of a request that has read it change what is wanted    *)
(* before the file holds it.                                               *)
LEMMA ToggleStepInv ==
  ASSUME ToggleInv, NEW t \in Toggle, ToggleStep(t)
  PROVE  ToggleInv'
<1> USE DEF Active
<1>0. toggle \in [Toggle -> Request]  BY DEF ToggleInv, ToggleType
<1>1. ASSUME NEW p \in Profile, NEW enabled \in BOOLEAN, SetDockerProfile(t, p, enabled)
      PROVE  ToggleInv'
  BY <1>1, SetKeeps
<1>2. CASE KeepLines(t)
  <2> DEFINE settings == ~unreadable /\ file.settings
             lines == [toggle[t].lines EXCEPT !.settings = settings]
             new == [toggle[t] EXCEPT !.at = "open", !.lines = lines]
  <2>1. settings \in BOOLEAN /\ (~unreadable => settings = file.settings)
    BY DEF ToggleInv, ToggleType, Contents
  <2> HIDE DEF settings
  <2>2. lines \in Contents /\ lines.profiles = toggle[t].lines.profiles
        /\ lines.settings = settings
    BY <1>0, <2>1 DEF Request, Contents
  <2>3. toggle' = [toggle EXCEPT ![t] = new]
    BY <1>0, <1>2 DEF KeepLines, settings, Request, Contents
  <2> HIDE DEF lines
  <2>4. new \in Request /\ new.at = "open" /\ new.adds = toggle[t].adds
        /\ new.drops = toggle[t].drops /\ new.lines = lines
    BY <1>0, <2>2 DEF Request
  <2> HIDE DEF new
  <2>5. /\ file' = file /\ wanted' = wanted /\ unreadable' = unreadable
        /\ spoilt' = (spoilt \/ Misread) /\ toggle[t].at = "reread"
    BY <1>2 DEF KeepLines, envFile
  <2>6. toggle'[t] = new /\ \A u \in Toggle \ {t} : toggle'[u] = toggle[u]
    BY <1>0, <2>3
  <2>7. ToggleType' /\ spoilt' \in BOOLEAN
    BY <1>0, <2>3, <2>4, <2>5 DEF ToggleInv, ToggleType, Misread
  <2>8. ASSUME ~spoilt'
        PROVE  /\ file' = wanted'
               /\ \A u \in Toggle : toggle'[u].at # "writing"
               /\ \A u \in Toggle : toggle'[u].at # "idle" => Carries(u)'
    <3>1. ~spoilt /\ ~unreadable /\ \A u \in Toggle : toggle[u].at # "writing"
      BY <2>5, <2>8 DEF Misread, ToggleInv
    <3>2. file = wanted /\ \A u \in Toggle : toggle[u].at # "idle" => Carries(u)
      BY <3>1 DEF ToggleInv
    <3>3. Carries(t)'
      BY <2>1, <2>2, <2>4, <2>5, <2>6, <3>1, <3>2 DEF Carries
    <3>4. ASSUME NEW u \in Toggle \ {t}, toggle'[u].at # "idle"  PROVE Carries(u)'
      BY <2>5, <2>6, <3>2, <3>4 DEF Carries
    <3>5. QED  BY <2>4, <2>5, <2>6, <3>1, <3>2, <3>3, <3>4
  <2>9. QED  BY <2>7, <2>8 DEF ToggleInv
<1>3. CASE Truncate(t)
  <2> DEFINE new == [toggle[t] EXCEPT !.at = "writing"]
  <2>1. new \in Request /\ new.at = "writing" /\ new.adds = toggle[t].adds
        /\ new.drops = toggle[t].drops /\ new.lines = toggle[t].lines
    BY <1>0 DEF Request
  <2>2. /\ toggle' = [toggle EXCEPT ![t] = new] /\ toggle[t].at = "open"
        /\ file' = Nothing /\ wanted' = wanted /\ unreadable' = unreadable
        /\ spoilt' = (spoilt \/ \E u \in Toggle \ {t} : toggle[u].at # "idle")
    BY <1>3 DEF Truncate
  <2> HIDE DEF new
  <2>3. toggle'[t] = new /\ \A u \in Toggle \ {t} : toggle'[u] = toggle[u]
    BY <1>0, <2>2
  <2>4. ToggleType' /\ spoilt' \in BOOLEAN
    BY <1>0, <2>1, <2>2 DEF ToggleInv, ToggleType, Nothing, Contents
  <2>5. ASSUME ~spoilt'
        PROVE  (\A u \in Toggle \ {t} : toggle'[u].at = "idle") /\ Carries(t)'
    <3>1. ~spoilt /\ \A u \in Toggle \ {t} : toggle[u].at = "idle"
      BY <2>2, <2>5 DEF ToggleInv
    <3>2. Carries(t)  BY <2>2, <3>1 DEF ToggleInv
    <3>3. QED  BY <2>1, <2>2, <2>3, <3>1, <3>2 DEF Carries
  <2>6. QED  BY <2>1, <2>3, <2>4, <2>5 DEF ToggleInv
<1>4. CASE Write(t)
  <2>1. /\ toggle' = [toggle EXCEPT ![t] = Idle] /\ toggle[t].at = "writing"
        /\ file' = toggle[t].lines /\ unreadable' = unreadable /\ spoilt' = spoilt
        /\ wanted' = With(wanted, toggle[t].adds, toggle[t].drops)
    BY <1>4 DEF Write
  <2>2. /\ toggle[t].lines \in Contents
        /\ toggle[t].adds \in SUBSET Profile /\ toggle[t].drops \in SUBSET Profile
    <3>1. toggle[t] \in Request  BY <1>0
    <3>2. QED  BY <3>1 DEF Request
  <2>3. wanted \in Contents  BY DEF ToggleInv, ToggleType
  <2>4. wanted' \in Contents
        /\ wanted'.profiles = (wanted.profiles \cup toggle[t].adds) \ toggle[t].drops
        /\ wanted'.settings = wanted.settings
    <3> DEFINE next == With(wanted, toggle[t].adds, toggle[t].drops)
    <3>1. next \in Contents
          /\ next.profiles = (wanted.profiles \cup toggle[t].adds) \ toggle[t].drops
          /\ next.settings = wanted.settings
      <4> DEFINE adds == toggle[t].adds
                 drops == toggle[t].drops
      <4>1. adds \in SUBSET Profile /\ drops \in SUBSET Profile  BY <2>2
      <4> HIDE DEF adds, drops
      <4>2. /\ With(wanted, adds, drops) \in Contents
            /\ With(wanted, adds, drops).profiles = (wanted.profiles \cup adds) \ drops
            /\ With(wanted, adds, drops).settings = wanted.settings
        BY <2>3, <4>1 DEF With, Contents
      <4>3. QED  BY <4>2 DEF adds, drops
    <3> HIDE DEF next
    <3>2. wanted' = next  BY <2>1 DEF next
    <3>3. QED  BY <3>1, <3>2
  <2>5. ToggleType' /\ spoilt' \in BOOLEAN
    BY <1>0, <2>1, <2>2, <2>4, IdleRequest DEF ToggleInv, ToggleType
  <2>6. ASSUME ~spoilt'  PROVE file' = wanted' /\ \A u \in Toggle : toggle'[u].at = "idle"
    <3>1. Carries(t) /\ \A u \in Toggle \ {t} : toggle[u].at = "idle"
      BY <2>1, <2>6 DEF ToggleInv
    <3>2. file' = wanted'
      BY <2>1, <2>2, <2>4, <3>1, SameContents DEF Carries
    <3>3. QED  BY <1>0, <2>1, <3>1, <3>2, IdleRequest
  <2>7. QED  BY <2>5, <2>6 DEF ToggleInv
<1>5. CASE WriteFails(t)
  <2>1. /\ toggle' = [toggle EXCEPT ![t] = Idle] /\ toggle[t].at \in {"open", "writing"}
        /\ file' = file /\ unreadable' = unreadable /\ wanted' = wanted
        /\ spoilt' = (spoilt \/ toggle[t].at = "writing")
    BY <1>5 DEF WriteFails, envFile
  <2>2. ToggleType' /\ spoilt' \in BOOLEAN
    BY <1>0, <2>1, IdleRequest DEF ToggleInv, ToggleType
  <2>3. toggle'[t] = Idle /\ \A u \in Toggle \ {t} : toggle'[u] = toggle[u]
    BY <1>0, <2>1
  <2>4. \A u \in Toggle \ {t} : Carries(u) => Carries(u)'  BY <2>1, <2>3 DEF Carries
  <2>5. QED  BY <2>1, <2>2, <2>3, <2>4, IdleRequest DEF ToggleInv
<1>6. QED  BY <1>1, <1>2, <1>3, <1>4, <1>5 DEF ToggleStep

LEMMA ToggleNextInv == ToggleInv /\ [Next]_vars => ToggleInv'
<1> SUFFICES ASSUME ToggleInv, [Next]_vars PROVE ToggleInv'  OBVIOUS
<1>1. CASE \E t \in Toggle : ToggleStep(t)  BY <1>1, ToggleStepInv
<1>2. CASE Die
  <2>1. /\ toggle' = [t \in Toggle |-> Idle] /\ UNCHANGED <<file, unreadable, wanted>>
        /\ spoilt' = (spoilt \/ \E t \in Toggle : toggle[t].at = "writing")
    BY <1>2 DEF Die, TogglesDie, envFile
  <2>2. \A t \in Toggle : toggle'[t].at = "idle"  BY <2>1, IdleRequest
  <2>3. ToggleType'  BY <2>1, IdleRequest DEF ToggleInv, ToggleType
  <2>4. QED  BY <2>1, <2>2, <2>3 DEF ToggleInv, Active
<1>3. CASE UNCHANGED profileVars
  BY <1>3 DEF profileVars, envFile, ToggleInv, ToggleType, Active, Carries
<1>4. CASE ReadsFail \/ ReadsWork
  BY <1>4 DEF ReadsFail, ReadsWork, ToggleInv, ToggleType, Active, Carries
<1>5. RunStep \/ TaskEnds \/ InstallBegins \/ InstallEnds => UNCHANGED profileVars
  BY DEF RunStep, TaskEnds, InstallBegins, InstallEnds, CheckInstalled, Run, NoDirectory,
         Start, ProgramEnds, Judge, CreateTarget, CreateTask, StartTask, PollAnswered,
         PollRefused, PollLost, GetReport
<1>6. QED
  BY <1>1, <1>2, <1>3, <1>4, <1>5 DEF Next, Toggles, EnvStep, vars

(* Answered toggles add up, and keep the user's settings, for any engines  *)
(* and any number of requests, unless one read a file that could not be    *)
(* read or was truncated, was overtaken, or was cut short                  *)
(* (SetDockerProfile, writeComposeProfilesLine).                           *)
THEOREM TogglesDoAddUp == Spec => []TogglesAddUp
<1>1. Init => ToggleInv  BY ToggleInitInv DEF Init
<1>2. ToggleInv => TogglesAddUp  BY DEF ToggleInv, TogglesAddUp, Quiet, Active
<1>3. QED  BY <1>1, <1>2, ToggleNextInv, PTL DEF Spec

-----------------------------------------------------------------------------
(* The program that is started *)

RunFields ==
  {"engine", "found", "at", "source", "program", "code", "output", "status",
   "failed", "findings", "checked", "calm", "whole", "refused"}

ManagedType == managed \in {"absent", "partial", "whole"}

(* What CheckInstalled found is what would be found now, while nothing     *)
(* changed; and a managed binary stays, whatever changes.                  *)
SourceInv ==
  /\ DOMAIN run = RunFields
  /\ ManagedType
  /\ run.at = "check" => run.source = "none"
  /\ run.source # "none" => run.checked # "missing"
  /\ run.at = "run" => /\ run.source = "none"
                       /\ run.engine = "openvas" \/ run.checked # "missing"
  /\ run.checked = "managed" => managed # "absent"
  /\ run.at \in {"run", "start"} /\ run.calm => run.checked = ResolveSourceFor
  /\ run.at = "start" =>
       /\ run.calm => run.source = run.checked
       /\ run.checked = "managed" => run.source = "managed"
  /\ CheckedIsStarted

LEMMA Resolved ==
  /\ ResolveSourceFor \in {"managed", "docker", "system", "missing"}
  /\ ResolveSourceFor = "managed" <=> managed # "absent"
  /\ ResolveSourceFor = "system" => machine.program /\ managed = "absent"
BY DEF ResolveSourceFor

LEMMA SourceInitInv == Init => SourceInv
<1> SUFFICES ASSUME Init PROVE SourceInv  OBVIOUS
<1>1. PICK e \in Engine : \E found \in SUBSET Items[e] : run = NewRun(e, found)
  BY DEF Init
<1>2. /\ DOMAIN run = RunFields /\ run.at = "check" /\ run.source = "none"
      /\ run.checked = "none"
  BY <1>1 DEF NewRun, RunFields
<1>3. QED  BY <1>2 DEF Init, SourceInv, ManagedType, CheckedIsStarted, Tried

(* What the run is compared with after it has been started does not change *)
(* any more.                                                               *)
LEMMA AfterStart ==
  ASSUME SourceInv, UNCHANGED <<managed, machine, envFile>>, DOMAIN run' = RunFields,
         run'.at \notin {"check", "run", "start"},
         run'.source = run.source, run'.checked = run.checked, run'.calm = run.calm,
         \/ run'.program = "no directory" \/ run'.source = "none"
         \/ run'.program = run.program /\ Tried
  PROVE  SourceInv'
BY DEF SourceInv, CheckedIsStarted, Tried, ManagedType, StartedBy

LEMMA SourceStepInv == SourceInv /\ [Next]_vars => SourceInv'
<1> SUFFICES ASSUME SourceInv, [Next]_vars PROVE SourceInv'  OBVIOUS
<1> DEFINE Still == UNCHANGED <<managed, machine, envFile>>
<1>0. DOMAIN run = RunFields  BY DEF SourceInv
<1>1. CASE CheckInstalled
  <2>1. Still /\ run.at = "check" /\ run.source = "none" /\ ResolveSourceFor' = ResolveSourceFor
    BY <1>1 DEF CheckInstalled, hostVars, profileVars, SourceInv, ResolveSourceFor,
                dockerEnabled, composeProfiles, Listed, envFile
  <2>2. /\ DOMAIN run' = RunFields
        /\ run'.source = "none" /\ run'.checked = ResolveSourceFor /\ run'.engine = run.engine
        /\ run'.at \in {"run", "ended"}
        /\ run'.at = "run" => Installed
    BY <1>0, <1>1, <2>1 DEF CheckInstalled, Ends, RunFields
  <2>3. QED
    BY <2>1, <2>2, Resolved DEF Installed, SourceInv, ManagedType, CheckedIsStarted, Tried
<1>2. CASE Run
  <2>1. Still /\ run.at = "run" /\ run.engine # "openvas" /\ ResolveSourceFor' = ResolveSourceFor
    BY <1>2 DEF Run, hostVars, profileVars, ResolveSourceFor, dockerEnabled, composeProfiles, Listed, envFile
  <2>2. /\ DOMAIN run' = RunFields
        /\ run'.at = "start" /\ run'.source = ResolveSourceFor
        /\ run'.checked = run.checked /\ run'.calm = run.calm
    BY <1>0, <1>2 DEF Run, RunFields
  <2>3. QED
    BY <2>1, <2>2, Resolved DEF SourceInv, ManagedType, CheckedIsStarted, Tried
<1>3. CASE NoDirectory
  <2>1. Still  BY <1>3 DEF NoDirectory, hostVars, profileVars
  <2>2. /\ DOMAIN run' = RunFields /\ run'.at = "ended" /\ run'.program = "no directory"
        /\ run'.source = run.source /\ run'.checked = run.checked /\ run'.calm = run.calm
    BY <1>0, <1>3 DEF NoDirectory, Ends, RunFields
  <2>3. QED  BY <2>1, <2>2, AfterStart
<1>4. CASE Start
  <2>1. Still /\ run.at = "start"  BY <1>4 DEF Start, hostVars, profileVars
  <2>2. /\ DOMAIN run' = RunFields /\ run'.at \in {"running", "ended"}
        /\ run'.program = Program
        /\ run'.source = run.source /\ run'.checked = run.checked /\ run'.calm = run.calm
    BY <1>0, <1>4 DEF Start, Ends, RunFields
  <2>3. ASSUME run.calm \/ run.checked = "managed", run.source # "none"
        PROVE  Program \in StartedBy(run.checked)
    <3>1. run.source = run.checked /\ run.checked # "missing"
      BY <2>1, <2>3 DEF SourceInv
    <3>2. CASE run.checked = "managed"
      BY <3>1, <3>2 DEF SourceInv, ManagedType, Program, StartedBy
    <3>3. CASE run.checked # "managed"
      <4>1. run.checked = ResolveSourceFor  BY <2>1, <2>3, <3>3 DEF SourceInv
      <4>2. CASE run.checked = "docker"
        BY <3>1, <4>2 DEF Program, StartedBy
      <4>3. CASE run.checked = "system"
        BY <3>1, <4>1, <4>3, Resolved DEF Program, StartedBy
      <4>4. QED  BY <3>1, <3>3, <4>1, <4>2, <4>3, Resolved
    <3>4. QED  BY <3>2, <3>3
  <2>4. CheckedIsStarted'
    <3>1. SUFFICES ASSUME run'.source # "none", run'.calm \/ run'.checked = "managed"
                   PROVE  run'.program \in StartedBy(run'.checked)
      BY DEF CheckedIsStarted, Tried, StartedBy
    <3>2. QED  BY <2>2, <2>3, <3>1
  <2>5. QED  BY <2>1, <2>2, <2>4 DEF SourceInv, ManagedType
<1>5. CASE ProgramEnds \/ Judge \/ PollAnswered \/ PollRefused \/ PollLost \/ GetReport
           \/ CreateTask \/ StartTask
  <2>1. /\ Still
        /\ run.at \in {"running", "judge", "poll", "report", "create task", "start task"}
    BY <1>5 DEF ProgramEnds, Judge, PollAnswered, PollRefused, PollLost, GetReport,
                CreateTask, StartTask, hostVars, profileVars
  <2>2. /\ DOMAIN run' = RunFields
        /\ run'.at \in {"judge", "ended", "poll", "report", "start task"}
        /\ run'.program = run.program
        /\ run'.source = run.source /\ run'.checked = run.checked /\ run'.calm = run.calm
    <3>1. CASE ProgramEnds  BY <1>0, <3>1 DEF ProgramEnds, RunFields
    <3>2. CASE Judge  BY <1>0, <3>2 DEF Judge, Ends, RunFields
    <3>3. CASE PollAnswered  BY <1>0, <3>3 DEF PollAnswered, Proceeds, Ends, RunFields
    <3>4. CASE PollRefused  BY <1>0, <3>4 DEF PollRefused, RunFields
    <3>5. CASE PollLost  BY <1>0, <3>5 DEF PollLost, Aborts, Ends, RunFields
    <3>6. CASE GetReport  BY <1>0, <3>6 DEF GetReport, RunFields
    <3>7. CASE CreateTask  BY <1>0, <3>7 DEF CreateTask, Proceeds, Aborts, Ends, RunFields
    <3>8. CASE StartTask  BY <1>0, <3>8 DEF StartTask, Proceeds, Aborts, Ends, RunFields
    <3>9. QED  BY <1>5, <3>1, <3>2, <3>3, <3>4, <3>5, <3>6, <3>7, <3>8
  <2>3. QED  BY <2>1, <2>2, AfterStart DEF Tried
<1>6. CASE CreateTarget
  <2>1. Still /\ run.source = "none"
    BY <1>6 DEF CreateTarget, hostVars, profileVars, SourceInv
  <2>2. /\ DOMAIN run' = RunFields /\ run'.at \in {"create task", "ended"}
        /\ run'.source = run.source /\ run'.checked = run.checked /\ run'.calm = run.calm
    BY <1>0, <1>6 DEF CreateTarget, Proceeds, Aborts, Ends, RunFields
  <2>3. QED  BY <2>1, <2>2, AfterStart
<1>7. CASE InstallBegins \/ InstallEnds \/ (Toggles /\ envFile' # envFile)
  <2>1. /\ managed' = managed \/ managed' \in {"partial", "whole"}
        /\ Disturb
    BY <1>7 DEF InstallBegins, InstallEnds, Toggles, hostVars
  <2>2. /\ DOMAIN run' = RunFields
        /\ run'.calm = (run.calm /\ run.at \notin {"run", "start"})
        /\ run'.at = run.at /\ run'.source = run.source /\ run'.checked = run.checked
        /\ run'.program = run.program /\ run'.engine = run.engine
    BY <1>0, <2>1 DEF Disturb, RunFields
  <2>3. QED
    BY <2>1, <2>2 DEF SourceInv, ManagedType, CheckedIsStarted, Tried, StartedBy
<1>8. CASE UNCHANGED run /\ Still
  BY <1>8 DEF SourceInv, ManagedType, CheckedIsStarted, Tried, StartedBy,
              ResolveSourceFor, dockerEnabled, composeProfiles, Listed, envFile
<1>9. /\ (Toggles /\ envFile' = envFile) \/ TaskEnds \/ Die \/ UNCHANGED vars
           => UNCHANGED run /\ Still
  BY DEF Toggles, TaskEnds, Die, TogglesDie, vars, hostVars, profileVars
<1>10. QED
  BY <1>1, <1>2, <1>3, <1>4, <1>5, <1>6, <1>7, <1>8, <1>9 DEF Next, RunStep

(* The program that is started is the one CheckInstalled found, unless the *)
(* disk changed in between; and a managed binary it found is never passed  *)
(* over, for any number of installs and toggles (ResolveSourceFor,         *)
(* RunEngine and ResolveBinary each resolve it anew).                      *)
THEOREM WhatIsCheckedIsStarted == Spec => []CheckedIsStarted
<1>1. SourceInv => CheckedIsStarted  BY DEF SourceInv
<1>2. QED  BY <1>1, SourceInitInv, SourceStepInv, PTL DEF Spec

-----------------------------------------------------------------------------
(* Silence *)

(* An adapter whose program tells findings by its exit code refuses text   *)
(* that is not a whole document, except gitleaks' of a missing report.     *)
LEMMA TornIsRefused ==
  \A out : out.form \in {"empty", "torn"} =>
    \A e \in {"semgrep", "checkov", "osv", "zap"} : Parse(e, out).ok = FALSE
<1> SUFFICES ASSUME NEW out, out.form \in {"empty", "torn"},
                    NEW e \in {"semgrep", "checkov", "osv", "zap"}
             PROVE  Parse(e, out).ok = FALSE
  OBVIOUS
<1>1. ASSUME NEW forms \in {{"object"}, {"object", "array"}}, NEW findings
      PROVE  Decode(out, forms, findings).ok = FALSE
  BY DEF Decode, ParseError
<1>2. ParseSemgrep(out).ok = FALSE  BY <1>1 DEF ParseSemgrep
<1>3. ParseCheckov(out).ok = FALSE  BY <1>1 DEF ParseCheckov
<1>4. ParseOSV(out).ok = FALSE  BY <1>1 DEF ParseOSV
<1>5. ParseZAP(out).ok = FALSE  BY <1>1 DEF ParseZAP
<1>6. QED  BY <1>2, <1>3, <1>4, <1>5 DEF Parse

LEMMA TellingCodes ==
  ASSUME NEW e \in Adapter, NEW code, code \in FindingCodes(e)
  PROVE  e \in {"semgrep", "checkov", "osv", "zap"} \/ (e = "gitleaks" /\ code = 1)
BY DEF FindingCodes

(* A program that did not do its work ends with an error's code and leaves *)
(* no whole document; OpenVAS without a report has refused.                *)
SilenceInv ==
  /\ DOMAIN run = RunFields
  /\ run.engine \in Adapter
  /\ run.at # "ended" => run.status = "none"
  /\ run.at \in {"create task", "start task", "poll", "report"} => run.engine = "openvas"
  /\ run.at \in {"start", "running"} => run.engine # "openvas"
  /\ run.at = "judge" /\ ~run.whole =>
       IF run.engine = "openvas" THEN run.refused
       ELSE run.code # 0 /\ run.output.form \in {"empty", "torn"}
  /\ CleanMeansScanned

LEMMA SilenceInitInv == Init => SilenceInv
<1> SUFFICES ASSUME Init PROVE SilenceInv  OBVIOUS
<1>1. PICK e \in Engine : \E found \in SUBSET Items[e] : run = NewRun(e, found)
  BY DEF Init
<1>2. /\ DOMAIN run = RunFields /\ run.engine = e /\ run.at = "check"
      /\ run.status = "none"
  BY <1>1 DEF NewRun, RunFields
<1>3. QED  BY <1>2, EngineAssumption DEF SilenceInv, CleanMeansScanned

(* Until it ends a run has no status to be wrong about.                    *)
LEMMA Unjudged ==
  ASSUME SilenceInv, DOMAIN run' = RunFields, run'.engine = run.engine,
         \/ run'.status = run.status /\ run.at # "ended"
         \/ run'.status \in {"skipped", "failed"} /\ run'.at = "ended",
         run'.at \in {"create task", "start task", "poll", "report"} =>
           run.engine = "openvas",
         run'.at \in {"start", "running"} => run.engine # "openvas",
         run'.at # "judge"
  PROVE  SilenceInv'
<1>1. CleanMeansScanned'
  BY DEF SilenceInv, CleanMeansScanned
<1>2. QED  BY <1>1 DEF SilenceInv

LEMMA LeftTorn ==
  ASSUME NEW e, NEW found, NEW left \in CutShort(e, found)
  PROVE  RawOutput(e, left[1], left[2]).form \in {"empty", "torn"}
<1>1. \A s : \A text \in Torn(s) : text.form \in {"empty", "torn"}
  BY DEF Torn, NoText
<1>2. \A text \in Printed(e) : text.form \in {"empty", "torn"}
  BY <1>1 DEF Printed, NoText
<1>3. left[1].form \in {"empty", "torn"} /\ left[2].form \in {"empty", "torn"}
  <2>1. CASE WritesReport(e)  BY <1>1, <1>2, <2>1 DEF CutShort
  <2>2. CASE ~WritesReport(e)  BY <1>1, <2>2 DEF CutShort, NoText
  <2>3. QED  BY <2>1, <2>2
<1>4. QED  BY <1>3 DEF RawOutput

LEMMA SilenceStepInv == SilenceInv /\ [Next]_vars => SilenceInv'
<1> SUFFICES ASSUME SilenceInv, [Next]_vars PROVE SilenceInv'  OBVIOUS
<1>0. DOMAIN run = RunFields /\ (run.at # "ended" => run.status = "none")
  BY DEF SilenceInv
<1>1. CASE ProgramEnds
  <2>1. PICK whole \in BOOLEAN, code \in {-1, 0, 1, 2, 3} :
          /\ ~whole => code # 0
          /\ \E left \in IF whole THEN AtItsEnd(run.engine, run.found)
                         ELSE CutShort(run.engine, run.found) :
               run' = [run EXCEPT !.at = "judge", !.whole = whole, !.code = code,
                         !.output = RawOutput(run.engine, left[1], left[2])]
    BY <1>1 DEF ProgramEnds
  <2>2. PICK left \in IF whole THEN AtItsEnd(run.engine, run.found)
                     ELSE CutShort(run.engine, run.found) :
          run' = [run EXCEPT !.at = "judge", !.whole = whole, !.code = code,
                    !.output = RawOutput(run.engine, left[1], left[2])]
    BY <2>1
  <2>3. /\ DOMAIN run' = RunFields /\ run'.at = "judge" /\ run'.whole = whole
        /\ run'.code = code /\ run'.output = RawOutput(run.engine, left[1], left[2])
        /\ run'.status = run.status /\ run'.engine = run.engine
    BY <1>0, <2>2 DEF RunFields
  <2>4. run.engine # "openvas" /\ run.status = "none"
    BY <1>1 DEF ProgramEnds, SilenceInv
  <2>5. ~whole => run'.output.form \in {"empty", "torn"}
    BY <2>2, <2>3, LeftTorn
  <2>6. CleanMeansScanned'  BY <2>3, <2>4 DEF CleanMeansScanned
  <2>7. QED  BY <2>1, <2>3, <2>4, <2>5, <2>6 DEF SilenceInv
<1>2. CASE Judge
  <2> DEFINE parsed == Parse(run.engine, run.output)
  <2>1. run.at = "judge"  BY <1>2 DEF Judge
  <2>2. CASE ~Accepted(run.engine, run.code)
    <3>1. /\ DOMAIN run' = RunFields /\ run'.at = "ended" /\ run'.status = "failed"
          /\ run'.engine = run.engine
      BY <1>0, <1>2, <2>2 DEF Judge, Ends, RunFields
    <3>2. QED  BY <3>1, Unjudged
  <2>3. CASE Accepted(run.engine, run.code)
    <3>1. run' = [[run EXCEPT !.status = "completed", !.failed = ~parsed.ok,
                              !.findings = parsed.findings] EXCEPT !.at = "ended"]
      BY <1>2, <2>3 DEF Judge, Ends
    <3> HIDE DEF parsed
    <3>2. /\ DOMAIN run' = RunFields /\ run'.at = "ended" /\ run'.engine = run.engine
          /\ run'.failed = ~parsed.ok /\ run'.whole = run.whole
          /\ run'.code = run.code /\ run'.refused = run.refused
      BY <1>0, <3>1 DEF RunFields
    <3>3. run.whole \/ Blind \/ parsed.ok = FALSE
      <4>1. SUFFICES ASSUME ~run.whole, ~Blind PROVE parsed.ok = FALSE
        OBVIOUS
      <4>2. /\ run.engine \in Adapter /\ run.code # 0
            /\ run.output.form \in {"empty", "torn"}
        BY <2>1, <4>1 DEF SilenceInv, Blind
      <4>3. run.engine \in {"semgrep", "checkov", "osv", "zap"}
        BY <2>3, <4>1, <4>2, TellingCodes DEF Accepted, Blind
      <4>4. Parse(run.engine, run.output).ok = FALSE  BY <4>2, <4>3, TornIsRefused
      <4>5. QED  BY <4>4 DEF parsed
    <3>4. run'.failed \/ run'.whole \/ Blind'
      BY <3>2, <3>3 DEF Blind
    <3>5. CleanMeansScanned'  BY <3>4 DEF CleanMeansScanned
    <3>6. QED  BY <3>2, <3>5 DEF SilenceInv
  <2>4. QED  BY <2>2, <2>3
<1>3. CASE GetReport
  <2>1. PICK whole \in BOOLEAN : \E output :
          run' = [run EXCEPT !.at = "judge", !.output = output,
                            !.whole = whole, !.refused = @ \/ ~whole]
    BY <1>3 DEF GetReport
  <2>2. /\ DOMAIN run' = RunFields /\ run'.at = "judge" /\ run'.whole = whole
        /\ run'.refused = (run.refused \/ ~whole)
        /\ run'.status = run.status /\ run'.engine = run.engine
    BY <1>0, <2>1 DEF RunFields
  <2>3. run.engine = "openvas" /\ run.status = "none"
    BY <1>3 DEF GetReport, SilenceInv
  <2>4. CleanMeansScanned'  BY <2>2, <2>3 DEF CleanMeansScanned
  <2>5. QED  BY <2>2, <2>3, <2>4 DEF SilenceInv
<1>4. CASE \/ CheckInstalled \/ Run \/ NoDirectory \/ Start \/ CreateTarget \/ CreateTask
           \/ StartTask \/ PollAnswered \/ PollRefused \/ PollLost
  <2>1. /\ DOMAIN run' = RunFields /\ run'.engine = run.engine /\ run'.at # "judge"
        /\ \/ run'.status = run.status /\ run.at # "ended"
           \/ run'.status \in {"skipped", "failed"} /\ run'.at = "ended"
        /\ run'.at \in {"create task", "start task", "poll", "report"} =>
             run.engine = "openvas"
        /\ run'.at \in {"start", "running"} => run.engine # "openvas"
    <3>1. CASE CheckInstalled  BY <1>0, <3>1 DEF CheckInstalled, Ends, RunFields
    <3>2. CASE Run  BY <1>0, <3>2 DEF Run, RunFields
    <3>3. CASE NoDirectory  BY <1>0, <3>3 DEF NoDirectory, Ends, RunFields
    <3>4. CASE Start  BY <1>0, <3>4 DEF Start, Ends, RunFields, SilenceInv
    <3>5. CASE CreateTarget
      BY <1>0, <3>5 DEF CreateTarget, Proceeds, Aborts, Ends, RunFields
    <3>6. CASE CreateTask
      BY <1>0, <3>6 DEF CreateTask, Proceeds, Aborts, Ends, RunFields, SilenceInv
    <3>7. CASE StartTask
      BY <1>0, <3>7 DEF StartTask, Proceeds, Aborts, Ends, RunFields, SilenceInv
    <3>8. CASE PollAnswered
      BY <1>0, <3>8 DEF PollAnswered, Proceeds, Ends, RunFields, SilenceInv
    <3>9. CASE PollRefused  BY <1>0, <3>9 DEF PollRefused, RunFields, SilenceInv
    <3>10. CASE PollLost  BY <1>0, <3>10 DEF PollLost, Aborts, Ends, RunFields
    <3>11. QED
      BY <1>4, <3>1, <3>2, <3>3, <3>4, <3>5, <3>6, <3>7, <3>8, <3>9, <3>10
  <2>2. QED  BY <2>1, Unjudged
<1>5. CASE InstallBegins \/ InstallEnds \/ (Toggles /\ envFile' # envFile)
  <2>1. Disturb  BY <1>5 DEF InstallBegins, InstallEnds, Toggles
  <2>2. /\ DOMAIN run' = RunFields /\ run'.engine = run.engine /\ run'.at = run.at
        /\ run'.status = run.status /\ run'.failed = run.failed
        /\ run'.findings = run.findings /\ run'.whole = run.whole
        /\ run'.code = run.code /\ run'.output = run.output /\ run'.refused = run.refused
    BY <1>0, <2>1 DEF Disturb, RunFields
  <2>3. CleanMeansScanned'
    BY <2>2 DEF SilenceInv, CleanMeansScanned, Blind
  <2>4. QED  BY <2>2, <2>3 DEF SilenceInv
<1>6. CASE UNCHANGED run
  BY <1>6 DEF SilenceInv, CleanMeansScanned, Blind
<1>7. (Toggles /\ envFile' = envFile) \/ TaskEnds \/ Die \/ UNCHANGED vars => UNCHANGED run
  BY DEF Toggles, TaskEnds, Die, vars
<1>8. QED
  BY <1>1, <1>2, <1>3, <1>4, <1>5, <1>6, <1>7 DEF Next, RunStep

(* An engine that is recorded as completed, without an error and without   *)
(* findings, did its work to the end, except that gitleaks' code 1 and     *)
(* OpenVAS's refusals cannot be told: for any items and any adapters       *)
(* (runEngine and the Parse of each).                                      *)
THEOREM CleanWasScanned == Spec => []CleanMeansScanned
<1>1. SilenceInv => CleanMeansScanned  BY DEF SilenceInv
<1>2. QED  BY <1>1, SilenceInitInv, SilenceStepInv, PTL DEF Spec

-----------------------------------------------------------------------------
(* What is recorded *)

(* A document of the form that a whole run of the engine writes, and what  *)
(* is made of one item when nothing else is in it.                         *)
Document(e, items) == [form |-> CHOOSE form \in Forms(e) : TRUE, items |-> items]
Alone(e, item) == Parse(e, Document(e, {item})).findings

(* What a run that did its work leaves of the items it found.              *)
WholeOutput(e, out, found) ==
  /\ out.items = found
  /\ \/ out.form \in Forms(e)
     \/ out.form = "empty" /\ found = {} /\ e \in {"trufflehog", "nuclei", "gitleaks"}

LEMMA DecodeWhole ==
  ASSUME NEW out, NEW forms, NEW findings, out.form \in forms
  PROVE  Decode(out, forms, findings) = Parsed(findings)
BY DEF Decode

LEMMA DecodeOrNothingWhole ==
  ASSUME NEW out, NEW forms, NEW findings, "empty" \notin forms,
         out.form \in forms \/ (out.form = "empty" /\ findings = {})
  PROVE  DecodeOrNothing(out, forms, findings) = Parsed(findings)
BY DecodeWhole DEF DecodeOrNothing

LEMMA OneForm ==
  ASSUME NEW e \in Adapter, NEW items
  PROVE  /\ Document(e, items).form \in Forms(e)
         /\ Document(e, items).items = items
         /\ WholeOutput(e, Document(e, items), items)
<1>1. \E form : form \in Forms(e)  BY DEF Forms
<1>2. QED  BY <1>1 DEF Document, WholeOutput

(* What each adapter makes of one item.                                     *)
Item(e, i) ==
  CASE e = "semgrep" -> {Finding("semgrep", i.rule, i, NormalizeSeverity(i.word))}
    [] e = "trivy" -> {Finding("trivy", i.rule, i, NormalizeSeverity(i.word))}
    [] e = "grype" -> {Finding("grype", i.rule, i, NormalizeSeverity(i.word))}
    [] e = "osv" -> {Finding("osv", preferCVE(i), i,
                       SeverityFromCVSS(maxSeverityByID(i.scores)))}
    [] e = "checkov" -> {Finding("checkov", i.rule, i, iacSeverity(i.word))}
    [] e = "zap" -> {Finding("zap", i.rule,
                       [url |-> IF i.url = "" THEN i.site ELSE i.url, method |-> i.method],
                       riskSeverity(i.risk))}
    [] e = "gitleaks" -> {Finding("gitleaks", i.rule, i, mapSeverity(i.critical))}
    [] e = "sqlmap" -> {Finding("sqlmap", "sqlmap-sqli", i, "HIGH")}
    [] e = "openvas" -> {Finding("openvas", i.rule, i, severityOf(i))}
    [] e = "trufflehog" -> {Finding("trufflehog", r.rule, r, "CRITICAL") :
                              r \in {r \in {i} : r.verified}}
    [] e = "nuclei" -> {Finding("nuclei", r.rule,
                          [url |-> IF r.url = "" THEN r.matched ELSE r.url, method |-> r.method],
                          NormalizeSeverity(r.word)) : r \in {r \in {i} : r.rule # ""}}
    [] e = "nikto" -> {Finding("nikto", r.rule, r, "LOW") :
                         r \in {r \in {i} : r.rule # ""}}
    [] e = "nmap" -> UNION {{Finding("nmap", "nmap-service", p,
                               IF p.versioned THEN "MEDIUM" ELSE "LOW")}
                              \cup UNION {scriptFindings(p, script) : script \in p.scripts} :
                            p \in {p \in {i} : p.host # "" /\ p.open}}

(* Every parser understands what a whole run leaves, and makes of it what  *)
(* it makes of each item alone: no item hides or changes another.          *)
LEMMA WholeIsParsed ==
  ASSUME NEW e \in Adapter, NEW out, NEW found, WholeOutput(e, out, found)
  PROVE  /\ Parse(e, out).ok = TRUE
         /\ Parse(e, out).findings = UNION {Alone(e, i) : i \in found}
         /\ \A i : Alone(e, i) = Item(e, i)
<1> DEFINE Whole(d, items) == WholeOutput(e, d, items)
<1>0. /\ \A items : Whole(Document(e, items), items)
      /\ Whole(out, found)
  BY OneForm
<1>1. CASE e = "semgrep"
  <2> DEFINE F(r) == Finding("semgrep", r.rule, r, NormalizeSeverity(r.word))
  <2>1. \A d, items : Whole(d, items) => Parse(e, d) = Parsed({F(r) : r \in items})
    BY <1>1, DecodeWhole DEF Parse, ParseSemgrep, WholeOutput, Forms
  <2>0. \A i : Item(e, i) = {F(i)}  BY <1>1 DEF Item
  <2> HIDE DEF F, Whole
  <2>2. \A i : Alone(e, i) = {F(i)}  BY <1>0, <2>1 DEF Alone, Parsed
  <2>3. QED  BY <1>0, <2>0, <2>1, <2>2 DEF Parsed
<1>2. CASE e = "trivy"
  <2> DEFINE F(r) == Finding("trivy", r.rule, r, NormalizeSeverity(r.word))
  <2>1. \A d, items : Whole(d, items) => Parse(e, d) = Parsed({F(r) : r \in items})
    BY <1>2, DecodeWhole DEF Parse, ParseTrivy, WholeOutput, Forms
  <2>0. \A i : Item(e, i) = {F(i)}  BY <1>2 DEF Item
  <2> HIDE DEF F, Whole
  <2>2. \A i : Alone(e, i) = {F(i)}  BY <1>0, <2>1 DEF Alone, Parsed
  <2>3. QED  BY <1>0, <2>0, <2>1, <2>2 DEF Parsed
<1>3. CASE e = "grype"
  <2> DEFINE F(r) == Finding("grype", r.rule, r, NormalizeSeverity(r.word))
  <2>1. \A d, items : Whole(d, items) => Parse(e, d) = Parsed({F(r) : r \in items})
    BY <1>3, DecodeWhole DEF Parse, ParseGrype, WholeOutput, Forms
  <2>0. \A i : Item(e, i) = {F(i)}  BY <1>3 DEF Item
  <2> HIDE DEF F, Whole
  <2>2. \A i : Alone(e, i) = {F(i)}  BY <1>0, <2>1 DEF Alone, Parsed
  <2>3. QED  BY <1>0, <2>0, <2>1, <2>2 DEF Parsed
<1>4. CASE e = "osv"
  <2> DEFINE F(r) == Finding("osv", preferCVE(r), r,
                      SeverityFromCVSS(maxSeverityByID(r.scores)))
  <2>1. \A d, items : Whole(d, items) => Parse(e, d) = Parsed({F(r) : r \in items})
    BY <1>4, DecodeWhole DEF Parse, ParseOSV, WholeOutput, Forms
  <2>0. \A i : Item(e, i) = {F(i)}  BY <1>4 DEF Item
  <2> HIDE DEF F, Whole
  <2>2. \A i : Alone(e, i) = {F(i)}  BY <1>0, <2>1 DEF Alone, Parsed
  <2>3. QED  BY <1>0, <2>0, <2>1, <2>2 DEF Parsed
<1>5. CASE e = "checkov"
  <2> DEFINE F(r) == Finding("checkov", r.rule, r, iacSeverity(r.word))
  <2>1. \A d, items : Whole(d, items) => Parse(e, d) = Parsed({F(r) : r \in items})
    BY <1>5, DecodeWhole DEF Parse, ParseCheckov, WholeOutput, Forms
  <2>0. \A i : Item(e, i) = {F(i)}  BY <1>5 DEF Item
  <2> HIDE DEF F, Whole
  <2>2. \A i : Alone(e, i) = {F(i)}  BY <1>0, <2>1 DEF Alone, Parsed
  <2>3. QED  BY <1>0, <2>0, <2>1, <2>2 DEF Parsed
<1>6. CASE e = "zap"
  <2> DEFINE F(r) == Finding("zap", r.rule,
                      [url |-> IF r.url = "" THEN r.site ELSE r.url, method |-> r.method],
                      riskSeverity(r.risk))
  <2>1. \A d, items : Whole(d, items) => Parse(e, d) = Parsed({F(r) : r \in items})
    <3>1. \A d : Parse(e, d) = Decode(d, {"object"}, {F(r) : r \in d.items})
      BY <1>6 DEF Parse, ParseZAP
    <3> HIDE DEF F
    <3>2. QED  BY <1>6, <3>1, DecodeWhole DEF WholeOutput, Forms
  <2>0. \A i : Item(e, i) = {F(i)}  BY <1>6 DEF Item
  <2> HIDE DEF F, Whole
  <2>2. \A i : Alone(e, i) = {F(i)}  BY <1>0, <2>1 DEF Alone, Parsed
  <2>3. QED  BY <1>0, <2>0, <2>1, <2>2 DEF Parsed
<1>7. CASE e = "gitleaks"
  <2> DEFINE F(r) == Finding("gitleaks", r.rule, r, mapSeverity(r.critical))
  <2>1. \A d, items : Whole(d, items) => Parse(e, d) = Parsed({F(r) : r \in items})
    BY <1>7, DecodeOrNothingWhole DEF Parse, ParseGitleaks, WholeOutput, Forms
  <2>0. \A i : Item(e, i) = {F(i)}  BY <1>7 DEF Item
  <2> HIDE DEF F, Whole
  <2>2. \A i : Alone(e, i) = {F(i)}  BY <1>0, <2>1 DEF Alone, Parsed
  <2>3. QED  BY <1>0, <2>0, <2>1, <2>2 DEF Parsed
<1>8. CASE e = "sqlmap"
  <2> DEFINE F(r) == Finding("sqlmap", "sqlmap-sqli", r, "HIGH")
  <2>1. \A d, items : Whole(d, items) => Parse(e, d) = Parsed({F(r) : r \in items})
    BY <1>8 DEF Parse, ParseSqlmap, WholeOutput, Forms
  <2>0. \A i : Item(e, i) = {F(i)}  BY <1>8 DEF Item
  <2> HIDE DEF F, Whole
  <2>2. \A i : Alone(e, i) = {F(i)}  BY <1>0, <2>1 DEF Alone, Parsed
  <2>3. QED  BY <1>0, <2>0, <2>1, <2>2 DEF Parsed
<1>9. CASE e = "openvas"
  <2> DEFINE F(r) == Finding("openvas", r.rule, r, severityOf(r))
  <2>1. \A d, items : Whole(d, items) => Parse(e, d) = Parsed({F(r) : r \in items})
    BY <1>9, DecodeOrNothingWhole DEF Parse, ParseOpenVAS, WholeOutput, Forms
  <2>0. \A i : Item(e, i) = {F(i)}  BY <1>9 DEF Item
  <2> HIDE DEF F, Whole
  <2>2. \A i : Alone(e, i) = {F(i)}  BY <1>0, <2>1 DEF Alone, Parsed
  <2>3. QED  BY <1>0, <2>0, <2>1, <2>2 DEF Parsed
<1>10. CASE e = "trufflehog"
  <2> DEFINE F(r) == Finding("trufflehog", r.rule, r, "CRITICAL")
             Kept(r) == r.verified
  <2>1. \A d, items : Whole(d, items) =>
          Parse(e, d) = Parsed({F(r) : r \in {r \in items : Kept(r)}})
    BY <1>10, DecodeOrNothingWhole DEF Parse, ParseTruffleHog, WholeOutput, Forms
  <2>0. \A i : Item(e, i) = {F(r) : r \in {r \in {i} : Kept(r)}}  BY <1>10 DEF Item
  <2> HIDE DEF F, Kept, Whole
  <2>2. \A i : Alone(e, i) = {F(r) : r \in {r \in {i} : Kept(r)}}
    BY <1>0, <2>1 DEF Alone, Parsed
  <2>3. \A i : Alone(e, i) = Item(e, i)  BY <2>0, <2>2, Zenon
  <2>4. QED  BY <1>0, <2>1, <2>2, <2>3 DEF Parsed
<1>11. CASE e = "nuclei"
  <2> DEFINE F(r) == Finding("nuclei", r.rule,
                      [url |-> IF r.url = "" THEN r.matched ELSE r.url, method |-> r.method],
                      NormalizeSeverity(r.word))
             Kept(r) == r.rule # ""
  <2>1. \A d, items : Whole(d, items) =>
          Parse(e, d) = Parsed({F(r) : r \in {r \in items : Kept(r)}})
    <3>1. \A d : Parse(e, d) = DecodeOrNothing(d, {"lines"}, 
                               {F(r) : r \in {r \in d.items : Kept(r)}})
      BY <1>11 DEF Parse, ParseNuclei
    <3> HIDE DEF F, Kept
    <3>2. QED  BY <1>11, <3>1, DecodeOrNothingWhole DEF WholeOutput, Forms
  <2>0. \A i : Item(e, i) = {F(r) : r \in {r \in {i} : Kept(r)}}  BY <1>11 DEF Item
  <2> HIDE DEF F, Kept, Whole
  <2>2. \A i : Alone(e, i) = {F(r) : r \in {r \in {i} : Kept(r)}}
    BY <1>0, <2>1 DEF Alone, Parsed
  <2>3. \A i : Alone(e, i) = Item(e, i)  BY <2>0, <2>2, Zenon
  <2>4. QED  BY <1>0, <2>1, <2>2, <2>3 DEF Parsed
<1>12. CASE e = "nikto"
  <2> DEFINE F(r) == Finding("nikto", r.rule, r, "LOW")
             Kept(r) == r.rule # ""
  <2>1. \A d, items : Whole(d, items) =>
          Parse(e, d) = Parsed({F(r) : r \in {r \in items : Kept(r)}})
    BY <1>12, DecodeOrNothingWhole DEF Parse, ParseNikto, WholeOutput, Forms
  <2>0. \A i : Item(e, i) = {F(r) : r \in {r \in {i} : Kept(r)}}  BY <1>12 DEF Item
  <2> HIDE DEF F, Kept, Whole
  <2>2. \A i : Alone(e, i) = {F(r) : r \in {r \in {i} : Kept(r)}}
    BY <1>0, <2>1 DEF Alone, Parsed
  <2>3. \A i : Alone(e, i) = Item(e, i)  BY <2>0, <2>2, Zenon
  <2>4. QED  BY <1>0, <2>1, <2>2, <2>3 DEF Parsed
<1>13. CASE e = "nmap"
  <2> DEFINE F(p) == {Finding("nmap", "nmap-service", p,
                              IF p.versioned THEN "MEDIUM" ELSE "LOW")}
                       \cup UNION {scriptFindings(p, script) : script \in p.scripts}
             Kept(p) == p.host # "" /\ p.open
  <2>1. \A d, items : Whole(d, items) =>
          Parse(e, d) = Parsed(UNION {F(p) : p \in {p \in items : Kept(p)}})
    <3>1. \A d : Parse(e, d) = DecodeOrNothing(d, {"object"}, 
                               UNION {F(p) : p \in {p \in d.items : Kept(p)}})
      BY <1>13 DEF Parse, ParseNmap
    <3> HIDE DEF F, Kept
    <3>2. QED  BY <1>13, <3>1, DecodeOrNothingWhole DEF WholeOutput, Forms
  <2>0. \A i : Item(e, i) = UNION {F(p) : p \in {p \in {i} : Kept(p)}}  BY <1>13 DEF Item
  <2> HIDE DEF F, Kept, Whole
  <2>2. \A i : Alone(e, i) = UNION {F(p) : p \in {p \in {i} : Kept(p)}}
    BY <1>0, <2>1 DEF Alone, Parsed
  <2>3. \A i : Alone(e, i) = Item(e, i)  BY <2>0, <2>2, Zenon
  <2>4. QED  BY <1>0, <2>1, <2>2, <2>3 DEF Parsed
<1>14. QED
  BY <1>1, <1>2, <1>3, <1>4, <1>5, <1>6, <1>7, <1>8, <1>9, <1>10, <1>11, <1>12, <1>13
     DEF Adapter, Category

(* What does not parse leaves no findings.                                 *)
LEMMA NotParsedIsEmpty ==
  ASSUME NEW e \in Adapter, NEW out
  PROVE  /\ Parse(e, out).ok \in BOOLEAN
         /\ Parse(e, out).findings # {} => Parse(e, out).ok = TRUE
<1> DEFINE Fine(parsed) ==
      parsed.ok \in BOOLEAN /\ (parsed.findings # {} => parsed.ok = TRUE)
<1>1. \A forms, findings : Fine(Decode(out, forms, findings))
  BY DEF Decode, Parsed, ParseError
<1>2. \A forms, findings : Fine(DecodeOrNothing(out, forms, findings))
  BY <1>1 DEF DecodeOrNothing, Parsed
<1>3. \A findings : Fine(Parsed(findings))  BY DEF Parsed
<1> HIDE DEF Fine
<1>4. Fine(ParseSemgrep(out)) /\ Fine(ParseTrivy(out)) /\ Fine(ParseGrype(out))
  BY <1>1 DEF ParseSemgrep, ParseTrivy, ParseGrype
<1>5. Fine(ParseOSV(out)) /\ Fine(ParseCheckov(out))
  BY <1>1 DEF ParseOSV, ParseCheckov
<1>6. Fine(ParseZAP(out))  BY <1>1, Zenon DEF ParseZAP
<1>7. Fine(ParseGitleaks(out)) /\ Fine(ParseTruffleHog(out)) /\ Fine(ParseNikto(out))
  BY <1>2 DEF ParseGitleaks, ParseTruffleHog, ParseNikto
<1>8. Fine(ParseNuclei(out))  BY <1>2, Zenon DEF ParseNuclei
<1>9. Fine(ParseNmap(out))  BY <1>2, Zenon DEF ParseNmap
<1>10. Fine(ParseOpenVAS(out))  BY <1>2 DEF ParseOpenVAS
<1>11. Fine(ParseSqlmap(out))  BY <1>3 DEF ParseSqlmap
<1>12. Fine(Parse(e, out))
  BY <1>4, <1>5, <1>6, <1>7, <1>8, <1>9, <1>10, <1>11 DEF Parse, Adapter, Category
<1>13. QED  BY <1>12 DEF Fine

(* What a program that did its work leaves, in its report or in what it    *)
(* prints, is what Run hands to Parse.                                     *)
LEMMA LeftWhole ==
  ASSUME NEW e \in Adapter, NEW found, NEW left \in AtItsEnd(e, found)
  PROVE  WholeOutput(e, RawOutput(e, left[1], left[2]), found)
<1>1. \A text \in Complete(e, found) : WholeOutput(e, text, found)
  BY DEF Complete, WholeOutput, NoText
<1>2. CASE ~WritesReport(e)
  BY <1>1, <1>2 DEF AtItsEnd, RawOutput
<1>3. CASE WritesReport(e)
  <2>1. left[1] \in Printed(e) /\ left[2] \in Complete(e, found)
    BY <1>3 DEF AtItsEnd
  <2>2. CASE left[2] # NoText
    BY <1>1, <1>3, <2>1, <2>2 DEF RawOutput
  <2>3. CASE left[2] = NoText
    <3>1. e = "gitleaks"
      BY <1>3, <2>1, <2>3 DEF WritesReport, Complete, Forms, NoText
    <3>2. left[1] = NoText  BY <2>1, <3>1 DEF Printed
    <3>3. RawOutput(e, left[1], left[2]) = left[2]
      BY <2>3, <3>2 DEF RawOutput
    <3>4. QED  BY <1>1, <2>1, <3>3
  <2>4. QED  BY <2>2, <2>3
<1>4. QED  BY <1>2, <1>3

RecordInv ==
  /\ DOMAIN run = RunFields
  /\ run.engine \in Engine /\ run.found \subseteq Items[run.engine]
  /\ run.status \in Status
  /\ run.at = "ended" <=> run.status # "none"
  /\ run.findings # {} => run.status = "completed" /\ ~run.failed
  /\ run.at = "judge" /\ run.whole => WholeOutput(run.engine, run.output, run.found)
  /\ run.status = "completed" /\ run.whole =>
       /\ ~run.failed
       /\ run.findings = UNION {Alone(run.engine, i) : i \in run.found}

LEMMA RecordInitInv == Init => RecordInv
<1> SUFFICES ASSUME Init PROVE RecordInv  OBVIOUS
<1>1. PICK e \in Engine : \E found \in SUBSET Items[e] : run = NewRun(e, found)
  BY DEF Init
<1>2. /\ DOMAIN run = RunFields /\ run.engine = e /\ run.at = "check"
      /\ run.found \subseteq Items[e]
      /\ run.status = "none" /\ run.findings = {}
  BY <1>1 DEF NewRun, RunFields
<1>3. QED  BY <1>2 DEF RecordInv, Status

(* Until it is judged a run has no findings.                               *)
LEMMA NotRecorded ==
  ASSUME RecordInv, DOMAIN run' = RunFields,
         run'.engine = run.engine, run'.found = run.found,
         run'.findings = run.findings, run.at # "ended", run'.at # "judge",
         \/ run'.status = run.status /\ run'.at # "ended"
         \/ run'.status \in {"skipped", "failed"} /\ run'.at = "ended"
  PROVE  RecordInv'
BY DEF RecordInv, Status

LEMMA RecordStepInv == RecordInv /\ SilenceInv /\ [Next]_vars => RecordInv'
<1> SUFFICES ASSUME RecordInv, SilenceInv, [Next]_vars PROVE RecordInv'  OBVIOUS
<1>0. /\ DOMAIN run = RunFields /\ run.engine \in Adapter
      /\ run.at # "ended" => run.status = "none" /\ run.findings = {}
  BY EngineAssumption DEF RecordInv
<1>1. CASE ProgramEnds
  <2>1. PICK whole \in BOOLEAN, code \in {-1, 0, 1, 2, 3} :
          \E left \in IF whole THEN AtItsEnd(run.engine, run.found)
                      ELSE CutShort(run.engine, run.found) :
            run' = [run EXCEPT !.at = "judge", !.whole = whole, !.code = code,
                      !.output = RawOutput(run.engine, left[1], left[2])]
    BY <1>1 DEF ProgramEnds
  <2>2. PICK left \in IF whole THEN AtItsEnd(run.engine, run.found)
                     ELSE CutShort(run.engine, run.found) :
          run' = [run EXCEPT !.at = "judge", !.whole = whole, !.code = code,
                    !.output = RawOutput(run.engine, left[1], left[2])]
    BY <2>1
  <2>3. /\ DOMAIN run' = RunFields /\ run'.at = "judge" /\ run'.whole = whole
        /\ run'.output = RawOutput(run.engine, left[1], left[2])
        /\ run'.engine = run.engine /\ run'.found = run.found
        /\ run'.status = run.status /\ run'.findings = run.findings
    BY <1>0, <2>2 DEF RunFields
  <2>4. whole => WholeOutput(run'.engine, run'.output, run'.found)
    BY <1>0, <2>2, <2>3, LeftWhole
  <2>5. run.at = "running"  BY <1>1 DEF ProgramEnds
  <2>6. QED  BY <1>0, <2>3, <2>4, <2>5 DEF RecordInv, Status
<1>2. CASE GetReport
  <2>1. PICK whole \in BOOLEAN : \E output :
          /\ whole => output = [form |-> "object", items |-> run.found]
          /\ run' = [run EXCEPT !.at = "judge", !.output = output,
                               !.whole = whole, !.refused = @ \/ ~whole]
    BY <1>2 DEF GetReport
  <2>2. PICK output :
          /\ whole => output = [form |-> "object", items |-> run.found]
          /\ run' = [run EXCEPT !.at = "judge", !.output = output,
                               !.whole = whole, !.refused = @ \/ ~whole]
    BY <2>1
  <2>3. /\ DOMAIN run' = RunFields /\ run'.at = "judge" /\ run'.whole = whole
        /\ run'.output = output
        /\ run'.engine = run.engine /\ run'.found = run.found
        /\ run'.status = run.status /\ run'.findings = run.findings
    BY <1>0, <2>2 DEF RunFields
  <2>4. run.engine = "openvas" /\ run.at = "report"
    BY <1>2 DEF GetReport, SilenceInv
  <2>5. whole => WholeOutput(run'.engine, run'.output, run'.found)
    BY <2>2, <2>3, <2>4 DEF WholeOutput, Forms
  <2>6. QED  BY <1>0, <2>3, <2>4, <2>5 DEF RecordInv, Status
<1>3. CASE Judge
  <2> DEFINE parsed == Parse(run.engine, run.output)
  <2>1. run.at = "judge"  BY <1>3 DEF Judge
  <2>2. CASE ~Accepted(run.engine, run.code)
    <3>1. /\ DOMAIN run' = RunFields /\ run'.at = "ended" /\ run'.status = "failed"
          /\ run'.engine = run.engine /\ run'.found = run.found
          /\ run'.findings = run.findings
      BY <1>0, <1>3, <2>2 DEF Judge, Ends, RunFields
    <3>2. QED  BY <2>1, <3>1, NotRecorded
  <2>3. CASE Accepted(run.engine, run.code)
    <3>1. run' = [[run EXCEPT !.status = "completed", !.failed = ~parsed.ok,
                              !.findings = parsed.findings] EXCEPT !.at = "ended"]
      BY <1>3, <2>3 DEF Judge, Ends
    <3>2. /\ parsed.ok \in BOOLEAN
          /\ parsed.findings # {} => parsed.ok = TRUE
      BY <1>0, NotParsedIsEmpty
    <3>3. run.whole =>
            /\ parsed.ok = TRUE
            /\ parsed.findings = UNION {Alone(run.engine, i) : i \in run.found}
      BY <1>0, <2>1, WholeIsParsed DEF RecordInv
    <3> HIDE DEF parsed
    <3>4. /\ DOMAIN run' = RunFields /\ run'.at = "ended" /\ run'.status = "completed"
          /\ run'.engine = run.engine /\ run'.found = run.found
          /\ run'.failed = ~parsed.ok /\ run'.findings = parsed.findings
          /\ run'.whole = run.whole
      BY <1>0, <3>1 DEF RunFields
    <3>5. /\ run'.engine \in Engine /\ run'.found \subseteq Items[run'.engine]
          /\ run'.findings # {} => ~run'.failed
          /\ run'.whole => ~run'.failed
      BY <3>2, <3>3, <3>4 DEF RecordInv
    <3>6. run'.whole =>
            run'.findings = UNION {Alone(run'.engine, i) : i \in run'.found}
      BY <3>3, <3>4
    <3>7. QED  BY <3>4, <3>5, <3>6 DEF RecordInv, Status
  <2>4. QED  BY <2>2, <2>3
<1>4. CASE \/ CheckInstalled \/ Run \/ NoDirectory \/ Start \/ CreateTarget \/ CreateTask
           \/ StartTask \/ PollAnswered \/ PollRefused \/ PollLost
  <2>1. /\ DOMAIN run' = RunFields
        /\ run'.engine = run.engine /\ run'.found = run.found
        /\ run'.findings = run.findings /\ run.at # "ended" /\ run'.at # "judge"
        /\ \/ run'.status = run.status /\ run'.at # "ended"
           \/ run'.status \in {"skipped", "failed"} /\ run'.at = "ended"
    <3>1. CASE CheckInstalled  BY <1>0, <3>1 DEF CheckInstalled, Ends, RunFields
    <3>2. CASE Run  BY <1>0, <3>2 DEF Run, RunFields
    <3>3. CASE NoDirectory  BY <1>0, <3>3 DEF NoDirectory, Ends, RunFields
    <3>4. CASE Start  BY <1>0, <3>4 DEF Start, Ends, RunFields
    <3>5. CASE CreateTarget
      BY <1>0, <3>5 DEF CreateTarget, Proceeds, Aborts, Ends, RunFields
    <3>6. CASE CreateTask  BY <1>0, <3>6 DEF CreateTask, Proceeds, Aborts, Ends, RunFields
    <3>7. CASE StartTask  BY <1>0, <3>7 DEF StartTask, Proceeds, Aborts, Ends, RunFields
    <3>8. CASE PollAnswered  BY <1>0, <3>8 DEF PollAnswered, Proceeds, Ends, RunFields
    <3>9. CASE PollRefused  BY <1>0, <3>9 DEF PollRefused, RunFields
    <3>10. CASE PollLost  BY <1>0, <3>10 DEF PollLost, Aborts, Ends, RunFields
    <3>11. QED
      BY <1>4, <3>1, <3>2, <3>3, <3>4, <3>5, <3>6, <3>7, <3>8, <3>9, <3>10
  <2>2. QED  BY <2>1, NotRecorded
<1>5. CASE InstallBegins \/ InstallEnds \/ (Toggles /\ envFile' # envFile)
  <2>1. Disturb  BY <1>5 DEF InstallBegins, InstallEnds, Toggles
  <2>2. /\ DOMAIN run' = RunFields /\ run'.engine = run.engine /\ run'.found = run.found
        /\ run'.at = run.at /\ run'.status = run.status /\ run'.failed = run.failed
        /\ run'.findings = run.findings /\ run'.whole = run.whole
        /\ run'.output = run.output
    BY <1>0, <2>1 DEF Disturb, RunFields
  <2>3. QED  BY <2>2 DEF RecordInv
<1>6. CASE UNCHANGED run  BY <1>6 DEF RecordInv
<1>7. (Toggles /\ envFile' = envFile) \/ TaskEnds \/ Die \/ UNCHANGED vars => UNCHANGED run
  BY DEF Toggles, TaskEnds, Die, vars
<1>8. QED
  BY <1>1, <1>2, <1>3, <1>4, <1>5, <1>6, <1>7 DEF Next, RunStep

(* The order of what CVSS calls worse is the order of severities, for      *)
(* every score, in the bands that SeverityFromCVSS has (severity.go).      *)
THEOREM WorseScoreIsNotMilder ==
  ASSUME NEW low \in Int, NEW high \in Int, low <= high
  PROVE  Rank(SeverityFromCVSS(low)) <= Rank(SeverityFromCVSS(high))
<1>1. \A score \in Int :
        Rank(SeverityFromCVSS(score)) =
          IF score >= 90 THEN 4 ELSE IF score >= 70 THEN 3
          ELSE IF score >= 40 THEN 2 ELSE IF score >= 1 THEN 1 ELSE 0
  BY DEF Rank, SeverityFromCVSS
<1>2. QED  BY <1>1


TogglesBounded == started \in 0..MaxToggles /\ broken \in 0..MaxBreaks

LEMMA TogglesStayBounded == TogglesBounded /\ [Next]_vars => TogglesBounded'
<1> SUFFICES ASSUME TogglesBounded, [Next]_vars PROVE TogglesBounded'  OBVIOUS
<1> USE DEF TogglesBounded
<1>0. MaxToggles \in Nat /\ MaxBreaks \in Nat  BY ProfilesAssumption
<1>1. ASSUME NEW t \in Toggle, ToggleStep(t) PROVE TogglesBounded'
  <2>1. ASSUME NEW p \in Profile, NEW enabled \in BOOLEAN, SetDockerProfile(t, p, enabled)
        PROVE  TogglesBounded'
    BY <1>0, <2>1 DEF SetDockerProfile
  <2>2. CASE KeepLines(t) \/ Truncate(t) \/ Write(t)
    BY <2>2 DEF KeepLines, Truncate, Write
  <2>3. CASE WriteFails(t)  BY <1>0, <2>3 DEF WriteFails
  <2>4. QED  BY <1>1, <2>1, <2>2, <2>3 DEF ToggleStep
<1>2. CASE ReadsFail \/ ReadsWork  BY <1>0, <1>2 DEF ReadsFail, ReadsWork
<1>3. CASE Die  BY <1>0, <1>3 DEF Die, TogglesDie
<1>4. CASE UNCHANGED profileVars  BY <1>4 DEF profileVars
<1>5. RunStep \/ TaskEnds \/ InstallBegins \/ InstallEnds => UNCHANGED profileVars
  BY DEF RunStep, TaskEnds, InstallBegins, InstallEnds, CheckInstalled, Run, NoDirectory,
         Start, ProgramEnds, Judge, CreateTarget, CreateTask, StartTask, PollAnswered,
         PollRefused, PollLost, GetReport
<1>6. QED  BY <1>1, <1>2, <1>3, <1>4, <1>5 DEF Next, vars, Toggles, EnvStep

HostType ==
  /\ managed \in {"absent", "partial", "whole"}
  /\ service \in {"none", "running", "done", "stopped"}
  /\ installs \in 0..MaxInstalls

LEMMA HostTyped == HostType /\ [Next]_vars => HostType'
<1> SUFFICES ASSUME HostType, [Next]_vars PROVE HostType'  OBVIOUS
<1>0. MaxInstalls \in Nat  BY EngineAssumption
<1>1. CASE InstallBegins \/ InstallEnds
  BY <1>0, <1>1 DEF InstallBegins, InstallEnds, HostType
<1>2. CASE TaskEnds  BY <1>2 DEF TaskEnds, HostType, hostVars
<1>3. CASE UNCHANGED <<managed, installs>> /\ Scans
  BY <1>3 DEF Scans, HostType
<1>4. CASE RunStep
  BY <1>3, <1>4
     DEF RunStep, CheckInstalled, Run, NoDirectory, Start, ProgramEnds, Judge,
         CreateTarget, CreateTask, StartTask, PollAnswered, PollRefused, PollLost,
         GetReport, hostVars, Scans
<1>5. CASE Toggles \/ Die \/ UNCHANGED vars
  BY <1>5 DEF Toggles, Die, vars, hostVars, HostType
<1>6. QED  BY <1>1, <1>2, <1>4, <1>5 DEF Next

(* A run has ended when it has its row and only then, and what failed or   *)
(* did not complete has no findings, for any engines, items, toggles and   *)
(* installs (runEngine).                                                   *)
THEOREM RunsTyped == Spec => []TypeOK
<1>1. Init => ToggleInv /\ TogglesBounded /\ HostType
  <2>1. SUFFICES ASSUME Init PROVE ToggleInv /\ TogglesBounded /\ HostType  OBVIOUS
  <2>2. ProfilesInit /\ HostType  BY <2>1 DEF Init, HostType
  <2>3. QED  BY <2>2, ToggleInitInv DEF ProfilesInit, TogglesBounded
<1>2. ToggleInv /\ TogglesBounded => ProfilesTypeOK
  BY DEF ToggleInv, ToggleType, TogglesBounded, ProfilesTypeOK
<1>3. RecordInv /\ ProfilesTypeOK /\ HostType => TypeOK
  BY DEF RecordInv, HostType, TypeOK
<1>4. QED
  BY <1>1, <1>2, <1>3, RecordInitInv, RecordStepInv, SilenceInitInv, SilenceStepInv,
     ToggleNextInv, TogglesStayBounded, HostTyped, PTL DEF Spec

Hashes(findings) == {f.hash : f \in findings}

(* What a whole run reports is recorded, by every adapter and for any items: *)
(* a fingerprint is on record exactly if an item of the report, read by     *)
(* itself, has it.  No item hides another but by having its fingerprints,  *)
(* and the rest of the report adds none (Run, ExitCodeIsFindings, Parse    *)
(* and runEngine).                                                         *)
ReportRecorded ==
  run.status = "completed" /\ run.whole =>
    /\ ~run.failed
    /\ Hashes(run.findings) = UNION {Hashes(Alone(run.engine, i)) : i \in run.found}

THEOREM ReportsAreRecorded == Spec => []ReportRecorded
<1>1. ASSUME RecordInv PROVE ReportRecorded
  <2>1. SUFFICES ASSUME run.status = "completed", run.whole
                 PROVE  Hashes(run.findings)
                          = UNION {Hashes(Alone(run.engine, i)) : i \in run.found}
    BY <1>1 DEF RecordInv, ReportRecorded
  <2>2. run.findings = UNION {Alone(run.engine, i) : i \in run.found}
    BY <1>1, <2>1 DEF RecordInv
  <2>3. QED  BY <2>2 DEF Hashes
<1>2. RecordInv => ReportRecorded  BY <1>1
<1>3. QED
  BY <1>2, RecordInitInv, RecordStepInv, SilenceInitInv, SilenceStepInv, PTL DEF Spec

-----------------------------------------------------------------------------
(* Severity *)

Severities == {"UNKNOWN", "LOW", "MEDIUM", "HIGH", "CRITICAL"}

(* A set of naturals that has a bound has a largest element.                *)
LEMMA LargestExists ==
  ASSUME NEW S \in SUBSET Nat, S # {}, NEW n \in Nat, \A x \in S : x <= n
  PROVE  Max(S) \in S /\ \A x \in S : x <= Max(S)
<1> DEFINE T == {n - x : x \in S}
<1>1. T \subseteq Nat /\ T # {}
  <2>1. \A x \in S : n - x \in Nat  OBVIOUS
  <2>2. QED  BY <2>1
<1>2. PICK t \in T : \A u \in T : <<u, t>> \notin OpToRel(<, Nat)
  BY <1>1, NatLessThanWellFounded, WFMin
<1>3. \A u \in T : ~(u < t)  BY <1>1, <1>2 DEF OpToRel
<1>4. PICK x \in S : t = n - x  BY <1>2
<1>5. \A y \in S : x >= y  BY <1>3, <1>4
<1>6. QED  BY <1>5 DEF Max

(* The score of a vulnerability is one that its groups have.                *)
LEMMA ScoreOfGroups ==
  ASSUME NEW scores \in Seq(Int)
  PROVE  LET some == {x \in Range(scores) : x >= 0}
         IN /\ maxSeverityByID(scores) \in Int
            /\ some = {} => maxSeverityByID(scores) = 0
            /\ some # {} => maxSeverityByID(scores) \in some
<1> DEFINE I == {k \in 1..Len(scores) : scores[k] >= 0}
           last == SelectLastInSeq(scores, LAMBDA score : score >= 0)
           some == {x \in Range(scores) : x >= 0}
<1>0. /\ Len(scores) \in Nat /\ DOMAIN scores = 1..Len(scores)
      /\ \A k \in 1..Len(scores) : scores[k] \in Int
  OBVIOUS
<1>1. last = IF I # {} THEN Max(I) ELSE 0  BY DEF SelectLastInSeq
<1>2. some = {scores[k] : k \in I}  BY <1>0 DEF Range
<1>3. maxSeverityByID(scores) = IF last = 0 THEN 0 ELSE scores[last]
  BY DEF maxSeverityByID
<1>4. I \subseteq 1..Len(scores)  OBVIOUS
<1> HIDE DEF I, last, some
<1>5. \A k \in I : k \in Nat /\ k >= 1 /\ k <= Len(scores) /\ scores[k] \in Int
  BY <1>0, <1>4
<1> DEFINE Fits == /\ maxSeverityByID(scores) \in Int
                   /\ some = {} => maxSeverityByID(scores) = 0
                   /\ some # {} => maxSeverityByID(scores) \in some
<1>6. ASSUME I # {} PROVE Fits
  <2>1. I \in SUBSET Nat  BY <1>5
  <2>2. \A k \in I : k <= Len(scores)  BY <1>5
  <2>3. Max(I) \in I  BY <1>0, <1>6, <2>1, <2>2, LargestExists
  <2>4. PICK m \in I : m = Max(I)  BY <2>3
  <2>5. last = m /\ m # 0  BY <1>1, <1>5, <1>6, <2>4
  <2>6. maxSeverityByID(scores) = scores[m]  BY <1>3, <2>5
  <2>7. scores[m] \in Int /\ scores[m] \in some  BY <1>2, <1>5
  <2>8. QED  BY <2>6, <2>7
<1>7. ASSUME I = {} PROVE Fits
  <2>1. maxSeverityByID(scores) = 0  BY <1>1, <1>3, <1>7
  <2>2. QED  BY <1>2, <1>7, <2>1
<1>8. QED  BY <1>6, <1>7 DEF some

LEMMA SeverityTables ==
  /\ \A word : NormalizeSeverity(word) \in Severities
  /\ \A word : iacSeverity(word) \in Severities
  /\ \A score : SeverityFromCVSS(score) \in Severities
  /\ \A code : riskSeverity(code) \in Severities
  /\ \A r : severityOf(r) \in Severities
  /\ \A s \in Severities : Rank(s) \in 0..4
<1>1. \A word : NormalizeSeverity(word) \in Severities
  BY DEF NormalizeSeverity, Severities
<1>2. \A word : iacSeverity(word) \in Severities
  BY <1>1 DEF iacSeverity, Severities
<1>3. \A score : SeverityFromCVSS(score) \in Severities
  BY DEF SeverityFromCVSS, Severities
<1>4. \A code : riskSeverity(code) \in Severities  BY DEF riskSeverity, Severities
<1>5. \A r : severityOf(r) \in Severities  BY <1>3 DEF severityOf, Severities
<1>6. \A s \in Severities : Rank(s) \in 0..4  BY DEF Severities, Rank
<1>7. QED  BY <1>1, <1>2, <1>3, <1>4, <1>5, <1>6

(* The words of every tool keep their order, though a word of one is one of *)
(* another's, too.                                                         *)
LEMMA WordsInOrder ==
  ASSUME NEW mild, NEW bad
  PROVE  /\ \A e \in {"semgrep", "trivy", "grype", "nuclei"} : InOrder(Words[e], mild, bad) =>
              Rank(NormalizeSeverity(mild)) <= Rank(NormalizeSeverity(bad))
         /\ InOrder(Words["checkov"], mild, bad) =>
              Rank(iacSeverity(mild)) <= Rank(iacSeverity(bad))
         /\ InOrder(Risks, mild, bad) =>
              Rank(riskSeverity(mild)) <= Rank(riskSeverity(bad))
<1> DEFINE R(word) == Rank(NormalizeSeverity(word))
<1>1. /\ R("UNKNOWN") = 0 /\ R("INFO") = 1 /\ R("NEGLIGIBLE") = 1 /\ R("LOW") = 1
      /\ R("MEDIUM") = 2 /\ R("WARNING") = 2 /\ R("HIGH") = 3 /\ R("ERROR") = 3
      /\ R("CRITICAL") = 4
  BY DEF NormalizeSeverity, Rank
<1> HIDE DEF R
<1>2. InOrder(Words["semgrep"], mild, bad) => R(mild) <= R(bad)
  <2>1. \A k \in 1..3 : R(Words["semgrep"][k]) = k  BY <1>1 DEF Words
  <2>2. DOMAIN Words["semgrep"] = 1..3  BY DEF Words
  <2>3. QED  BY <2>1, <2>2 DEF InOrder
<1>3. InOrder(Words["trivy"], mild, bad) => R(mild) <= R(bad)
  <2>1. \A k \in 1..5 : R(Words["trivy"][k]) = k - 1  BY <1>1 DEF Words
  <2>2. DOMAIN Words["trivy"] = 1..5  BY DEF Words
  <2>3. QED  BY <2>1, <2>2 DEF InOrder
<1>4. InOrder(Words["grype"], mild, bad) => R(mild) <= R(bad)
  <2>1. \A k \in 1..6 : R(Words["grype"][k]) =
          IF k = 1 THEN 0 ELSE IF k = 2 THEN 1 ELSE k - 2
    BY <1>1 DEF Words
  <2>2. DOMAIN Words["grype"] = 1..6  BY DEF Words
  <2>3. QED  BY <2>1, <2>2 DEF InOrder
<1>5. InOrder(Words["nuclei"], mild, bad) => R(mild) <= R(bad)
  <2>1. \A k \in 1..6 : R(Words["nuclei"][k]) =
          IF k = 1 THEN 0 ELSE IF k = 2 THEN 1 ELSE k - 2
    BY <1>1 DEF Words
  <2>2. DOMAIN Words["nuclei"] = 1..6  BY DEF Words
  <2>3. QED  BY <2>1, <2>2 DEF InOrder
<1>6. InOrder(Words["checkov"], mild, bad) =>
        Rank(iacSeverity(mild)) <= Rank(iacSeverity(bad))
  <2>1. \A word \in {"LOW", "MEDIUM", "HIGH", "CRITICAL"} :
          iacSeverity(word) = NormalizeSeverity(word)
    BY Zenon DEF iacSeverity
  <2>2. \A k \in 1..4 : Rank(iacSeverity(Words["checkov"][k])) = R(Words["checkov"][k])
    <3>1. \A k \in 1..4 : Words["checkov"][k] \in {"LOW", "MEDIUM", "HIGH", "CRITICAL"}
      BY DEF Words
    <3>2. QED  BY <2>1, <3>1 DEF R
  <2>3. \A k \in 1..4 : R(Words["checkov"][k]) = k  BY <1>1 DEF Words
  <2>4. DOMAIN Words["checkov"] = 1..4  BY DEF Words
  <2>5. QED  BY <2>2, <2>3, <2>4 DEF InOrder
<1>7. InOrder(Risks, mild, bad) => Rank(riskSeverity(mild)) <= Rank(riskSeverity(bad))
  <2>1. \A k \in 1..4 : Rank(riskSeverity(Risks[k])) = k - 1
    BY DEF Risks, riskSeverity, Rank
  <2>2. DOMAIN Risks = 1..4  BY DEF Risks
  <2>3. QED  BY <2>1, <2>2 DEF InOrder
<1>8. QED  BY <1>2, <1>3, <1>4, <1>5, <1>6, <1>7 DEF R

(* A threat of OpenVAS is recorded as the score that it stands for.         *)
LEMMA ThreatIsScore ==
  ASSUME NEW r, r.score \in Int
  PROVE  /\ ScoreOrThreat(r) \in Int
         /\ severityOf(r) = SeverityFromCVSS(ScoreOrThreat(r))
BY DEF ScoreOrThreat, severityOf, SeverityFromCVSS

(* The severities under which one item is recorded.                         *)
Recorded(e, i) == {f.severity : f \in Item(e, i)}

Named(i) == i.rule # ""
Reachable(i) == i.host # "" /\ i.open
Said(script) == {script.says} \ {""}

ScriptSeverities(script) ==
  IF script.cves # {} THEN {SeverityFromCVSS(c.score) : c \in script.cves}
  ELSE {IF says = "vulnerable" THEN "HIGH" ELSE "LOW" : says \in Said(script)}

LEMMA RecordedAs ==
  ASSUME NEW i
  PROVE  /\ \A e \in {"semgrep", "trivy", "grype"} :
              Recorded(e, i) = {NormalizeSeverity(i.word)}
         /\ Recorded("checkov", i) = {iacSeverity(i.word)}
         /\ Recorded("osv", i) = {SeverityFromCVSS(maxSeverityByID(i.scores))}
         /\ Recorded("zap", i) = {riskSeverity(i.risk)}
         /\ Recorded("gitleaks", i) = {mapSeverity(i.critical)}
         /\ Recorded("sqlmap", i) = {"HIGH"}
         /\ Recorded("openvas", i) = {severityOf(i)}
         /\ Recorded("trufflehog", i) = {s \in {"CRITICAL"} : i.verified}
         /\ Recorded("nuclei", i) = {s \in {NormalizeSeverity(i.word)} : Named(i)}
         /\ Recorded("nikto", i) = {s \in {"LOW"} : Named(i)}
         /\ Recorded("nmap", i) =
              {s \in {IF i.versioned THEN "MEDIUM" ELSE "LOW"}
                       \cup UNION {ScriptSeverities(script) : script \in i.scripts} :
                 Reachable(i)}
<1>1. \A e, rule, at, s : Finding(e, rule, at, s).severity = s  BY DEF Finding
<1>2. \A e \in {"semgrep", "trivy", "grype"} :
        Recorded(e, i) = {NormalizeSeverity(i.word)}
  <2>1. \A e \in {"semgrep", "trivy", "grype"} :
          Item(e, i) = {Finding(e, i.rule, i, NormalizeSeverity(i.word))}
    BY DEF Item
  <2>2. QED  BY <1>1, <2>1 DEF Recorded
<1>3. Recorded("checkov", i) = {iacSeverity(i.word)}
  <2>1. Item("checkov", i) = {Finding("checkov", i.rule, i, iacSeverity(i.word))}
    BY Zenon DEF Item
  <2>2. QED  BY <1>1, <2>1 DEF Recorded
<1>4. Recorded("osv", i) = {SeverityFromCVSS(maxSeverityByID(i.scores))}
  <2>1. Item("osv", i) = {Finding("osv", preferCVE(i), i,
                                  SeverityFromCVSS(maxSeverityByID(i.scores)))}
    BY Zenon DEF Item
  <2>2. QED  BY <1>1, <2>1 DEF Recorded
<1>5. Recorded("zap", i) = {riskSeverity(i.risk)}
  <2>1. \E at : Item("zap", i) = {Finding("zap", i.rule, at, riskSeverity(i.risk))}
    BY Zenon DEF Item
  <2>2. QED  BY <1>1, <2>1 DEF Recorded
<1>6. Recorded("gitleaks", i) = {mapSeverity(i.critical)}
  <2>1. Item("gitleaks", i) = {Finding("gitleaks", i.rule, i, mapSeverity(i.critical))}
    BY Zenon DEF Item
  <2>2. QED  BY <1>1, <2>1 DEF Recorded
<1>7. Recorded("sqlmap", i) = {"HIGH"}
  <2>1. Item("sqlmap", i) = {Finding("sqlmap", "sqlmap-sqli", i, "HIGH")}
    BY Zenon DEF Item
  <2>2. QED  BY <1>1, <2>1 DEF Recorded
<1>8. Recorded("openvas", i) = {severityOf(i)}
  <2>1. Item("openvas", i) = {Finding("openvas", i.rule, i, severityOf(i))}
    BY Zenon DEF Item
  <2>2. QED  BY <1>1, <2>1 DEF Recorded
<1>9. Recorded("trufflehog", i) = {s \in {"CRITICAL"} : i.verified}
  <2>1. Item("trufflehog", i) =
          {Finding("trufflehog", r.rule, r, "CRITICAL") : r \in {r \in {i} : r.verified}}
    BY Zenon DEF Item
  <2>2. QED  BY <1>1, <2>1 DEF Recorded
<1>10. Recorded("nuclei", i) = {s \in {NormalizeSeverity(i.word)} : Named(i)}
  <2> DEFINE At(r) == [url |-> IF r.url = "" THEN r.matched ELSE r.url, method |-> r.method]
  <2>1. Item("nuclei", i) =
          {Finding("nuclei", r.rule, At(r), NormalizeSeverity(r.word)) :
             r \in {r \in {i} : Named(r)}}
    BY Zenon DEF Item, Named
  <2> HIDE DEF At
  <2>2. QED  BY <1>1, <2>1 DEF Recorded
<1>11. Recorded("nikto", i) = {s \in {"LOW"} : Named(i)}
  <2>1. Item("nikto", i) =
          {Finding("nikto", r.rule, r, "LOW") : r \in {r \in {i} : Named(r)}}
    BY Zenon DEF Item, Named
  <2>2. QED  BY <1>1, <2>1 DEF Recorded
<1>12. Recorded("nmap", i) =
         {s \in {IF i.versioned THEN "MEDIUM" ELSE "LOW"}
                  \cup UNION {ScriptSeverities(script) : script \in i.scripts} :
            Reachable(i)}
  <2> DEFINE Service(p) == Finding("nmap", "nmap-service", p,
                                   IF p.versioned THEN "MEDIUM" ELSE "LOW")
  <2>1. Item("nmap", i) =
          UNION {{Service(p)} \cup UNION {scriptFindings(p, script) : script \in p.scripts} :
                   p \in {p \in {i} : Reachable(p)}}
    BY Zenon DEF Item, Reachable
  <2>2. Service(i).severity = IF i.versioned THEN "MEDIUM" ELSE "LOW"
    BY <1>1
  <2> HIDE DEF Service
  <2>3. \A script : {f.severity : f \in scriptFindings(i, script)} = ScriptSeverities(script)
    <3> TAKE script
    <3>1. scriptFindings(i, script) =
            IF script.cves # {}
            THEN {Finding("nmap", c.id, i, SeverityFromCVSS(c.score)) : c \in script.cves}
            ELSE {Finding("nmap", script.id, i,
                          IF says = "vulnerable" THEN "HIGH" ELSE "LOW") :
                    says \in Said(script)}
      BY Zenon DEF scriptFindings, Said
    <3>2. QED  BY <1>1, <3>1 DEF ScriptSeverities
  <2>4. \A s : s \in Recorded("nmap", i) <=>
                 /\ Reachable(i)
                 /\ \/ s = Service(i).severity
                    \/ \E script \in i.scripts :
                         \E f \in scriptFindings(i, script) : s = f.severity
    BY <2>1 DEF Recorded
  <2>5. QED  BY <2>2, <2>3, <2>4
<1>13. QED
  BY <1>2, <1>3, <1>4, <1>5, <1>6, <1>7, <1>8, <1>9, <1>10, <1>11, <1>12, Zenon

LEMMA ScriptsInOrder ==
  ASSUME NEW script, NEW other, ScriptNoWorse(script, other),
         \A c \in script.cves \cup other.cves : c.score \in Int,
         NEW s \in ScriptSeverities(script)
  PROVE  \E t \in ScriptSeverities(other) : Rank(s) <= Rank(t)
<1>1. CASE script.cves # {}
  <2>1. PICK c \in script.cves : s = SeverityFromCVSS(c.score)
    BY <1>1 DEF ScriptSeverities
  <2>2. PICK d \in other.cves : c.score <= d.score  BY <1>1 DEF ScriptNoWorse
  <2>3. Rank(s) <= Rank(SeverityFromCVSS(d.score))
    BY <2>1, <2>2, WorseScoreIsNotMilder
  <2>4. QED  BY <2>2, <2>3 DEF ScriptSeverities
<1>2. CASE script.cves = {}
  <2>1. other.cves = {} /\ other.says = script.says  BY <1>2 DEF ScriptNoWorse
  <2>2. s \in ScriptSeverities(other)  BY <1>2, <2>1 DEF ScriptSeverities, Said
  <2>3. Rank(s) \in Int  BY <1>2 DEF ScriptSeverities, Rank
  <2>4. QED  BY <2>2, <2>3
<1>3. QED  BY <1>1, <1>2

(* An item is never recorded under anything but a severity, and one that    *)
(* the tool calls no worse than another never under a worse one alone.      *)
LEMMA RecordedIsSeverity ==
  ASSUME NEW e \in Adapter, NEW i, NEW s \in Recorded(e, i)
  PROVE  s \in Severities
<1>1. \A b : mapSeverity(b) \in Severities  BY DEF mapSeverity, Severities
<1>2. \A script : ScriptSeverities(script) \subseteq Severities
  BY SeverityTables DEF ScriptSeverities, Severities
<1>3. {"HIGH", "CRITICAL", "LOW", "MEDIUM"} \subseteq Severities  BY DEF Severities
<1>4. CASE e \in {"semgrep", "trivy", "grype"}  BY <1>4, RecordedAs, SeverityTables
<1>5. CASE e = "checkov"  BY <1>5, RecordedAs, SeverityTables
<1>6. CASE e = "osv"  BY <1>6, RecordedAs, SeverityTables
<1>7. CASE e = "zap"  BY <1>7, RecordedAs, SeverityTables
<1>8. CASE e = "gitleaks"  BY <1>1, <1>8, RecordedAs
<1>9. CASE e = "sqlmap"  BY <1>3, <1>9, RecordedAs
<1>10. CASE e = "openvas"  BY <1>10, RecordedAs, SeverityTables
<1>11. CASE e \in {"trufflehog", "nikto"}  BY <1>3, <1>11, RecordedAs
<1>12. CASE e = "nuclei"  BY <1>12, RecordedAs, SeverityTables
<1>13. CASE e = "nmap"  BY <1>2, <1>3, <1>13, RecordedAs
<1>14. QED
  BY <1>4, <1>5, <1>6, <1>7, <1>8, <1>9, <1>10, <1>11, <1>12, <1>13 DEF Adapter, Category

LEMMA NoWorseIsNoMilder ==
  ASSUME NEW e \in Engine, NEW i \in Items[e], NEW j \in Items[e], NoWorse(e, i, j),
         NEW s \in Recorded(e, i)
  PROVE  Rank(s) = 0 \/ \E t \in Recorded(e, j) : Rank(s) <= Rank(t)
<1>0. e \in Adapter  BY EngineAssumption
<1>1. CASE e \in {"semgrep", "trivy", "grype"}
  <2>1. InOrder(Words[e], i.word, j.word)  BY <1>1, Zenon DEF NoWorse
  <2>2. QED  BY <1>1, <2>1, RecordedAs, WordsInOrder
<1>2. CASE e = "checkov"
  <2>1. InOrder(Words["checkov"], i.word, j.word)  BY <1>2, Zenon DEF NoWorse
  <2>2. QED  BY <1>2, <2>1, RecordedAs, WordsInOrder
<1>3. CASE e = "zap"
  <2>1. InOrder(Risks, i.risk, j.risk)  BY <1>3, Zenon DEF NoWorse
  <2>2. QED  BY <1>3, <2>1, RecordedAs, WordsInOrder
<1>4. CASE e = "nuclei"
  <2>1. ~Named(i) \/ (Named(j) /\ InOrder(Words["nuclei"], i.word, j.word))
    BY <1>4, Zenon DEF NoWorse, Named
  <2>2. QED  BY <1>4, <2>1, RecordedAs, WordsInOrder
<1>5. CASE e = "osv"
  <2> DEFINE low == maxSeverityByID(i.scores)
             high == maxSeverityByID(j.scores)
  <2>1. \A x \in Readable(i) : Readable(j) # {} /\ \A y \in Readable(j) : x <= y
    BY <1>5, Zenon DEF NoWorse
  <2>2. /\ i.scores \in Seq(Int) /\ j.scores \in Seq(Int)  BY <1>5, ScoresAssumption
  <2>3. /\ low \in Int /\ (Readable(i) = {} => low = 0)
        /\ Readable(i) # {} => low \in Readable(i)
    BY <2>2, ScoreOfGroups DEF Readable
  <2>4. high \in Int /\ (Readable(j) # {} => high \in Readable(j))
    BY <2>2, ScoreOfGroups DEF Readable
  <2>5. s = SeverityFromCVSS(low) /\ SeverityFromCVSS(high) \in Recorded(e, j)
    BY <1>5, RecordedAs
  <2> HIDE DEF low, high
  <2>6. CASE Readable(i) = {}
    BY <2>3, <2>5, <2>6 DEF SeverityFromCVSS, Rank
  <2>7. CASE Readable(i) # {}
    <3>1. low <= high  BY <2>1, <2>3, <2>4, <2>7
    <3>2. QED  BY <2>3, <2>4, <2>5, <3>1, WorseScoreIsNotMilder
  <2>8. QED  BY <2>6, <2>7
<1>6. CASE e = "gitleaks"
  <2>1. i.critical => j.critical  BY <1>6, Zenon DEF NoWorse
  <2>2. s = mapSeverity(i.critical) /\ mapSeverity(j.critical) \in Recorded(e, j)
    BY <1>6, RecordedAs
  <2>3. Rank(mapSeverity(i.critical)) <= Rank(mapSeverity(j.critical))
    BY <2>1 DEF mapSeverity, Rank
  <2>4. QED  BY <2>2, <2>3
<1>7. CASE e = "trufflehog"
  <2>1. i.verified => j.verified  BY <1>7, Zenon DEF NoWorse
  <2>2. QED  BY <1>7, <2>1, RecordedAs, SeverityTables DEF Severities
<1>8. CASE e = "nikto"
  <2>1. ~Named(i) \/ Named(j)  BY <1>8, Zenon DEF NoWorse, Named
  <2>2. QED  BY <1>8, <2>1, RecordedAs, SeverityTables DEF Severities
<1>9. CASE e = "sqlmap"
  BY <1>9, RecordedAs, SeverityTables DEF Severities
<1>10. CASE e = "openvas"
  <2>1. ScoreOrThreat(i) <= ScoreOrThreat(j)  BY <1>10, Zenon DEF NoWorse
  <2>2. i.score \in Int /\ j.score \in Int  BY <1>10, ScoresAssumption
  <2>3. QED  BY <1>10, <2>1, <2>2, RecordedAs, ThreatIsScore, WorseScoreIsNotMilder
<1>11. CASE e = "nmap"
  <2>0. \A p \in {i, j} : \A script \in p.scripts : \A c \in script.cves : c.score \in Int
    BY <1>11, ScoresAssumption
  <2>1. ~Reachable(i) \/ PortNoWorse(i, j)  BY <1>11, Zenon DEF NoWorse, Reachable
  <2>2. Reachable(i)  BY <1>11, RecordedAs
  <2>3. Reachable(j)  BY <2>1, <2>2, Zenon DEF PortNoWorse, Reachable
  <2>4. /\ i.versioned => j.versioned
        /\ \A script \in i.scripts : \E other \in j.scripts : ScriptNoWorse(script, other)
    BY <2>1, <2>2, Zenon DEF PortNoWorse
  <2>5. \A t : t \in Recorded(e, j) <=>
          \/ t = IF j.versioned THEN "MEDIUM" ELSE "LOW"
          \/ \E other \in j.scripts : t \in ScriptSeverities(other)
    BY <1>11, <2>3, RecordedAs
  <2>6. CASE s = IF i.versioned THEN "MEDIUM" ELSE "LOW"
    BY <2>4, <2>5, <2>6 DEF Rank
  <2>7. CASE \E script \in i.scripts : s \in ScriptSeverities(script)
    <3>1. PICK script \in i.scripts : s \in ScriptSeverities(script)  BY <2>7
    <3>2. PICK other \in j.scripts : ScriptNoWorse(script, other)  BY <2>4
    <3>3. \E t \in ScriptSeverities(other) : Rank(s) <= Rank(t)
      BY <2>0, <3>1, <3>2, ScriptsInOrder
    <3>4. QED  BY <2>5, <3>3
  <2>8. QED  BY <1>11, <2>6, <2>7, RecordedAs
<1>12. QED
  BY <1>0, <1>1, <1>2, <1>3, <1>4, <1>5, <1>6, <1>7, <1>8, <1>9, <1>10, <1>11
     DEF Adapter, Category

(* What is judged, and afterwards kept, is a document; findings are those   *)
(* of a whole one.                                                         *)
ReportInv ==
  /\ DOMAIN run.output = {"form", "items"}
  /\ run.at = "judge" /\ ~run.whole /\ run.engine = "openvas" =>
       run.output.items = {} \/ run.output.form = "torn"
  /\ run.findings # {} =>
       /\ run.at = "ended" /\ run.whole
       /\ WholeOutput(run.engine, run.output, run.found)

(* An output that a program leaves is a document, whole or not.             *)
LEMMA LeftIsDocument ==
  ASSUME NEW e, NEW found, NEW left \in AtItsEnd(e, found) \cup CutShort(e, found)
  PROVE  DOMAIN RawOutput(e, left[1], left[2]) = {"form", "items"}
<1> DEFINE Text(t) == DOMAIN t = {"form", "items"}
<1>1. Text(NoText)  BY DEF NoText
<1>2. \A S, f : \A t \in [form : S, items : f] : Text(t)  OBVIOUS
<1> HIDE DEF Text
<1>3. \A f : \A t \in Torn(f) : Text(t)  BY <1>1, <1>2 DEF Torn
<1>4. \A t \in Complete(e, found) : Text(t)  BY <1>1, <1>2 DEF Complete
<1>5. \A t \in Printed(e) : Text(t)  BY <1>1, <1>3 DEF Printed
<1>6. Text(left[1]) /\ Text(left[2])
  BY <1>1, <1>3, <1>4, <1>5 DEF AtItsEnd, CutShort
<1>7. QED  BY <1>6 DEF RawOutput, Text

(* What is not a whole report has no findings when it is accepted.          *)
LEMMA HalfIsNothing ==
  ASSUME RecordInv, SilenceInv, ReportInv, run.at = "judge", ~run.whole,
         Accepted(run.engine, run.code)
  PROVE  Parse(run.engine, run.output).findings = {}
<1>0. run.engine \in Adapter  BY DEF SilenceInv
<1>1. CASE run.engine = "openvas"
  <2>1. run.output.items = {} \/ run.output.form = "torn"  BY <1>1 DEF ReportInv
  <2>2. Parse(run.engine, run.output) = ParseOpenVAS(run.output)
    BY <1>1, Zenon DEF Parse
  <2>3. ParseOpenVAS(run.output).findings = {}
    BY <2>1 DEF ParseOpenVAS, DecodeOrNothing, Decode, Parsed, ParseError
  <2>4. QED  BY <2>2, <2>3
<1>2. CASE run.engine # "openvas"
  <2>1. run.code # 0 /\ run.output.form \in {"empty", "torn"}
    BY <1>2 DEF SilenceInv
  <2>2. CASE run.engine \in {"semgrep", "checkov", "osv", "zap"}
    <3>1. Parse(run.engine, run.output).ok = FALSE  BY <2>1, <2>2, TornIsRefused
    <3>2. QED  BY <1>0, <3>1, NotParsedIsEmpty
  <2>3. CASE run.engine = "gitleaks"
    <3>1. Parse(run.engine, run.output) = ParseGitleaks(run.output)
      BY <2>3, Zenon DEF Parse
    <3>2. ParseGitleaks(run.output).findings = {}
      BY <2>1 DEF ParseGitleaks, DecodeOrNothing, Decode, Parsed, ParseError
    <3>3. QED  BY <3>1, <3>2
  <2>4. QED  BY <1>0, <2>1, <2>2, <2>3, TellingCodes DEF Accepted
<1>3. QED  BY <1>1, <1>2

LEMMA ReportInitInv == Init => ReportInv
<1> SUFFICES ASSUME Init PROVE ReportInv  OBVIOUS
<1>1. PICK e \in Engine : \E found \in SUBSET Items[e] : run = NewRun(e, found)
  BY DEF Init
<1>2. run.output = NoText /\ run.at = "check" /\ run.findings = {}
  BY <1>1 DEF NewRun
<1>3. QED  BY <1>2 DEF ReportInv, NoText

LEMMA ReportStepInv == RecordInv /\ SilenceInv /\ ReportInv /\ [Next]_vars => ReportInv'
<1> SUFFICES ASSUME RecordInv, SilenceInv, ReportInv, [Next]_vars PROVE ReportInv'
  OBVIOUS
<1>0. /\ DOMAIN run = RunFields /\ run.engine \in Adapter
      /\ run.at # "ended" => run.findings = {}
  BY DEF SilenceInv, ReportInv
<1>1. CASE ProgramEnds
  <2>1. PICK whole \in BOOLEAN, code \in {-1, 0, 1, 2, 3} :
          \E left \in IF whole THEN AtItsEnd(run.engine, run.found)
                      ELSE CutShort(run.engine, run.found) :
            run' = [run EXCEPT !.at = "judge", !.whole = whole, !.code = code,
                      !.output = RawOutput(run.engine, left[1], left[2])]
    BY <1>1 DEF ProgramEnds
  <2>2. PICK left \in IF whole THEN AtItsEnd(run.engine, run.found)
                     ELSE CutShort(run.engine, run.found) :
          run' = [run EXCEPT !.at = "judge", !.whole = whole, !.code = code,
                    !.output = RawOutput(run.engine, left[1], left[2])]
    BY <2>1
  <2>3. /\ run'.engine = run.engine /\ run'.findings = run.findings
        /\ run'.output = RawOutput(run.engine, left[1], left[2])
    BY <1>0, <2>2 DEF RunFields
  <2>4. run.at = "running" /\ run.engine # "openvas"
    BY <1>1 DEF ProgramEnds, SilenceInv
  <2>5. QED  BY <1>0, <2>3, <2>4, LeftIsDocument DEF ReportInv
<1>2. CASE GetReport
  <2>1. PICK output \in [form : {"object"}, items : {{}, run.found}] \cup Torn(run.found) :
          \E whole \in BOOLEAN :
            /\ ~whole => output.items = {} \/ output.form = "torn"
            /\ run' = [run EXCEPT !.at = "judge", !.output = output,
                                 !.whole = whole, !.refused = @ \/ ~whole]
    BY <1>2 DEF GetReport
  <2>2. PICK whole \in BOOLEAN :
            /\ ~whole => output.items = {} \/ output.form = "torn"
            /\ run' = [run EXCEPT !.at = "judge", !.output = output,
                                 !.whole = whole, !.refused = @ \/ ~whole]
    BY <2>1
  <2>3. /\ run'.findings = run.findings /\ run'.whole = whole /\ run'.output = output
    BY <1>0, <2>2 DEF RunFields
  <2>4. DOMAIN output = {"form", "items"}
    BY <2>1 DEF Torn, NoText
  <2>5. run.at = "report"  BY <1>2 DEF GetReport
  <2>6. QED  BY <1>0, <2>2, <2>3, <2>4, <2>5 DEF ReportInv
<1>3. CASE Judge
  <2> DEFINE parsed == Parse(run.engine, run.output)
  <2>1. run.at = "judge"  BY <1>3 DEF Judge
  <2>2. CASE ~Accepted(run.engine, run.code)
    <3>1. /\ run'.findings = run.findings /\ run'.output = run.output
          /\ run'.at = "ended"
      BY <1>0, <1>3, <2>2 DEF Judge, Ends, RunFields
    <3>2. QED  BY <1>0, <2>1, <3>1 DEF ReportInv
  <2>3. CASE Accepted(run.engine, run.code)
    <3>1. run' = [[run EXCEPT !.status = "completed", !.failed = ~parsed.ok,
                              !.findings = parsed.findings] EXCEPT !.at = "ended"]
      BY <1>3, <2>3 DEF Judge, Ends
    <3>2. ~run.whole => parsed.findings = {}  BY <2>1, <2>3, HalfIsNothing
    <3> HIDE DEF parsed
    <3>3. /\ run'.findings = parsed.findings /\ run'.output = run.output
          /\ run'.at = "ended" /\ run'.engine = run.engine
          /\ run'.found = run.found /\ run'.whole = run.whole
      BY <1>0, <3>1 DEF RunFields
    <3>4. run.whole => WholeOutput(run.engine, run.output, run.found)
      BY <2>1 DEF RecordInv
    <3>5. QED  BY <3>2, <3>3, <3>4 DEF ReportInv
  <2>4. QED  BY <2>2, <2>3
<1>4. CASE \/ CheckInstalled \/ Run \/ NoDirectory \/ Start \/ CreateTarget \/ CreateTask
           \/ StartTask \/ PollAnswered \/ PollRefused \/ PollLost
  <2>1. /\ run'.findings = run.findings /\ run'.output = run.output
        /\ run.at # "ended" /\ run'.at # "judge"
    <3>1. CASE CheckInstalled  BY <1>0, <3>1 DEF CheckInstalled, Ends, RunFields
    <3>2. CASE Run  BY <1>0, <3>2 DEF Run, RunFields
    <3>3. CASE NoDirectory  BY <1>0, <3>3 DEF NoDirectory, Ends, RunFields
    <3>4. CASE Start  BY <1>0, <3>4 DEF Start, Ends, RunFields
    <3>5. CASE CreateTarget
      BY <1>0, <3>5 DEF CreateTarget, Proceeds, Aborts, Ends, RunFields
    <3>6. CASE CreateTask  BY <1>0, <3>6 DEF CreateTask, Proceeds, Aborts, Ends, RunFields
    <3>7. CASE StartTask  BY <1>0, <3>7 DEF StartTask, Proceeds, Aborts, Ends, RunFields
    <3>8. CASE PollAnswered  BY <1>0, <3>8 DEF PollAnswered, Proceeds, Ends, RunFields
    <3>9. CASE PollRefused  BY <1>0, <3>9 DEF PollRefused, RunFields
    <3>10. CASE PollLost  BY <1>0, <3>10 DEF PollLost, Aborts, Ends, RunFields
    <3>11. QED
      BY <1>4, <3>1, <3>2, <3>3, <3>4, <3>5, <3>6, <3>7, <3>8, <3>9, <3>10
  <2>2. QED  BY <1>0, <2>1 DEF ReportInv
<1>5. CASE InstallBegins \/ InstallEnds \/ (Toggles /\ envFile' # envFile)
  <2>1. Disturb  BY <1>5 DEF InstallBegins, InstallEnds, Toggles
  <2>2. /\ run'.engine = run.engine /\ run'.found = run.found
        /\ run'.at = run.at /\ run'.findings = run.findings
        /\ run'.whole = run.whole /\ run'.output = run.output
    BY <1>0, <2>1 DEF Disturb, RunFields
  <2>3. QED  BY <2>2 DEF ReportInv
<1>6. CASE UNCHANGED run  BY <1>6 DEF ReportInv
<1>7. (Toggles /\ envFile' = envFile) \/ TaskEnds \/ Die \/ UNCHANGED vars => UNCHANGED run
  BY DEF Toggles, TaskEnds, Die, vars
<1>8. QED
  BY <1>1, <1>2, <1>3, <1>4, <1>5, <1>6, <1>7 DEF Next, RunStep

(* An engine's findings are recorded only from a whole report, never from   *)
(* the part of one that was written before its program was cut short,      *)
(* whatever exit code it left (runEngine with ExitCodeIsFindings and Parse *)
(* of every adapter).                                                      *)
FindingsNeedWholeReport == run.findings # {} => run.whole

THEOREM NothingOfHalfReports == Spec => []FindingsNeedWholeReport
<1>1. ReportInv => FindingsNeedWholeReport  BY DEF ReportInv, FindingsNeedWholeReport
<1>2. QED
  BY <1>1, RecordInitInv, RecordStepInv, SilenceInitInv, SilenceStepInv,
     ReportInitInv, ReportStepInv, PTL DEF Spec

(* The largest of some ranks is one of them, or none counts.                *)
LEMMA WorstOfRanks ==
  ASSUME NEW S, S \subseteq 0..4
  PROVE  /\ Max({0} \cup S) \in {0} \cup S
         /\ \A x \in {0} \cup S : x <= Max({0} \cup S)
<1> DEFINE T == {0} \cup S
<1>1. T \in SUBSET Nat /\ T # {}  OBVIOUS
<1>2. \A x \in T : x <= 4  OBVIOUS
<1> HIDE DEF T
<1>3. Max(T) \in T /\ \A x \in T : x <= Max(T)  BY <1>1, <1>2, LargestExists
<1>4. QED  BY <1>3 DEF T

(* What a tool calls worse is not recorded as milder: by any adapter, for   *)
(* every word, score and threat, and whatever else the report holds        *)
(* (NormalizeSeverity, SeverityFromCVSS and the adapters' own tables).     *)
THEOREM WorseAreNotMilder == Spec => []WorseIsNotMilder
<1>1. ASSUME RecordInv, ReportInv PROVE WorseIsNotMilder
  <2>1. SUFFICES ASSUME run.findings # {},
                        NEW i \in run.output.items, NEW j \in run.output.items,
                        NoWorse(run.engine, i, j)
                 PROVE  Worst(i) <= Worst(j)
    BY DEF WorseIsNotMilder
  <2> DEFINE e == run.engine
             R(k) == {Rank(s) : s \in Recorded(e, k)}
  <2>2. /\ e \in Engine /\ e \in Adapter /\ run.found \subseteq Items[e]
        /\ run.status = "completed" /\ run.whole
        /\ run.findings = UNION {Alone(e, k) : k \in run.found}
        /\ WholeOutput(e, run.output, run.found)
    BY <1>1, <2>1, EngineAssumption DEF RecordInv, ReportInv
  <2>3. run.output.items = run.found /\ run.output.form \in Forms(e)
    BY <2>1, <2>2 DEF WholeOutput
  <2>4. \A k \in run.found :
          Parse(e, [run.output EXCEPT !.items = {k}]).findings = Item(e, k)
    <3> TAKE k \in run.found
    <3> DEFINE out == [run.output EXCEPT !.items = {k}]
    <3>1. out.form = run.output.form /\ out.items = {k}
      BY <1>1 DEF ReportInv
    <3> HIDE DEF out
    <3>2. WholeOutput(e, out, {k})  BY <2>3, <3>1 DEF WholeOutput
    <3>3. Parse(e, out).findings = UNION {Alone(e, m) : m \in {k}}
      BY <2>2, <3>2, WholeIsParsed
    <3>4. Alone(e, k) = Item(e, k)  BY <2>2, <3>2, WholeIsParsed
    <3>5. QED  BY <3>3, <3>4 DEF out
  <2>5. \A k \in run.found : Item(e, k) \subseteq run.findings
    <3>1. \A k : Alone(e, k) = Item(e, k)  BY <2>2, WholeIsParsed
    <3>2. QED  BY <2>2, <3>1
  <2>6. \A k \in run.found : Worst(k) = Max({0} \cup R(k))
    <3> TAKE k \in run.found
    <3>1. {Rank(f.severity) : f \in run.findings \cap Item(e, k)} = R(k)
      BY <2>5 DEF Recorded
    <3>2. Worst(k) = Max({0} \cup {Rank(f.severity) : f \in run.findings \cap Item(e, k)})
      BY <2>4 DEF Worst
    <3>3. QED  BY <3>1, <3>2
  <2>7. \A k : R(k) \subseteq 0..4  BY <2>2, RecordedIsSeverity, SeverityTables
  <2>8. \A x \in R(i) : x = 0 \/ \E y \in R(j) : x <= y
    BY <2>1, <2>2, <2>3, NoWorseIsNoMilder
  <2>9. Worst(i) = Max({0} \cup R(i)) /\ Worst(j) = Max({0} \cup R(j))
    BY <2>3, <2>6
  <2> HIDE DEF R, e
  <2>10. /\ Max({0} \cup R(i)) \in {0} \cup R(i)
         /\ Max({0} \cup R(j)) \in {0} \cup R(j)
         /\ \A y \in {0} \cup R(j) : y <= Max({0} \cup R(j))
    BY <2>7, WorstOfRanks
  <2>11. Max({0} \cup R(i)) <= Max({0} \cup R(j))
    BY <2>7, <2>8, <2>10
  <2>12. QED  BY <2>9, <2>11
<1>2. RecordInv /\ ReportInv => WorseIsNotMilder  BY <1>1
<1>3. QED
  BY <1>2, RecordInitInv, RecordStepInv, SilenceInitInv, SilenceStepInv,
     ReportInitInv, ReportStepInv, PTL DEF Spec
=============================================================================
