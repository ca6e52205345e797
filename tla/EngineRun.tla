----------------------------- MODULE EngineRun -----------------------------
(***************************************************************************)
(* One engine of a scan, from CheckInstalled to its engine run and its     *)
(* findings (runEngine of the orchestrator and Run of the adapters), while *)
(* installs rewrite the managed binary and toggles rewrite .env.  What     *)
(* will run is resolved three times, each from the disk as it is then: by  *)
(* CheckInstalled, by Run, and when the program is started.  Two engines   *)
(* of a scan share nothing else, so one is enough.                         *)
(*                                                                         *)
(* OpenVAS has no program to run: its adapter talks to a service, one      *)
(* `docker compose exec` for each command, and polls until its task ends.  *)
(* Programs and the service are external: they may fail at any time.       *)
(***************************************************************************)
EXTENDS Adapters, DockerProfiles

CONSTANTS
  Engine,       \* adapters that may be run
  Items,        \* what a program of each engine may report
  Self,         \* the profile of the engine that runs
  MaxInstalls   \* writes of the managed binary

ASSUME EngineAssumption ==
  Engine \subseteq Adapter /\ Self \in Profile /\ MaxInstalls \in Nat

(* CVSS scores are numbers.                                                *)
ASSUME ScoresAssumption ==
  /\ "osv" \in Engine => \A v \in Items["osv"] : v.scores \in Seq(Int)
  /\ "openvas" \in Engine => \A r \in Items["openvas"] : r.score \in Int
  /\ "nmap" \in Engine => \A p \in Items["nmap"] : \A script \in p.scripts :
       \A c \in script.cves : c.score \in Int

VARIABLES
  managed,      \* its managed binary: absent, partial or whole
  machine,      \* whether its program and docker are on the PATH
  run,          \* the engine and how far it is
  service,      \* the task of OpenVAS
  installs

hostVars == <<managed, machine, installs>>
vars == <<profileVars, hostVars, run, service>>

NoText == [form |-> "empty", items |-> {}]
Torn(found) == {NoText} \cup [form : {"torn"}, items : SUBSET found]

(* found: what there is to report; source: as resolved by Run; program:    *)
(* what was started; failed: the error of the result.  History: what       *)
(* CheckInstalled resolved to and whether nothing changed since (checked,  *)
(* calm), whether the program did its work to the end (whole), whether     *)
(* OpenVAS refused or lost a command.                                      *)
NewRun(e, found) ==
  [engine |-> e, found |-> found, at |-> "check", source |-> "none",
   program |-> "none", code |-> 0, output |-> NoText, status |-> "none",
   failed |-> FALSE, findings |-> {}, checked |-> "none", calm |-> TRUE,
   whole |-> FALSE, refused |-> FALSE]

Init ==
  /\ ProfilesInit
  /\ managed \in {"absent", "partial", "whole"}
  /\ machine \in [program : BOOLEAN, docker : BOOLEAN]
  /\ \E e \in Engine : \E found \in SUBSET Items[e] : run = NewRun(e, found)
  /\ service = "none"
  /\ installs \in 0..MaxInstalls

(* Steps of others, while the run is between two of its resolutions.       *)
Disturb == run' = [run EXCEPT !.calm = @ /\ run.at \notin {"run", "start"}]

-----------------------------------------------------------------------------
(* Around the run *)

(* An install opens the binary, which truncates it and keeps it executable, *)
(* and ends or is killed.                                                  *)
InstallBegins ==
  /\ installs < MaxInstalls /\ installs' = installs + 1
  /\ managed' = "partial"
  /\ Disturb
  /\ UNCHANGED <<profileVars, machine, service>>

InstallEnds ==
  /\ managed = "partial"
  /\ managed' = "whole"
  /\ Disturb
  /\ UNCHANGED <<profileVars, machine, service, installs>>

Toggles ==
  /\ EnvStep
  /\ IF envFile' # envFile THEN Disturb ELSE UNCHANGED run
  /\ UNCHANGED <<hostVars, service>>

-----------------------------------------------------------------------------
(* Which program *)

dockerEnabled == machine.docker /\ Self \in composeProfiles

ResolveSourceFor ==
  CASE managed # "absent" -> "managed"
    [] managed = "absent" /\ dockerEnabled -> "docker"
    [] managed = "absent" /\ ~dockerEnabled /\ machine.program -> "system"
    [] OTHER -> "missing"

Installed ==
  IF run.engine = "openvas" THEN Self \in composeProfiles
  ELSE ResolveSourceFor # "missing"

(* The run has its row; what is not listed is as before.                   *)
Ends(changed) == run' = [changed EXCEPT !.at = "ended"]

CheckInstalled ==
  /\ run.at = "check"
  /\ LET checked == [run EXCEPT !.checked = ResolveSourceFor]
     IN IF Installed THEN run' = [checked EXCEPT !.at = "run"]
        ELSE Ends([checked EXCEPT !.status = "skipped"])
  /\ UNCHANGED <<profileVars, hostVars, service>>

(* Engines whose programs write a report need a directory for it, except   *)
(* those that write it into the temporary directory itself.                *)
NeedsDirectory(e, source) ==
  \/ e = "gitleaks"
  \/ e \in {"zap", "nikto"} /\ source = "docker"

Run ==
  /\ run.at = "run" /\ run.engine # "openvas"
  /\ run' = [run EXCEPT !.at = "start", !.source = ResolveSourceFor]
  /\ UNCHANGED <<profileVars, hostVars, service>>

NoDirectory ==
  /\ run.at = "start" /\ NeedsDirectory(run.engine, run.source)
  /\ Ends([run EXCEPT !.status = "failed", !.failed = TRUE, !.code = -1,
                      !.program = "no directory"])
  /\ UNCHANGED <<profileVars, hostVars, service>>

(* Mutant: Run does not tell docker from the rest.                         *)
ProgramOnHost ==
  CASE managed # "absent" -> managed
    [] managed = "absent" /\ machine.program -> "system"
    [] OTHER -> "none"

(* ResolveBinary, unless it goes to docker                                 *)
Program ==
  CASE run.source = "docker" -> "container"
    [] run.source # "docker" /\ managed # "absent" -> managed
    [] run.source # "docker" /\ managed = "absent" /\ machine.program -> "system"
    [] OTHER -> "none"

(* DefaultRun: what cannot be started is a run of exit code -1.            *)
Start ==
  /\ run.at = "start"
  /\ LET begun == [run EXCEPT !.program = Program]
     IN IF Program \in {"none", "partial"}
        THEN Ends([begun EXCEPT !.code = -1, !.status = "failed",
                                !.failed = TRUE])
        ELSE run' = [begun EXCEPT !.at = "running"]
  /\ UNCHANGED <<profileVars, hostVars, service>>

-----------------------------------------------------------------------------
(* What a program leaves behind (external) *)

Forms(e) ==
  CASE e \in {"trufflehog", "nuclei"} -> {"lines"}
    [] e \in {"checkov", "nikto"} -> {"object", "array"}
    [] e = "gitleaks" -> {"array"}
    [] e = "sqlmap" -> {"text"}
    [] OTHER -> {"object"}

(* Without findings, JSON lines are no lines and gitleaks writes no report. *)
Complete(e, found) ==
  [form : Forms(e), items : {found}] \cup
  {none \in {NoText} :
     found = {} /\ e \in {"trufflehog", "nuclei", "gitleaks"}}

WritesReport(e) == e \in {"gitleaks", "zap", "nikto"}

(* What a program prints that writes its findings elsewhere                *)
Printed(e) == IF e = "gitleaks" THEN {NoText} ELSE Torn({})

AtItsEnd(e, found) ==
  IF WritesReport(e) THEN Printed(e) \X Complete(e, found)
  ELSE Complete(e, found) \X {NoText}

CutShort(e, found) ==
  IF WritesReport(e) THEN Printed(e) \X Torn(found)
  ELSE Torn(found) \X {NoText}

(* runSystem and runDocker: a report that is not there leaves what the     *)
(* program printed.                                                        *)
RawOutput(e, printed, report) ==
  IF WritesReport(e) /\ report # NoText THEN report ELSE printed

(* A program that does its work ends with 0 or with a code that means      *)
(* findings; one that does not ends with another, or with 1 as most do.    *)
ProgramEnds ==
  /\ run.at = "running"
  /\ \E whole \in BOOLEAN, code \in {-1, 0, 1, 2, 3} :
       /\ whole /\ code # 0 =>
            run.found # {} /\ code \in FindingCodes(run.engine)
       /\ ~whole => code # 0
       /\ \E left \in IF whole THEN AtItsEnd(run.engine, run.found)
                      ELSE CutShort(run.engine, run.found) :
            run' = [run EXCEPT !.at = "judge", !.whole = whole, !.code = code,
                      !.output = RawOutput(run.engine, left[1], left[2])]
  /\ UNCHANGED <<profileVars, hostVars, service>>

-----------------------------------------------------------------------------
(* Mutant: every exit code is taken for an end with findings.              *)
AnyCode(e, code) == TRUE

Accepted(e, code) == code = 0 \/ code \in FindingCodes(e)

(* The rest of runEngine.  An output that does not parse leaves a completed *)
(* engine run and an error.                                                *)
Judge ==
  /\ run.at = "judge"
  /\ LET parsed == Parse(run.engine, run.output)
     IN IF Accepted(run.engine, run.code)
        THEN Ends([run EXCEPT !.status = "completed", !.failed = ~parsed.ok,
                              !.findings = parsed.findings])
        ELSE Ends([run EXCEPT !.status = "failed", !.failed = TRUE])
  /\ UNCHANGED <<profileVars, hostVars, service>>

-----------------------------------------------------------------------------
(* OpenVAS: a command of the conversation is answered, refused by the      *)
(* service, or lost with the `docker compose exec` that carries it, of     *)
(* which the adapter sees no text, or text cut short.  A lost command may  *)
(* have had its effect.                                                    *)

Scans == service' \in {service, "running"}

Aborts ==
  Ends([run EXCEPT !.status = "failed", !.failed = TRUE, !.code = -1,
                   !.refused = TRUE])

Proceeds(to) == run' = [run EXCEPT !.at = to]

CreateTarget ==
  /\ run.at = "run" /\ run.engine = "openvas"
  /\ Proceeds("create task") \/ Aborts
  /\ UNCHANGED <<profileVars, hostVars, service>>

CreateTask ==
  /\ run.at = "create task"
  /\ Proceeds("start task") \/ Aborts
  /\ UNCHANGED <<profileVars, hostVars, service>>

StartTask ==
  /\ run.at = "start task"
  /\ \/ Proceeds("poll") /\ service' = "running"
     \/ Aborts /\ Scans
  /\ UNCHANGED <<profileVars, hostVars>>

(* The task of the service (external)                                      *)
TaskEnds ==
  /\ service = "running"
  /\ service' \in {"done", "stopped"}
  /\ UNCHANGED <<profileVars, hostVars, run>>

(* Mutant: a task that was stopped is waited for.                          *)
PollForDone ==
  /\ run.at = "poll" /\ service = "done"
  /\ Proceeds("report")
  /\ UNCHANGED <<profileVars, hostVars, service>>

(* A poll of waitForTask that is answered; a task that runs is polled again *)
PollAnswered ==
  /\ run.at = "poll"
  /\ \/ service = "done" /\ Proceeds("report")
     \/ /\ service = "stopped"
        /\ Ends([run EXCEPT !.status = "failed", !.failed = TRUE, !.code = -1])
  /\ UNCHANGED <<profileVars, hostVars, service>>

(* A refusal names no task, which is no state that ends the wait.          *)
PollRefused ==
  /\ run.at = "poll"
  /\ run' = [run EXCEPT !.refused = TRUE]
  /\ UNCHANGED <<profileVars, hostVars, service>>

PollLost ==
  /\ run.at = "poll"
  /\ Aborts
  /\ UNCHANGED <<profileVars, hostVars, service>>

(* The answer is not looked at before Parse: a refusal is a report without *)
(* results, and a lost command no text, or text cut short.                 *)
GetReport ==
  /\ run.at = "report"
  /\ \E output \in [form : {"object"}, items : {{}, run.found}] \cup Torn(run.found),
        whole \in BOOLEAN :
       /\ whole => output = [form |-> "object", items |-> run.found]
       /\ ~whole => output.items = {} \/ output.form = "torn"
       /\ run' = [run EXCEPT !.at = "judge", !.output = output,
                            !.whole = whole, !.refused = @ \/ ~whole]
  /\ UNCHANGED <<profileVars, hostVars, service>>

-----------------------------------------------------------------------------
RunStep ==
  \/ CheckInstalled \/ Run \/ NoDirectory \/ Start \/ ProgramEnds \/ Judge
  \/ CreateTarget \/ CreateTask \/ StartTask
  \/ PollAnswered \/ PollRefused \/ PollLost \/ GetReport

Die == TogglesDie /\ UNCHANGED <<hostVars, run, service>>

Next == RunStep \/ TaskEnds \/ Toggles \/ Die \/ InstallBegins \/ InstallEnds

Spec == Init /\ [][Next]_vars

(* Programs end, a task of OpenVAS ends, and its service does not refuse   *)
(* for ever: nothing in the code bounds any of them.                       *)
Fairness ==
  /\ WF_vars(CheckInstalled \/ Run \/ Start \/ ProgramEnds \/ Judge)
  /\ WF_vars(CreateTarget \/ CreateTask \/ StartTask \/ GetReport)
  /\ WF_vars(PollAnswered)
  /\ WF_vars(TaskEnds)

FairSpec == Spec /\ Fairness

-----------------------------------------------------------------------------
Status == {"none", "skipped", "completed", "failed"}

TypeOK ==
  /\ ProfilesTypeOK
  /\ managed \in {"absent", "partial", "whole"}
  /\ run.engine \in Engine /\ run.found \subseteq Items[run.engine]
  /\ run.at = "ended" <=> run.status # "none"
  /\ run.status \in Status
  /\ run.findings # {} => run.status = "completed" /\ ~run.failed
  /\ service \in {"none", "running", "done", "stopped"}
  /\ installs \in 0..MaxInstalls

(* What CheckInstalled found is what is started, or the disk changed in    *)
(* between.  A managed binary that was there then is never passed over for *)
(* the system's or a container, whatever changed.                          *)
StartedBy(source) ==
  CASE source = "managed" -> {"partial", "whole"}
    [] source = "docker" -> {"container"}
    [] source = "system" -> {"system"}
    [] OTHER -> {}

Tried == run.source # "none" /\ run.at # "start" /\ run.program # "no directory"

CheckedIsStarted ==
  Tried /\ (run.calm \/ run.checked = "managed") =>
    run.program \in StartedBy(run.checked)

(* An engine whose run is recorded as completed, without an error and      *)
(* without findings, did scan the target to its end.  Two adapters cannot  *)
(* tell: gitleaks ends with 1 when it fails too, and may write no report   *)
(* when it finds nothing; OpenVAS does not look at its last answer.        *)
Blind ==
  \/ run.engine = "gitleaks" /\ run.code = 1
  \/ run.engine = "openvas" /\ run.refused

CleanMeansScanned ==
  run.status = "completed" /\ ~run.failed /\ run.findings = {} =>
    run.whole \/ Blind

(* Every issue a program reported is recorded, once, and nothing else is:  *)
(* an item stands for the issues that its tool documents.  Only what sqlmap *)
(* says of two parameters of one URL is merged, as the upsert goes by a     *)
(* fingerprint that names the method and no parameter.                     *)
Issues(e, items) ==
  IF e = "sqlmap" THEN {<<i.url, i.method>> : i \in items}
  ELSE UNION {i.issues : i \in items}

ReportedIsRecorded ==
  run.status = "completed" /\ run.whole =>
    /\ ~run.failed
    /\ Cardinality({f.hash : f \in run.findings}) =
         Cardinality(Issues(run.engine, run.found))

(* What each tool calls worse, in its own terms: the words it has, milder   *)
(* ones first; ZAP's risks; what a threat of OpenVAS means as a score.      *)
Words == [
  semgrep |-> <<"INFO", "WARNING", "ERROR">>,
  trivy |-> <<"UNKNOWN", "LOW", "MEDIUM", "HIGH", "CRITICAL">>,
  grype |-> <<"UNKNOWN", "NEGLIGIBLE", "LOW", "MEDIUM", "HIGH", "CRITICAL">>,
  checkov |-> <<"LOW", "MEDIUM", "HIGH", "CRITICAL">>,
  nuclei |-> <<"UNKNOWN", "INFO", "LOW", "MEDIUM", "HIGH", "CRITICAL">>]

Risks == <<"0", "1", "2", "3">>

InOrder(scale, mild, bad) ==
  \E m, n \in DOMAIN scale : m <= n /\ mild = scale[m] /\ bad = scale[n]

ScoreOrThreat(r) ==
  CASE r.score > 0 -> r.score
    [] r.score <= 0 /\ r.threat = "high" -> 70
    [] r.score <= 0 /\ r.threat = "medium" -> 40
    [] r.score <= 0 /\ r.threat = "low" -> 1
    [] OTHER -> 0

(* The scores a vulnerability has in its groups, without what is no number  *)
Readable(v) == {x \in Range(v.scores) : x >= 0}

(* nmap has no words: a script that lists CVEs is no worse than one that    *)
(* lists a worse one for each, any other than one that says the same.       *)
ScriptNoWorse(script, other) ==
  IF script.cves = {} THEN other.cves = {} /\ other.says = script.says
  ELSE \A c \in script.cves : \E d \in other.cves : c.score <= d.score

PortNoWorse(p, q) ==
  /\ q.host # "" /\ q.open
  /\ p.versioned => q.versioned
  /\ \A script \in p.scripts : \E other \in q.scripts : ScriptNoWorse(script, other)

(* The tool calls item i no worse than item j.                              *)
NoWorse(e, i, j) ==
  CASE e \in {"semgrep", "trivy", "grype", "checkov"} ->
         InOrder(Words[e], i.word, j.word)
    [] e = "nuclei" ->
         i.rule = "" \/ (j.rule # "" /\ InOrder(Words[e], i.word, j.word))
    [] e = "zap" -> InOrder(Risks, i.risk, j.risk)
    [] e = "osv" ->
         \A x \in Readable(i) : Readable(j) # {} /\ \A y \in Readable(j) : x <= y
    [] e = "gitleaks" -> i.critical => j.critical
    [] e = "trufflehog" -> i.verified => j.verified
    [] e = "nikto" -> i.rule = "" \/ j.rule # ""
    [] e = "nmap" -> i.host = "" \/ ~i.open \/ PortNoWorse(i, j)
    [] e = "openvas" -> ScoreOrThreat(i) <= ScoreOrThreat(j)
    [] e = "sqlmap" -> TRUE

(* What a tool calls worse is not recorded as milder, by any of the tables  *)
(* and scores that thirteen tools' words go through.                        *)
Rank(severity) ==
  CASE severity = "UNKNOWN" -> 0 [] severity = "LOW" -> 1
    [] severity = "MEDIUM" -> 2 [] severity = "HIGH" -> 3
    [] severity = "CRITICAL" -> 4

(* The worst that an item of the output is recorded as                     *)
Worst(item) ==
  LET alone == Parse(run.engine, [run.output EXCEPT !.items = {item}]).findings
  IN Max({0} \cup {Rank(f.severity) : f \in run.findings \cap alone})

WorseIsNotMilder ==
  run.findings # {} =>
    \A i, j \in run.output.items : NoWorse(run.engine, i, j) => Worst(i) <= Worst(j)

(* orchestrate: a step whose GMP status is not a success is an error that  *)
(* ends the conversation.  Not so of a poll, nor of the report.            *)
RefusalAborts == run.refused /\ run.at = "ended" => run.status = "failed"

(* A run that began ends, whoever toggles and installs meanwhile.          *)
RunEnds == <>(run.at = "ended")
=============================================================================
