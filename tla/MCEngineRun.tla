---------------------------- MODULE MCEngineRun ----------------------------
(***************************************************************************)
(* Instances of EngineRun for TLC.  Every adapter is run on every subset   *)
(* of two or three items that tell its cases apart: issues of different    *)
(* severity, and noise.  The disk changes under three of them, which stand *)
(* for the ways a program is run: semgrep prints its findings, gitleaks    *)
(* writes a report, OpenVAS is talked to.                                  *)
(***************************************************************************)
EXTENDS EngineRun, TLC

CONSTANTS t1, t2, self, other

MCEngine == Adapter
MCSemgrep == {"semgrep"}
MCOpenVAS == {"openvas"}
MCNone == {}

Code(rule, line, word) ==
  [rule |-> rule, file |-> "a.go", line |-> line, word |-> word,
   issues |-> {<<rule, line>>}]

Package(rule, word) ==
  [rule |-> rule, pkg |-> "p", version |-> "1", word |-> word,
   issues |-> {rule}]

Known(id, cve, scores) ==
  [id |-> id, cve |-> cve, pkg |-> "p", version |-> "1", scores |-> scores,
   issues |-> {IF cve = "" THEN id ELSE cve}]

Alert(rule, url, risk) ==
  [rule |-> rule, url |-> url, site |-> "s", method |-> "GET", risk |-> risk,
   issues |-> {rule}]

Match(rule, url, word) ==
  [rule |-> rule, url |-> url, matched |-> "m", method |-> "HTTP",
   word |-> word, issues |-> {rule} \ {""}]

Port(port, open, versioned, scripts, issues) ==
  [host |-> "h", port |-> port, open |-> open, versioned |-> versioned,
   scripts |-> scripts, issues |-> issues]

Vulners(score) ==
  [id |-> "vulners", cves |-> {[id |-> "CVE-1", score |-> score]}, says |-> "list"]
Says(says) == [id |-> "script", cves |-> {}, says |-> says]

Result(rule, score, threat) ==
  [rule |-> rule, host |-> "h", port |-> "443", score |-> score,
   threat |-> threat, issues |-> {rule}]

MCItems == [
  semgrep |-> {Code("r", "1", "INFO"), Code("r", "2", "WARNING"),
               Code("q", "1", "ERROR")},
  trivy |-> {Package("CVE-1", "LOW"), Package("CVE-2", "CRITICAL")},
  grype |-> {Package("CVE-1", "NEGLIGIBLE"), Package("CVE-2", "MEDIUM")},
  osv |-> {Known("GO-1", "CVE-1", <<95>>), Known("GHSA-1", "CVE-1", <<95>>),
           Known("GO-2", "", <<70, -1>>), Known("GO-3", "", <<39>>)},
  checkov |-> {Code("r", "1", "LOW"), Code("r", "2", "HIGH")},
  gitleaks |-> {Code("jwt", "1", "") @@ [critical |-> TRUE],
                Code("generic", "2", "") @@ [critical |-> FALSE]},
  trufflehog |-> {Code("AWS", "1", "") @@ [verified |-> TRUE],
                  [Code("AWS", "2", "") EXCEPT !.issues = {}]
                    @@ [verified |-> FALSE]},
  zap |-> {Alert("1", "u", "1"), Alert("2", "", "3"), Alert("3", "u", "0")},
  nuclei |-> {Match("t", "u", "INFO"), Match("u", "", "CRITICAL"),
              Match("", "u", "")},
  nikto |-> {Match("1", "u", ""), Match("2", "v", ""), Match("", "u", "")},
  sqlmap |-> {[url |-> "u", method |-> method, issues |-> {<<parameter, method>>}] :
                parameter \in {"id", "name"}, method \in {"GET", "POST"}},
  nmap |-> {Port("22", TRUE, FALSE, {}, {"ssh"}),
            Port("80", TRUE, TRUE, {Says("vulnerable"), Says("")}, {"http", "script"}),
            Port("443", TRUE, TRUE, {Vulners(98)}, {"https", "CVE-1"}),
            Port("25", FALSE, FALSE, {}, {})},
  openvas |-> {Result("1", 98, "high"), Result("2", 0, "medium"),
               Result("3", -1, "log")}]

(* One toggle, one install and one failure to read .env or to write it     *)
(* come at any moment of a run of these.                                   *)
Disturbed ==
  /\ run.engine \in {"semgrep", "gitleaks", "openvas"}
  /\ run.found = {}
  /\ started = MaxToggles - 1 /\ broken = 0 /\ installs = 0

(* Toggles overlap under this one.                                         *)
Contended ==
  /\ run.engine = "semgrep" /\ run.found = {}
  /\ managed = "absent" /\ machine = [program |-> FALSE, docker |-> TRUE]
  /\ started = 0 /\ broken = 0 /\ installs = MaxInstalls

Still ==
  started = MaxToggles /\ broken = MaxBreaks /\ installs = MaxInstalls

MCInit == Init /\ file.settings /\ (Disturbed \/ Contended \/ Still)

(* Nothing reads the disk once the program is started.                      *)
DiskMovesBeforeStart ==
  run.at \in {"check", "run", "start"} \/ UNCHANGED <<profileVars, hostVars>>

MCSpec == MCInit /\ [][Next]_vars /\ Fairness
=============================================================================
