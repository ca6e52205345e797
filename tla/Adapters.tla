------------------------------ MODULE Adapters ------------------------------
(***************************************************************************)
(* What each engine's adapter makes of the output of its program: the exit *)
(* codes that mean findings, and Parse.                                    *)
(*                                                                         *)
(* An output is [form, items].  "empty" has no text and "torn" is text     *)
(* that ends in the middle of an item; the other forms are what the        *)
(* programs write: one JSON "object", one JSON "array", JSON "lines", one  *)
(* per item, or marked "text".  An item keeps the fields that decide       *)
(* whether it becomes a finding, under which fingerprint and severity.     *)
(* Words are as NormalizeSeverity compares them, trimmed and in capitals.  *)
(* CVSS scores are in tenths; the fields that are only shown are left out. *)
(***************************************************************************)
EXTENDS Integers, Sequences, SequencesExt

Category ==
  [semgrep |-> "SAST", trivy |-> "SCA", grype |-> "SCA", osv |-> "SCA",
   checkov |-> "IaC", gitleaks |-> "Secret", trufflehog |-> "Secret",
   zap |-> "DAST", nuclei |-> "DAST", nikto |-> "DAST", sqlmap |-> "DAST",
   nmap |-> "VA", openvas |-> "VA"]

Adapter == DOMAIN Category

(* ExitCodeIsFindings of each adapter                                      *)
FindingCodes(e) ==
  CASE e \in {"semgrep", "checkov", "osv", "gitleaks"} -> {1}
    [] e = "zap" -> {1, 2}
    [] OTHER -> {}

(* Mutant: warnings are not known.                                         *)
NormalizeSeverityWithoutWarning(word) ==
  CASE word = "CRITICAL" -> "CRITICAL"
    [] word \in {"HIGH", "ERROR"} -> "HIGH"
    [] word = "MEDIUM" -> "MEDIUM"
    [] word \in {"LOW", "NEGLIGIBLE", "INFO"} -> "LOW"
    [] OTHER -> "UNKNOWN"

NormalizeSeverity(word) ==
  CASE word = "CRITICAL" -> "CRITICAL"
    [] word \in {"HIGH", "ERROR"} -> "HIGH"
    [] word \in {"MEDIUM", "WARNING"} -> "MEDIUM"
    [] word \in {"LOW", "NEGLIGIBLE", "INFO"} -> "LOW"
    [] OTHER -> "UNKNOWN"

SeverityFromCVSS(score) ==
  CASE score >= 90 -> "CRITICAL"
    [] score \in 70..89 -> "HIGH"
    [] score \in 40..69 -> "MEDIUM"
    [] score \in 1..39 -> "LOW"
    [] OTHER -> "UNKNOWN"

(* Mutant: the line of code is left out.                                   *)
FingerprintOfFile(e, rule, at) == <<e, rule>> \o
  CASE Category[e] \in {"SAST", "Secret", "IaC"} -> <<at.file>>
    [] Category[e] = "SCA" -> <<at.pkg, at.version>>
    [] Category[e] = "DAST" -> <<at.url, at.method>>
    [] Category[e] = "VA" -> <<at.host, at.port>>

(* The text the hash is taken of, after the engine and the rule.           *)
Fingerprint(e, rule, at) == <<e, rule>> \o
  CASE Category[e] \in {"SAST", "Secret", "IaC"} -> <<at.file, at.line>>
    [] Category[e] = "SCA" -> <<at.pkg, at.version>>
    [] Category[e] = "DAST" -> <<at.url, at.method>>
    [] Category[e] = "VA" -> <<at.host, at.port>>

Finding(e, rule, at, severity) ==
  [hash |-> Fingerprint(e, rule, at), severity |-> severity]

ParseError == [ok |-> FALSE, findings |-> {}]
Parsed(findings) == [ok |-> TRUE, findings |-> findings]

(* Mutant: what was read before the error is kept.                          *)
DecodeWhatThereIs(out, forms, findings) ==
  [ok |-> out.form \in forms, findings |-> findings]

Decode(out, forms, findings) ==
  IF out.form \in forms THEN Parsed(findings) ELSE ParseError

-----------------------------------------------------------------------------
(* One JSON document, and nothing else                                     *)

ParseSemgrep(out) == Decode(out, {"object"},
  {Finding("semgrep", r.rule, r, NormalizeSeverity(r.word)) : r \in out.items})

ParseTrivy(out) == Decode(out, {"object"},
  {Finding("trivy", v.rule, v, NormalizeSeverity(v.word)) : v \in out.items})

ParseGrype(out) == Decode(out, {"object"},
  {Finding("grype", m.rule, m, NormalizeSeverity(m.word)) : m \in out.items})

iacSeverity(word) == IF word = "" THEN "MEDIUM" ELSE NormalizeSeverity(word)

(* decodeCheckov: one kind of infrastructure is an object, several an array. *)
ParseCheckov(out) == Decode(out, {"object", "array"},
  {Finding("checkov", c.rule, c, iacSeverity(c.word)) : c \in out.items})

(* A group of vulnerabilities gives each of them its highest score; of     *)
(* several groups the last that can be read counts.                        *)
maxSeverityByID(scores) ==
  LET last == SelectLastInSeq(scores, LAMBDA score : score >= 0)
  IN IF last = 0 THEN 0 ELSE scores[last]

preferCVE(v) == IF v.cve = "" THEN v.id ELSE v.cve

ParseOSV(out) == Decode(out, {"object"},
  {Finding("osv", preferCVE(v), v,
           SeverityFromCVSS(maxSeverityByID(v.scores))) : v \in out.items})

riskSeverity(code) ==
  CASE code = "3" -> "HIGH" [] code = "2" -> "MEDIUM" [] code = "1" -> "LOW"
    [] OTHER -> "UNKNOWN"

(* An alert of ZAP is at its first instance, or at its site.               *)
ParseZAP(out) == Decode(out, {"object"},
  {Finding("zap", a.rule,
           [url |-> IF a.url = "" THEN a.site ELSE a.url, method |-> a.method],
           riskSeverity(a.risk)) : a \in out.items})

-----------------------------------------------------------------------------
(* Where no text is no finding                                             *)

DecodeOrNothing(out, forms, findings) ==
  IF out.form = "empty" THEN Parsed({}) ELSE Decode(out, forms, findings)

mapSeverity(critical) == IF critical THEN "CRITICAL" ELSE "HIGH"

ParseGitleaks(out) == DecodeOrNothing(out, {"array"},
  {Finding("gitleaks", g.rule, g, mapSeverity(g.critical)) : g \in out.items})

ParseTruffleHog(out) == DecodeOrNothing(out, {"lines"},
  {Finding("trufflehog", r.rule, r, "CRITICAL") :
     r \in {r \in out.items : r.verified}})

ParseNuclei(out) == DecodeOrNothing(out, {"lines"},
  {Finding("nuclei", r.rule,
           [url |-> IF r.url = "" THEN r.matched ELSE r.url, method |-> r.method],
           NormalizeSeverity(r.word)) :
     r \in {r \in out.items : r.rule # ""}})

(* decodeHosts: versions of nikto differ.                                  *)
ParseNikto(out) == DecodeOrNothing(out, {"object", "array"},
  {Finding("nikto", v.rule, v, "LOW") :
     v \in {v \in out.items : v.rule # ""}})

(* Run puts the target before the output, so an output is never empty, and *)
(* text that holds no parameter is no finding.  A parameter cut short is   *)
(* kept.                                                                   *)
ParseSqlmap(out) == Parsed(
  {Finding("sqlmap", "sqlmap-sqli", p, "HIGH") : p \in out.items})

(* A script of nmap: the CVEs it lists or, without any, what it says.      *)
scriptFindings(p, script) ==
  IF script.cves # {}
  THEN {Finding("nmap", c.id, p, SeverityFromCVSS(c.score)) : c \in script.cves}
  ELSE {Finding("nmap", script.id, p,
                IF says = "vulnerable" THEN "HIGH" ELSE "LOW") :
          says \in {script.says} \ {""}}

(* Only open ports of hosts that have a name or an address.                *)
ParseNmap(out) == DecodeOrNothing(out, {"object"},
  UNION {{Finding("nmap", "nmap-service", p,
                  IF p.versioned THEN "MEDIUM" ELSE "LOW")}
           \cup UNION {scriptFindings(p, script) : script \in p.scripts} :
           p \in {p \in out.items : p.host # "" /\ p.open}})

severityOf(r) ==
  CASE r.score > 0 -> SeverityFromCVSS(r.score)
    [] r.score <= 0 /\ r.threat = "high" -> "HIGH"
    [] r.score <= 0 /\ r.threat = "medium" -> "MEDIUM"
    [] r.score <= 0 /\ r.threat = "low" -> "LOW"
    [] OTHER -> "UNKNOWN"

ParseOpenVAS(out) == DecodeOrNothing(out, {"object"},
  {Finding("openvas", r.rule, r, severityOf(r)) : r \in out.items})

-----------------------------------------------------------------------------
Parse(e, out) ==
  CASE e = "semgrep" -> ParseSemgrep(out)
    [] e = "trivy" -> ParseTrivy(out)
    [] e = "grype" -> ParseGrype(out)
    [] e = "osv" -> ParseOSV(out)
    [] e = "checkov" -> ParseCheckov(out)
    [] e = "gitleaks" -> ParseGitleaks(out)
    [] e = "trufflehog" -> ParseTruffleHog(out)
    [] e = "zap" -> ParseZAP(out)
    [] e = "nuclei" -> ParseNuclei(out)
    [] e = "nikto" -> ParseNikto(out)
    [] e = "sqlmap" -> ParseSqlmap(out)
    [] e = "nmap" -> ParseNmap(out)
    [] e = "openvas" -> ParseOpenVAS(out)
=============================================================================
