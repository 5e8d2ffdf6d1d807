----------------------------- MODULE Detection -----------------------------
(***************************************************************************)
(* What the backend's detection engine and the alert pipeline make of one  *)
(* batch of telemetry (services/detection_service.py, and the decisions of *)
(* process_telemetry_batch in services/alert_pipeline.py).  A process is   *)
(* the sets of known patterns found in its name and its command line, the  *)
(* regular expressions being named and not modelled.                       *)
(***************************************************************************)
EXTENDS Integers, Sequences, SequencesExt, FiniteSetsExt

Rule(id, severity, names, cmdlines) ==
  [id |-> id, severity |-> severity, names |-> names, cmdlines |-> cmdlines]

SigmaRules ==
  <<Rule("SIGMA-001", "critical", {"mimikatz", "sekurlsa", "kiwi"},
         {"sekurlsa::logonpasswords", "lsadump::", "privilege::debug"}),
    Rule("SIGMA-002", "critical", {},
         {"/dev/tcp", "bash -i", "nc -e", "python socket", "php fsockopen", "ruby TCPSocket"}),
    Rule("SIGMA-003", "high", {"hydra", "john", "hashcat", "medusa", "ncrack", "patator"}, {}),
    Rule("SIGMA-004", "high", {},
         {"crontab -e", "schtasks /create", "reg add Run", "launchctl load", "systemctl enable"}),
    Rule("SIGMA-005", "high", {},
         {"powershell -enc", "powershell FromBase64", "powershell hidden"}),
    Rule("SIGMA-006", "medium", {}, {}),    \* network indicators: never looked at
    Rule("SIGMA-007", "medium",
         {"gdb", "lldb", "strace", "ltrace", "x64dbg", "ollydbg", "windbg", "ida", "ida64"}, {}),
    Rule("SIGMA-008", "high", {"psexec", "wmiexec", "smbexec", "evil-winrm", "crackmapexec"}, {})>>

\* The severities of the rules that match, in the order of the rules.
MatchProcess(process) ==
  LET Matched(rule) == \/ rule.names \cap process.name # {}
                       \/ rule.cmdlines \cap process.cmdline # {}
  IN  FlattenSeq([i \in 1 .. Len(SigmaRules) |->
        IF Matched(SigmaRules[i]) THEN <<SigmaRules[i].severity>> ELSE <<>>])

AnomalyScore(m) ==
  (IF m.cpu > 95 THEN 30 ELSE IF m.cpu > 80 THEN 15 ELSE 0)
  + (IF m.ram > 95 THEN 25 ELSE 0)
  + (IF m.connections > 500 THEN 30 ELSE IF m.connections > 200 THEN 15 ELSE 0)
  + (IF m.processes > 500 THEN 10 ELSE 0)

RiskLevel(score) ==
  IF score >= 60 THEN "critical" ELSE IF score >= 40 THEN "high"
  ELSE IF score >= 20 THEN "medium" ELSE "low"

Anomalous(score) == score > 30

\* Events of a batch, with what the pipeline looks at in their details.
Details == [name : SUBSET STRING, cmdline : SUBSET STRING]
           \cup [cpu : Nat, ram : Nat, connections : Nat, processes : Nat]
Events  == [type : STRING, severity : STRING, details : Details]

\* What the pipeline does with an event: the alerts it tries to create, by
\* severity; "raise" stands for an exception, where the event or its details
\* are no dictionary.
AlertsOf(event) ==
  LET matches == IF event.type \in {"process_alert", "detection"}
                 THEN MatchProcess(event.details) ELSE <<>>
  IN  IF event.type = "malformed" THEN <<"raise">>
      ELSE IF event.type = "system_metrics" /\ event.severity = "info"
      THEN LET score == AnomalyScore(event.details)
           IN  IF Anomalous(score) THEN <<RiskLevel(score)>> ELSE <<>>
      ELSE IF matches # <<>> THEN matches
      ELSE IF event.severity \in {"critical", "high", "medium"} THEN <<event.severity>>
      ELSE <<>>

ProcessTelemetryBatch(events) == FlattenSeq([i \in DOMAIN events |-> AlertsOf(events[i])])
=============================================================================
