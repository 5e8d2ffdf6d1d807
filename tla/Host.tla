-------------------------------- MODULE Host --------------------------------
(***************************************************************************)
(* What the agents keep about their host: the Python agent of files and    *)
(* media, processes, firewall rules; the edge agent of files and           *)
(* processes.  Each part has its own state, none reads another's; a        *)
(* behaviour moves one of them.                                            *)
(***************************************************************************)
EXTENDS Monitors, Processes, Firewall, EdgeMonitors

VARIABLE part

vars == <<part, monitorVars, processVars, firewallVars, edgeVars>>

Init ==
  /\ part \in {"files", "media", "processes", "firewall", "engine", "visits", "watches"}
  /\ MonitorsInit /\ ProcessesInit /\ FirewallInit /\ EdgeInit
  /\ part \notin {"files", "watches"} => files = Empty
  /\ part # "firewall" => os = "other"

Next ==
  /\ UNCHANGED part
  /\ \/ part = "files" /\ FilesNext /\ UNCHANGED <<processVars, firewallVars, edgeVars>>
     \/ part = "media" /\ MediaNext /\ UNCHANGED <<processVars, firewallVars, edgeVars>>
     \/ part = "processes" /\ ProcessesNext /\ UNCHANGED <<monitorVars, firewallVars, edgeVars>>
     \/ part = "firewall" /\ FirewallNext /\ UNCHANGED <<monitorVars, processVars, edgeVars>>
     \/ part = "engine" /\ EngineNext /\ UNCHANGED <<monitorVars, firewallVars>>
     \/ part = "visits" /\ VisitNext /\ UNCHANGED <<monitorVars, firewallVars>>
     \/ part = "watches" /\ WatchNext /\ UNCHANGED <<processVars, firewallVars>>

Spec == Init /\ [][Next]_vars

\* The states of the parts have their types.
TypeOK == MonitorsTypeOK /\ ProcessesTypeOK /\ FirewallTypeOK /\ EdgeTypeOK

\* What either agent last looked at, of files and media, is what it last said
\* of them, up to the causes that the three parts name.
HostReported == ChangesReported /\ MediaReported /\ WatchesReport

\* A process that an agent has come across was examined, counted or reported
\* once, unless another had its PID; and quarantine is as the list says.
ProcessesAccounted == NewAreExamined /\ SuspendedAreListed /\ NewAreCounted /\ MatchesReported
=============================================================================
