----------------------------- MODULE MCWorkers -----------------------------
(* Bounds for Workers: two processes; every token's life and a restart fit   *)
(* in the clock's range, as do uploads that overlap and two windows of the   *)
(* rate limiter; a message of the stream holds nothing of note, or events     *)
(* that are handled one way each, or an anomaly and an event that raises.    *)
EXTENDS Workers, TLC

Metrics(cpu, ram, connections) ==
  [type |-> "system_metrics", severity |-> "info",
   details |-> [cpu |-> cpu, ram |-> ram, connections |-> connections, processes |-> 500]]

Event(type, severity, details) == [type |-> type, severity |-> severity, details |-> details]
Nothing == [name |-> {}, cmdline |-> {}]

MCPayloads ==
  {<<>>,
   <<Metrics(96, 0, 200),
     Event("process_alert", "info", [name |-> {"gdb"}, cmdline |-> {}]),
     Event("file_change", "high", Nothing)>>,
   <<Metrics(96, 0, 500), Event("malformed", "info", Nothing)>>}

Renamed == (AlertColumns \ {"category", "evidence"}) \cup {"alert_type", "details"}
MCColumnSets == {AlertColumns, Renamed}
Symmetry == Permutations(Sockets) \cup Permutations(Nodes)
SourceColumns == {AlertColumns}
=============================================================================
