---------------------------- MODULE OfflineQueue ----------------------------
(***************************************************************************)
(* The values the edge agent's offline queue holds and what the operations *)
(* of internal/queue/queue.go do to them, once file names are abstracted   *)
(* to the order in which they sort: the queue is the sequence of its file  *)
(* contents, oldest name first.  Module DiskQueue keeps the names.         *)
(*                                                                         *)
(* A file holds one request body.  What the agent and the server can tell  *)
(* apart about a body is the events in it, whether it is the ingestion     *)
(* payload or a bare array of events, and whether its device_id is set.    *)
(***************************************************************************)
EXTENDS Integers, Sequences, FiniteSets, FiniteSetsExt

CONSTANT MaxQueue     \* enforceLimit's byte limit, in units of Weight

ASSUME QueueAssumption == MaxQueue \in Nat

(***************************************************************************)
(* payload: sendBatch's {device_id, timestamp, data: {events}}             *)
(* array:   json.Marshal(batch), what the shutdown branch writes           *)
(* torn:    the prefix left by a WriteFile that failed or was cut short    *)
(***************************************************************************)
BodyKind == {"payload", "array", "torn"}
Body     == [kind : BodyKind, events : SUBSET Nat, device : BOOLEAN]
Torn     == [kind |-> "torn", events |-> {}, device |-> FALSE]

\* A file's size: its envelope and its events.
Weight(b) == 1 + Cardinality(b.events)

Newest(q)   == q[Len(q)]
EventsIn(q) == UNION {q[i].events : i \in DOMAIN q}

\* No event is in two files.
Disjoint(q) ==
  \A i, j \in DOMAIN q : i # j => q[i].events \cap q[j].events = {}

\* What the files from the i-th on weigh together.
WeightFrom(q, i) == MapThenSumSet(LAMBDA j : Weight(q[j]), i .. Len(q))

(***************************************************************************)
(* enforceLimit: while the directory weighs more than the limit, remove    *)
(* the file with the smallest name.  File i is removed exactly when it and *)
(* the files after it are still too heavy.                                 *)
(***************************************************************************)
Excess(q) == Cardinality({i \in 1 .. Len(q) : WeightFrom(q, i) > MaxQueue})
Limit(q)  == SubSeq(q, Excess(q) + 1, Len(q))

\* The queue before, during and after enforceLimit's loop.
Limiting(q) == {SubSeq(q, i + 1, Len(q)) : i \in 0 .. Excess(q)}

\* Changes of Put a bug might make: no limit; no room, no file; at the front.
PutUnlimited(q, b) == Append(q, b)
PutIfRoom(q, b)    == IF Excess(q) > 0 THEN Limit(q) ELSE Append(q, b)
PutFirst(q, b)     == <<b>> \o Limit(q)

\* Enqueue under a name that sorts after every file's.
Put(q, b) == Append(Limit(q), b)

(***************************************************************************)
(* Enqueue when time.Now().UnixNano() reads the same as at the previous    *)
(* Enqueue, as a coarse clock can: WriteFile truncates and replaces the    *)
(* newest file.                                                            *)
(***************************************************************************)
PutOver(q, b) == [Limit(q) EXCEPT ![Len(Limit(q))] = b]
=============================================================================
