--------------------------- MODULE TelemetrySender ---------------------------
(***************************************************************************)
(* The Python agent's telemetry path: the monitor loops of                 *)
(* src/agent/guardian_agent.py queue events, the flush loop sends all of   *)
(* them with TelemetrySender.flush (src/agent/telemetry/sender.py).  The   *)
(* loops are asyncio tasks of one thread, so that only the await inside    *)
(* flush lets others run; the queue lives in memory.  The other end is the *)
(* ingestion endpoint of the backend or of run_local.py.                   *)
(*                                                                         *)
(* Events are numbered in the order in which they are queued.              *)
(***************************************************************************)
EXTENDS Integers, Sequences, FiniteSets

CONSTANTS
  MaxQueue,    \* self._max_queue (100)
  Severe,      \* the events of severity critical, high or medium
  MaxEvents,   \* bound: events in a behaviour
  MaxStarts,   \* bound: starts of the agent
  MaxAdrift    \* bound: unanswered requests on their way at once

ASSUME SenderAssumption ==
  /\ MaxQueue \in Nat \ {0}
  /\ Severe \subseteq Nat
  /\ {MaxEvents, MaxStarts, MaxAdrift} \subseteq Nat

VARIABLES
  server,      \* "production", "development" (the backend) or "local"
  up,          \* the agent runs
  starts,      \* its starts so far
  made,        \* events queued so far
  queue,       \* self._queue
  flight,      \* the events flush is sending, <<>> outside of its await
  reachable,   \* the network and the server answer
  adrift,      \* requests without an answer that the server may yet process
  ingested,    \* events the server has committed
  repeated,    \* events it has committed more than once
  unsure,      \* history: events sent without a 202 that may be committed
  lost         \* history: events trimmed away or gone with the process

agentVars  == <<up, starts, made, queue, flight>>
serverVars == <<ingested, repeated>>
vars == <<server, agentVars, reachable, adrift, serverVars, unsure, lost>>

EventsIn(s) == {s[i] : i \in DOMAIN s}

Held == EventsIn(queue) \cup EventsIn(flight)

TypeOK ==
  /\ server \in {"production", "development", "local"}
  /\ up \in BOOLEAN /\ reachable \in BOOLEAN
  /\ starts \in Nat /\ made \in Nat
  /\ queue \in Seq(1 .. made) /\ flight \in Seq(1 .. made)
  /\ ~up => queue = <<>> /\ flight = <<>>
  /\ adrift \subseteq SUBSET (1 .. made)
  /\ ingested \subseteq 1 .. made /\ repeated \subseteq ingested
  /\ unsure \subseteq 1 .. made /\ lost \subseteq 1 .. made

Init ==
  /\ server \in {"production", "development", "local"}
  /\ up = TRUE /\ starts = 1 /\ made = 0
  /\ queue = <<>> /\ flight = <<>>
  /\ reachable \in BOOLEAN
  /\ adrift = {} /\ ingested = {} /\ repeated = {} /\ unsure = {} /\ lost = {}

-----------------------------------------------------------------------------
(* The server.                                                              *)

\* No encryption key is ever configured, so bodies are plaintext, and
\* device_id is "self", which is no UUID: the backend takes plaintext in
\* development only and fails on severe events.  run_local takes everything.
Commits(events) ==
  \/ server = "local"
  \/ server = "development" /\ events \cap Severe = {}

\* flush takes 202 alone for success; run_local answers 200.
Acknowledges(events) == server # "local" /\ Commits(events)

Ingest(events) ==
  /\ ingested' = ingested \cup events
  /\ repeated' = repeated \cup (ingested \cap events)

\* The request is lost, or the server may still process it.
Abandon ==
  \/ UNCHANGED <<adrift, unsure>>
  \/ /\ flight # <<>> /\ Commits(EventsIn(flight))
     /\ Cardinality(adrift) < MaxAdrift
     /\ adrift' = adrift \cup {EventsIn(flight)}
     /\ unsure' = unsure \cup EventsIn(flight)

LateIngest(events) ==
  /\ events \in adrift
  /\ adrift' = adrift \ {events}
  /\ Ingest(events)
  /\ UNCHANGED <<server, agentVars, reachable, unsure, lost>>

RequestVanishes(events) ==
  /\ events \in adrift
  /\ adrift' = adrift \ {events}
  /\ UNCHANGED <<server, agentVars, reachable, serverVars, unsure, lost>>

Network ==
  /\ reachable' = ~reachable
  /\ UNCHANGED <<server, agentVars, adrift, serverVars, unsure, lost>>

-----------------------------------------------------------------------------
(* The agent.                                                               *)

\* s[-n:], for n > 0
LastOf(s, n) == SubSeq(s, IF Len(s) > n THEN Len(s) - n + 1 ELSE 1, Len(s))

\* What queue_event keeps of the queue.
Trim(s) == IF Len(s) >= MaxQueue THEN LastOf(s, MaxQueue) ELSE s

\* A monitor loop has found something: queue_event.
QueueEvent ==
  /\ up /\ made < MaxEvents
  /\ made' = made + 1
  /\ queue' = Trim(Append(queue, made'))
  /\ lost' = lost \cup (EventsIn(queue) \ EventsIn(queue'))
  /\ UNCHANGED <<server, up, starts, flight, reachable, adrift, serverVars, unsure>>

\* A change of Due: flush waits for a full queue.
DueWhenFull == Len(queue) >= MaxQueue

Due == queue # <<>>

\* flush takes everything that is queued and posts it.
Flush ==
  /\ up /\ flight = <<>> /\ Due
  /\ flight' = queue /\ queue' = <<>>
  /\ UNCHANGED <<server, up, starts, made, reachable, adrift, serverVars, unsure, lost>>

\* Changes of Requeue: the events are put back as a copy, or not at all.
RequeueCopy == queue' = queue \o flight \o flight /\ flight' = <<>>
RequeueNone == flight' = <<>> /\ UNCHANGED queue

\* self._queue.extend(events)
Requeue == queue' = queue \o flight /\ flight' = <<>>

\* A change of Delivered: a 202 is taken for a failure.
DeliveredAgain == Requeue

Delivered == flight' = <<>> /\ UNCHANGED queue

PostOk ==
  /\ flight # <<>> /\ reachable /\ Acknowledges(EventsIn(flight))
  /\ Ingest(EventsIn(flight))
  /\ Delivered
  /\ UNCHANGED <<server, up, starts, made, reachable, adrift, unsure, lost>>

\* Any other status, committed or not.
PostOther ==
  /\ flight # <<>> /\ reachable /\ ~Acknowledges(EventsIn(flight))
  /\ IF Commits(EventsIn(flight))
     THEN Ingest(EventsIn(flight)) /\ unsure' = unsure \cup EventsIn(flight)
     ELSE UNCHANGED <<serverVars, unsure>>
  /\ Requeue
  /\ UNCHANGED <<server, up, starts, made, reachable, adrift, lost>>

\* httpx raises: no connection, or no answer within 30 s.
PostRaises ==
  /\ flight # <<>> /\ ~reachable
  /\ Abandon
  /\ Requeue
  /\ UNCHANGED <<server, up, starts, made, reachable, serverVars, lost>>

\* A change of Gone: the flush in progress survives.
GoneLate == up' = FALSE /\ queue' = <<>> /\ UNCHANGED flight

Gone == up' = FALSE /\ queue' = <<>> /\ flight' = <<>>

\* stop() cancels the tasks; CancelledError passes flush's except clause, and
\* nothing flushes the queue.  A kill has the same effect.
Stop ==
  /\ up
  /\ Abandon
  /\ Gone
  /\ lost' = lost \cup Held
  /\ UNCHANGED <<server, starts, made, reachable, serverVars>>

Start ==
  /\ ~up /\ starts < MaxStarts
  /\ up' = TRUE /\ starts' = starts + 1
  /\ UNCHANGED <<server, made, queue, flight, reachable, adrift, serverVars,
                 unsure, lost>>

Next ==
  \/ QueueEvent \/ Flush \/ PostOk \/ PostOther \/ PostRaises
  \/ Stop \/ Start \/ Network
  \/ \E events \in adrift : LateIngest(events) \/ RequestVanishes(events)

Spec == Init /\ [][Next]_vars

\* The flush loop runs every 30 s, and a post ends within its timeout.
FairSpec == Spec /\ WF_vars(Flush) /\ WF_vars(PostOk \/ PostOther \/ PostRaises)

-----------------------------------------------------------------------------
(* Properties.                                                              *)

\* However the re-queueing of a failed flush meets the events queued during
\* its await (sender.py:43-44, 75, 78), the agent holds an event once.
HeldOnce ==
  LET s == queue \o flight
  IN  \A i, j \in DOMAIN s : i # j => s[i] # s[j]

\* The server commits an event twice only after an exchange that did not end
\* in a 202 although the server may have committed it.
DuplicateNeedsLostReply ==
  /\ repeated \subseteq unsure
  /\ Held \cap ingested \subseteq unsure

\* The Python agent keeps the same promise as the edge agent: an event is
\* held, has arrived, or was given up by the trim or with the process.
Promise == INSTANCE Delivery WITH
  known <- made, held <- Held, arrived <- ingested, dropped <- lost

KeepsPromise == Promise!Spec

\* sender.py:35: when the queue is full, the oldest events are dropped.
OldestDropped ==
  [][made' # made => \A e \in lost' \ lost, f \in EventsIn(queue') : e < f]_vars

\* While the agent runs and a development backend answers, an event waits for
\* ever only behind a severe one: nothing else keeps flush from emptying the
\* queue.
NoStarvation ==
  server = "development" /\ <>[](up /\ reachable) =>
    \A e \in 1 .. MaxEvents :
      (e <= made) ~> (e \in ingested \cup lost \/ Held \cap Severe # {})
=============================================================================
