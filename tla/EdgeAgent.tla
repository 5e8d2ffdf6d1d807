----------------------------- MODULE EdgeAgent -----------------------------
(***************************************************************************)
(* The Go edge agent (src/edge-agent/cmd/agent/main.go): the collectors,   *)
(* the bounded channel they share, the sender that batches, posts, queues  *)
(* and drains, the shutdown sequence, crashes and restarts, and the        *)
(* ingestion endpoint at the other end of the network.                     *)
(*                                                                         *)
(* Events are numbered in the order in which they enter the channel.  The  *)
(* channel is FIFO and a batch takes events from its head, so the channel  *)
(* and the batch always hold consecutive numbers and three counters say    *)
(* which (see eventCh and batch below).                                    *)
(***************************************************************************)
EXTENDS OfflineQueue

CONSTANTS
  Collectors,   \* the goroutines that write to eventCh
  Cap,          \* capacity of eventCh (500)
  BatchSize,    \* cfg.BatchSize (50)
  Burst,        \* most events one tick of a collector emits
  Severe,       \* the events of severity critical, high or medium
  Development,  \* the server's settings.is_development
  CoarseClock,  \* can two Enqueues read the same UnixNano?
  DiskFaults,   \* can WriteFile and ReadFile fail?
  MaxEvents,    \* bound: events created in a behaviour
  MaxStarts,    \* bound: starts of the agent process
  MaxAdrift     \* bound: unanswered requests on their way at once

ASSUME AgentAssumption ==
  /\ Cap \in Nat \ {0}
  /\ BatchSize \in Nat \ {0}
  /\ Burst \in Nat \ {0}
  /\ Severe \subseteq Nat
  /\ {Development, CoarseClock, DiskFaults} \subseteq BOOLEAN
  /\ {MaxEvents, MaxStarts, MaxAdrift} \subseteq Nat

VARIABLES
  proc,         \* "up" while the agent process runs, "down" otherwise
  cancelled,    \* ctx has been cancelled
  starts,       \* starts so far
  registered,   \* cfg.DeviceID is a UUID the server knows
  made,         \* events created so far, those waiting to enter eventCh too
  todo,         \* events each collector still has to write in this tick
  gone,         \* collectors whose goroutine has returned
  produced,     \* events 1 .. produced have entered eventCh
  taken,        \* events 1 .. taken have left it
  flushed,      \* events 1 .. flushed have left the batch
  pc,           \* where runSender's goroutine is
  caller,       \* the code whose Post or Enqueue is under way
  body,         \* the body it posts or enqueues
  live,         \* ctx was not cancelled when the Post began
  disk,         \* the offline queue
  reachable,    \* the network and the server answer
  adrift,       \* requests the client gave up on, the server may yet process
  ingested,     \* events the server has committed
  repeated,     \* events it has committed more than once
  unsure,       \* history: events of requests that have ever been adrift
  lost          \* history: events the agent let go of without an answer

processVars   == <<proc, cancelled, starts, registered>>
collectorVars == <<made, todo, gone>>
countVars     == <<produced, taken, flushed>>
senderVars    == <<pc, caller, body, live>>
serverVars    == <<ingested, repeated>>
vars == <<processVars, collectorVars, countVars, senderVars, disk,
          reachable, adrift, serverVars, unsure, lost>>

eventCh == taken + 1 .. produced
batch   == flushed + 1 .. taken

NoBody == [kind |-> "none", events |-> {}, device |-> FALSE]

\* No Post and no Enqueue under way.
Idle    == caller = "batch" /\ body = NoBody /\ live = TRUE

\* A change of EndCall: the sender goes on with the old body in hand.
EndCallStale == caller' = "batch" /\ UNCHANGED <<body, live>>

EndCall == caller' = "batch" /\ body' = NoBody /\ live' = TRUE

\* What the agent holds outside its disk, and everything it holds.
InMemory == eventCh \cup batch \cup body.events
Held     == InMemory \cup EventsIn(disk)

TypeOK ==
  /\ proc \in {"up", "down"}
  /\ cancelled \in BOOLEAN /\ registered \in BOOLEAN /\ reachable \in BOOLEAN
  /\ starts \in Nat /\ made \in Nat
  /\ todo \in [Collectors -> Nat]
  /\ gone \in [Collectors -> BOOLEAN]
  /\ produced \in Nat /\ taken \in 0 .. produced /\ flushed \in 0 .. taken
  /\ pc \in {"select", "post", "save", "drain", "done"}
  /\ caller \in {"batch", "tick", "drain", "stop"}
  /\ IF pc \in {"post", "save"} THEN body \in Body ELSE Idle
  /\ proc = "down" => pc = "done"
  /\ live \in BOOLEAN
  /\ disk \in Seq(Body)
  /\ adrift \subseteq Body
  /\ ingested \subseteq Nat /\ repeated \subseteq Nat
  /\ unsure \subseteq Nat /\ lost \subseteq Nat

Init ==
  /\ proc = "up" /\ cancelled = FALSE /\ starts = 1 /\ registered \in BOOLEAN
  /\ made = 0
  /\ todo = [c \in Collectors |-> 0]
  /\ gone = [c \in Collectors |-> FALSE]
  /\ produced = 0 /\ taken = 0 /\ flushed = 0
  /\ pc = "select" /\ Idle
  /\ disk = <<>>
  /\ reachable \in BOOLEAN
  /\ adrift = {} /\ ingested = {} /\ repeated = {} /\ unsure = {} /\ lost = {}

-----------------------------------------------------------------------------
(***************************************************************************)
(* The network and the ingestion endpoint: transport.Post on one side,     *)
(* ingest_telemetry in backend/app/api/v1/telemetry.py on the other, whose *)
(* transaction commits before the reply is sent.                           *)
(***************************************************************************)

\* Plaintext is accepted in development only; a bare array fails validation
\* and so does a torn file; UUID(device_id) is evaluated for severe events only.
Accepts(b) ==
  /\ b.kind = "payload"
  /\ Development
  /\ b.device \/ b.events \cap Severe = {}

Ingest(events) ==
  /\ ingested' = ingested \cup events
  /\ repeated' = repeated \cup (ingested \cap events)

\* A request without an answer: it never reached the server, or it may still
\* be processed there.
Abandon ==
  \/ UNCHANGED <<adrift, unsure>>
  \/ /\ live /\ Accepts(body)
     /\ Cardinality(adrift) < MaxAdrift
     /\ adrift' = adrift \cup {body}
     /\ unsure' = unsure \cup body.events

\* The server processes a request nobody waits for any more.
LateIngest(b) ==
  /\ b \in adrift
  /\ adrift' = adrift \ {b}
  /\ Ingest(b.events)
  /\ UNCHANGED <<processVars, collectorVars, countVars, senderVars, disk,
                 reachable, unsure, lost>>

RequestVanishes(b) ==
  /\ b \in adrift
  /\ adrift' = adrift \ {b}
  /\ UNCHANGED <<processVars, collectorVars, countVars, senderVars, disk,
                 reachable, serverVars, unsure, lost>>

Network ==
  /\ reachable' = ~reachable
  /\ UNCHANGED <<processVars, collectorVars, countVars, senderVars, disk,
                 adrift, serverVars, unsure, lost>>

-----------------------------------------------------------------------------
(***************************************************************************)
(* main: start-up, the shutdown signal, wg.Wait and the process's death.   *)
(***************************************************************************)

\* The agent starts again: the queue directory is all it finds, and
\* registerDevice may or may not obtain an id.
Start ==
  /\ proc = "down" /\ starts < MaxStarts
  /\ proc' = "up" /\ starts' = starts + 1
  /\ registered' \in BOOLEAN
  /\ pc' = "select"
  /\ UNCHANGED <<cancelled, collectorVars, countVars, caller, body, live, disk,
                 reachable, adrift, serverVars, unsure, lost>>

\* SIGINT or SIGTERM: cancel().
Signal ==
  /\ proc = "up" /\ ~cancelled
  /\ cancelled' = TRUE
  /\ UNCHANGED <<proc, starts, registered, collectorVars, countVars,
                 senderVars, disk, reachable, adrift, serverVars, unsure, lost>>

\* Can Enqueue meet a file that has the name it is about to use?
SameName == CoarseClock /\ Limit(disk) # <<>>

\* Nothing in memory outlives the process.
Die ==
  /\ proc' = "down" /\ cancelled' = FALSE /\ registered' = FALSE
  /\ todo' = [c \in Collectors |-> 0]
  /\ gone' = [c \in Collectors |-> FALSE]
  /\ taken' = produced /\ flushed' = produced
  /\ pc' = "done" /\ EndCall
  /\ lost' = lost \cup InMemory \cup (EventsIn(disk) \ EventsIn(disk'))
  /\ UNCHANGED <<starts, made, produced, reachable, serverVars>>

\* wg.Wait returns once every goroutine has; what is left in eventCh goes
\* with the process.
Exit ==
  /\ proc = "up" /\ cancelled
  /\ \A c \in Collectors : gone[c]
  /\ pc = "done"
  /\ UNCHANGED <<disk, adrift, unsure>>
  /\ Die

\* The process is killed.  A request under way may still be processed by the
\* server; an Enqueue under way stops at any of its steps.
Crash ==
  /\ proc = "up"
  /\ IF pc = "save"
     THEN \/ disk' \in Limiting(disk) \cup {Put(disk, Torn)}
          \/ SameName /\ disk' = PutOver(disk, Torn)
     ELSE UNCHANGED disk
  /\ IF pc = "post" THEN Abandon ELSE UNCHANGED <<adrift, unsure>>
  /\ Die

-----------------------------------------------------------------------------
(***************************************************************************)
(* RunTelemetry, RunProcessMonitor, RunFileIntegrity, RunNetworkMonitor    *)
(* and RunDetectionEngine: a select between ctx.Done and the ticker, then  *)
(* plain channel sends that never look at ctx.                             *)
(***************************************************************************)

CollectorTick(c) ==
  /\ proc = "up" /\ ~gone[c] /\ todo[c] = 0
  /\ \E k \in 1 .. Burst :
       /\ made + k <= MaxEvents
       /\ made' = made + k
       /\ todo' = [todo EXCEPT ![c] = k]
  /\ UNCHANGED <<processVars, gone, countVars, senderVars, disk, reachable,
                 adrift, serverVars, unsure, lost>>

CollectorSend(c) ==
  /\ proc = "up" /\ todo[c] > 0
  /\ produced - taken < Cap
  /\ produced' = produced + 1
  /\ todo' = [todo EXCEPT ![c] = @ - 1]
  /\ UNCHANGED <<processVars, made, gone, taken, flushed, senderVars, disk,
                 reachable, adrift, serverVars, unsure, lost>>

\* A change of CollectorStop: a collector waits for the channel to empty.
CollectorLinger(c) ==
  /\ proc = "up" /\ cancelled /\ ~gone[c] /\ todo[c] = 0 /\ eventCh = {}
  /\ gone' = [gone EXCEPT ![c] = TRUE]
  /\ UNCHANGED <<processVars, made, todo, countVars, senderVars, disk,
                 reachable, adrift, serverVars, unsure, lost>>

CollectorStop(c) ==
  /\ proc = "up" /\ cancelled /\ ~gone[c] /\ todo[c] = 0
  /\ gone' = [gone EXCEPT ![c] = TRUE]
  /\ UNCHANGED <<processVars, made, todo, countVars, senderVars, disk,
                 reachable, adrift, serverVars, unsure, lost>>

-----------------------------------------------------------------------------
(***************************************************************************)
(* runSender's select.  When several cases are ready Go picks any of them. *)
(***************************************************************************)

Payload(events)  == [kind |-> "payload", events |-> events, device |-> registered]
RawArray(events) == [kind |-> "array", events |-> events, device |-> FALSE]

BeginPost(b, who) ==
  /\ pc' = "post" /\ caller' = who /\ body' = b /\ live' = ~cancelled

\* case evt := <-eventCh, the batch not yet full
TakeEvent ==
  /\ proc = "up" /\ pc = "select" /\ taken < produced
  /\ taken + 1 - flushed < BatchSize
  /\ taken' = taken + 1
  /\ UNCHANGED <<processVars, collectorVars, produced, flushed, senderVars, disk,
                 reachable, adrift, serverVars, unsure, lost>>

\* case evt := <-eventCh, the batch now full: sendBatch
TakeEventAndSend ==
  /\ proc = "up" /\ pc = "select" /\ taken < produced
  /\ taken + 1 - flushed >= BatchSize
  /\ taken' = taken + 1 /\ flushed' = taken + 1
  /\ BeginPost(Payload(flushed + 1 .. taken + 1), "batch")
  /\ UNCHANGED <<processVars, collectorVars, produced, disk,
                 reachable, adrift, serverVars, unsure, lost>>

\* A change of Tick: the batch is not reset before it is sent.
TickAgain ==
  /\ proc = "up" /\ pc = "select"
  /\ IF flushed < taken
     THEN BeginPost(Payload(batch), "tick")
     ELSE pc' = "drain" /\ UNCHANGED <<caller, body, live>>
  /\ UNCHANGED <<processVars, collectorVars, countVars, disk,
                 reachable, adrift, serverVars, unsure, lost>>

\* case <-ticker.C: sendBatch if there is a batch, then drainQueue
Tick ==
  /\ proc = "up" /\ pc = "select"
  /\ IF flushed < taken
     THEN BeginPost(Payload(batch), "tick")
     ELSE pc' = "drain" /\ UNCHANGED <<caller, body, live>>
  /\ flushed' = taken
  /\ UNCHANGED <<processVars, collectorVars, produced, taken, disk,
                 reachable, adrift, serverVars, unsure, lost>>

\* A change of SenderStop: break in place of return leaves the select only.
SenderStopBreaks ==
  /\ proc = "up" /\ pc = "select" /\ cancelled
  /\ IF flushed < taken
     THEN pc' = "save" /\ caller' = "stop" /\ body' = RawArray(batch)
     ELSE UNCHANGED <<pc, caller, body>>
  /\ flushed' = taken
  /\ UNCHANGED <<processVars, collectorVars, produced, taken, live, disk,
                 reachable, adrift, serverVars, unsure, lost>>

\* case <-ctx.Done(): the batch goes to the disk queue as a bare array
SenderStop ==
  /\ proc = "up" /\ pc = "select" /\ cancelled
  /\ IF flushed < taken
     THEN pc' = "save" /\ caller' = "stop" /\ body' = RawArray(batch)
     ELSE pc' = "done" /\ UNCHANGED <<caller, body>>
  /\ flushed' = taken
  /\ UNCHANGED <<processVars, collectorVars, produced, taken, live, disk,
                 reachable, adrift, serverVars, unsure, lost>>

\* A change of DrainTake: the file stays until it has been sent.
DrainPeek ==
  /\ proc = "up" /\ pc = "drain" /\ disk # <<>>
  /\ BeginPost(Head(disk), "drain")
  /\ UNCHANGED <<processVars, collectorVars, countVars, disk,
                 reachable, adrift, serverVars, unsure, lost>>

\* drainQueue: Dequeue reads and removes the oldest file before it is sent.
DrainTake ==
  /\ proc = "up" /\ pc = "drain" /\ disk # <<>>
  /\ BeginPost(Head(disk), "drain")
  /\ disk' = Tail(disk)
  /\ UNCHANGED <<processVars, collectorVars, countVars,
                 reachable, adrift, serverVars, unsure, lost>>

\* Nothing is queued, or the oldest file cannot be read.
DrainEnd ==
  /\ proc = "up" /\ pc = "drain"
  /\ disk = <<>> \/ DiskFaults
  /\ pc' = "select"
  /\ UNCHANGED <<processVars, collectorVars, countVars, caller, body, live, disk,
                 reachable, adrift, serverVars, unsure, lost>>

-----------------------------------------------------------------------------
(***************************************************************************)
(* sendBatch and drainQueue: the result of Post, and Enqueue after an      *)
(* error.                                                                  *)
(***************************************************************************)

PostOk ==
  /\ proc = "up" /\ pc = "post" /\ live /\ reachable /\ Accepts(body)
  /\ Ingest(body.events)
  /\ pc' = IF caller = "batch" THEN "select" ELSE "drain"
  /\ EndCall
  /\ UNCHANGED <<processVars, collectorVars, countVars, disk,
                 reachable, adrift, unsure, lost>>

\* Status 400 or above; nothing was committed.
PostRejected ==
  /\ proc = "up" /\ pc = "post" /\ live /\ reachable /\ ~Accepts(body)
  /\ pc' = "save"
  /\ UNCHANGED <<processVars, collectorVars, countVars, caller, body, live, disk,
                 reachable, adrift, serverVars, unsure, lost>>

\* Unreachable, timed out, or ctx cancelled (before or during the request).
PostUnanswered ==
  /\ proc = "up" /\ pc = "post"
  /\ ~live \/ ~reachable \/ cancelled
  /\ Abandon
  /\ pc' = "save"
  /\ UNCHANGED <<processVars, collectorVars, countVars, caller, body, live, disk,
                 reachable, serverVars, lost>>

Post == PostOk \/ PostRejected \/ PostUnanswered

\* Where the goroutine goes on after Enqueue, whatever Enqueue returned.
AfterSave ==
  /\ pc' = CASE caller = "tick" -> "drain"
             [] caller = "stop" -> "done"
             [] OTHER           -> "select"
  /\ EndCall
  /\ UNCHANGED <<processVars, collectorVars, countVars,
                 reachable, adrift, serverVars, unsure>>

\* The events in the files enforceLimit removes.
Dropped == EventsIn(disk) \ EventsIn(Limit(disk))

Save ==
  /\ proc = "up" /\ pc = "save"
  /\ disk' = Put(disk, body)
  /\ lost' = lost \cup Dropped
  /\ AfterSave

\* The new file, whole or torn, takes the place of the newest one.
SaveOver(b) ==
  /\ proc = "up" /\ pc = "save"
  /\ SameName
  /\ b = body \/ DiskFaults
  /\ disk' = PutOver(disk, b)
  /\ lost' = lost \cup Dropped \cup Newest(Limit(disk)).events
                  \cup (body.events \ b.events)
  /\ AfterSave

\* WriteFile fails and its error is ignored.
SaveFails ==
  /\ proc = "up" /\ pc = "save"
  /\ DiskFaults
  /\ disk' \in {Limit(disk), Put(disk, Torn)}
  /\ lost' = lost \cup Dropped \cup body.events
  /\ AfterSave

Enqueue == Save \/ SaveFails \/ \E b \in {body, Torn} : SaveOver(b)

-----------------------------------------------------------------------------

Next ==
  \/ Start \/ Signal \/ Exit \/ Crash
  \/ \E c \in Collectors : CollectorTick(c) \/ CollectorSend(c) \/ CollectorStop(c)
  \/ TakeEvent \/ TakeEventAndSend \/ Tick \/ SenderStop
  \/ DrainTake \/ DrainEnd
  \/ Post \/ Enqueue
  \/ Network
  \/ \E b \in adrift : LateIngest(b) \/ RequestVanishes(b)

Spec == Init /\ [][Next]_vars

(***************************************************************************)
(* Goroutines that can run do run, the ticker keeps ticking, every Post    *)
(* ends (the client has a timeout), and Go's select, which picks at random *)
(* among the ready cases, does not pass over a case for ever.  Nothing is  *)
(* promised about signals, crashes, restarts, new events or the network.   *)
(***************************************************************************)
Fairness ==
  /\ \A c \in Collectors : WF_vars(CollectorSend(c)) /\ SF_vars(CollectorStop(c))
  /\ SF_vars(TakeEvent \/ TakeEventAndSend)
  /\ SF_vars(Tick)
  /\ SF_vars(SenderStop)
  /\ WF_vars(DrainTake \/ DrainEnd)
  /\ WF_vars(Post)
  /\ WF_vars(Enqueue)
  /\ WF_vars(Exit)

FairSpec == Spec /\ Fairness

-----------------------------------------------------------------------------
(* Safety.                                                                  *)

\* Every event that entered eventCh (main.go:82) is still held somewhere, has
\* been committed by the server, or is accounted for by a crash, the size
\* limit, an overwritten or failed write, or the exit: neither the batch
\* reset after sendBatch (main.go:186, 192) nor Dequeue's removal before the
\* send (queue.go:56) drops an event unseen.
NoSilentLoss == 1 .. produced \subseteq Held \cup ingested \cup lost

\* An event is at one place at a time: what the sender has in hand is in no
\* file, no two files share an event, and none of it is still in eventCh or
\* in the batch, so that a drain and a batch never send the same event.
HeldOnce ==
  /\ body.events \cap EventsIn(disk) = {}
  /\ Disjoint(disk)
  /\ body.events \cup EventsIn(disk) \subseteq 1 .. flushed

\* The server commits an event twice only after a request that carried it
\* went unanswered: a rejected or an acknowledged request, a requeued batch
\* or a restart never makes a duplicate by itself.
DuplicateNeedsLostReply == repeated \subseteq unsure

\* What the agent will send although the server already has it went out in a
\* request that was never answered, and the server has nothing that has not
\* left the batch.
ResendsOnlyUnsure ==
  /\ (body.events \cup EventsIn(disk)) \cap ingested \subseteq unsure
  /\ \A b \in adrift : b.events \subseteq unsure
  /\ ingested \cup unsure \subseteq 1 .. flushed

\* The inductive invariant behind the four above.
Accounted ==
  /\ NoSilentLoss
  /\ HeldOnce
  /\ DuplicateNeedsLostReply
  /\ ResendsOnlyUnsure

\* enforceLimit runs before the new file is written (queue.go:32-37), so the
\* directory may exceed MaxQueueSizeMB, but never by more than one body.
QueueBound == WeightFrom(disk, 1) <= MaxQueue + 1 + BatchSize

\* The agent implements the promise of module Delivery.
Promise == INSTANCE Delivery WITH
  known <- produced, held <- Held, arrived <- ingested, dropped <- lost

KeepsPromise == Promise!Spec

-----------------------------------------------------------------------------
(* Liveness, under FairSpec.                                                *)

Running  == proc = "up" /\ ~cancelled
Rejected(e) ==
  \/ e \in body.events /\ ~Accepts(body)
  \/ \E i \in DOMAIN disk : e \in disk[i].events /\ ~Accepts(disk[i])

\* Once ctx is cancelled the sender's goroutine returns (main.go:173-180):
\* neither a full channel nor a queue that keeps failing to drain keeps it.
SenderReturns == cancelled ~> pc = "done"

\* As long as eventCh never fills, wg.Wait returns after the signal.
StopsWhileRoom == [](produced - taken < Cap) => (cancelled ~> proc = "down")

\* While the agent runs and the server answers, every event leaves the agent,
\* unless it is in a body the server rejects: a file that can never be
\* delivered goes back to the end of the queue and does not block the files
\* behind it (main.go:217-230).
NoStarvation ==
  <>[](Running /\ reachable) =>
    \A e \in 1 .. MaxEvents :
      (e <= produced) ~> (e \in ingested \cup lost \/ Rejected(e))

\* main.go:141: after the signal the agent stops ("stopped gracefully").
StopsGracefully == cancelled ~> proc = "down"

\* main.go:62 and 174: what the shutdown branch flushes to the disk queue
\* survives the restart and is sent once the server answers.
FlushedEventsArrive ==
  <>[](Running /\ reachable) =>
    \A e \in 1 .. MaxEvents :
      (\E i \in DOMAIN disk : disk[i].kind = "array" /\ e \in disk[i].events)
        ~> (e \in ingested \cup lost)
=============================================================================
