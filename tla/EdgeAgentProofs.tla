---------------------------- MODULE EdgeAgentProofs ----------------------------
(***************************************************************************)
(* EdgeAgent's type invariant, and the conservation of events, for every   *)
(* number of collectors, channel capacity, batch size and queue limit.     *)
(***************************************************************************)
EXTENDS EdgeAgent, OfflineQueueProofs

\* The bodies the agent makes are bodies.
LEMMA BodiesMade ==
  ASSUME NEW S \in SUBSET Nat, registered \in BOOLEAN
  PROVE  Payload(S) \in Body /\ RawArray(S) \in Body /\ Torn \in Body
BY DEF Payload, RawArray, Torn, Body, BodyKind

\* Events, channel and batch are sets of naturals.
LEMMA EventsAreNats ==
  /\ \A b \in Body : b.events \subseteq Nat
  /\ \A q \in Seq(Body) : EventsIn(q) \subseteq Nat
<1>1. \A b \in Body : b.events \subseteq Nat
  BY DEF Body
<1>2. ASSUME NEW q \in Seq(Body) PROVE EventsIn(q) \subseteq Nat
  <2>1. \A i \in DOMAIN q : q[i] \in Body
    OBVIOUS
  <2> QED BY <1>1, <2>1 DEF EventsIn
<1> QED BY <1>1, <1>2

\* What the agent holds in memory, in terms of its counters.
LEMMA MemoryShape ==
  ASSUME TypeOK
  PROVE  /\ body.events \subseteq Nat /\ InMemory \subseteq Nat
         /\ eventCh \cup batch = flushed + 1 .. produced
         /\ pc \notin {"post", "save"} => body.events = {}
<1>1. body.events \subseteq Nat /\ (pc \notin {"post", "save"} => body.events = {})
  BY EventsAreNats DEF TypeOK, Idle, NoBody
<1>2. eventCh \cup batch = flushed + 1 .. produced
  BY DEF TypeOK, eventCh, batch
<1>3. flushed + 1 .. produced \subseteq Nat
  BY DEF TypeOK
<1> QED BY <1>1, <1>2, <1>3 DEF InMemory

-----------------------------------------------------------------------------
(* Type correctness.                                                        *)

LEMMA AbandonType ==
  ASSUME TypeOK, pc \in {"post", "save"}, Abandon
  PROVE  adrift' \subseteq Body /\ unsure' \subseteq Nat
BY EventsAreNats DEF TypeOK, Abandon

LEMMA DieType ==
  ASSUME TypeOK, Die, disk' \in Seq(Body), adrift' \subseteq Body, unsure' \subseteq Nat
  PROVE  TypeOK'
<1>1. InMemory \subseteq Nat /\ EventsIn(disk) \subseteq Nat
  BY MemoryShape, EventsAreNats DEF TypeOK
<1>2. lost' \subseteq Nat
  BY <1>1 DEF Die, TypeOK
<1>3. /\ taken' \in 0 .. produced' /\ flushed' \in 0 .. taken' /\ produced' \in Nat
  BY DEF Die, TypeOK
<1>4. /\ todo' \in [Collectors -> Nat] /\ gone' \in [Collectors -> BOOLEAN]
  BY DEF Die
<1> QED BY <1>2, <1>3, <1>4 DEF TypeOK, Die, EndCall, Idle, serverVars

\* A crash removes files and tears the one being written.
LEMMA CrashDisk ==
  ASSUME TypeOK, Crash
  PROVE  /\ disk' \in Seq(Body)
         /\ EventsIn(disk') \subseteq EventsIn(disk)
         /\ Disjoint(disk) => Disjoint(disk')
<1>1. Torn \in Body /\ Torn.events = {} /\ disk \in Seq(Body)
  BY DEF Torn, Body, BodyKind, TypeOK
<1>2. EventsIn(Limit(disk)) \subseteq EventsIn(disk)
  BY <1>1, LimitKeeps
<1>3. CASE disk' \in Limiting(disk)
  BY <1>1, <1>3, LimitingKeeps
<1>4. CASE disk' = Put(disk, Torn)
  BY <1>1, <1>2, <1>4, PutKeeps
<1>5. CASE SameName /\ disk' = PutOver(disk, Torn)
  BY <1>1, <1>2, <1>5, PutOverKeeps DEF SameName
<1>6. CASE disk' = disk
  BY <1>1, <1>6
<1> QED BY <1>3, <1>4, <1>5, <1>6 DEF Crash

\* Enqueue, in each of its outcomes, leaves files and gives up events.
LEMMA EnqueueType ==
  ASSUME TypeOK, Enqueue
  PROVE  disk' \in Seq(Body) /\ lost' \subseteq Nat /\ proc = "up" /\ AfterSave
<1>1. /\ body \in Body /\ Torn \in Body /\ disk \in Seq(Body) /\ proc = "up" /\ AfterSave
  BY BodiesMade DEF Enqueue, Save, SaveFails, SaveOver, TypeOK, Torn, Body, BodyKind
<1>2. Dropped \subseteq Nat /\ body.events \subseteq Nat /\ lost \subseteq Nat
  BY <1>1, EventsAreNats DEF Dropped, TypeOK
<1>3. CASE Save
  BY <1>1, <1>2, <1>3, PutKeeps DEF Save
<1>4. CASE SaveFails
  BY <1>1, <1>2, <1>4, LimitKeeps, PutKeeps DEF SaveFails
<1>5. ASSUME NEW b \in {body, Torn}, SaveOver(b)
      PROVE  disk' \in Seq(Body) /\ lost' \subseteq Nat
  <2>1. b \in Body /\ Limit(disk) # <<>>
    BY <1>1, <1>5 DEF SaveOver, SameName
  <2>2. /\ PutOver(disk, b) \in Seq(Body) /\ Newest(Limit(disk)).events \subseteq Nat
    BY <1>1, <2>1, PutOverKeeps, EventsAreNats
  <2> QED BY <1>2, <1>5, <2>2 DEF SaveOver
<1> QED BY <1>1, <1>3, <1>4, <1>5 DEF Enqueue

\* What Enqueue does not give up of the events in hand and on disk is on disk.
LEMMA EnqueueMoves ==
  ASSUME TypeOK, Enqueue, Disjoint(disk), body.events \cap EventsIn(disk) = {}
  PROVE  /\ pc = "save" /\ body' = NoBody /\ Disjoint(disk')
         /\ UNCHANGED <<produced, flushed, adrift, ingested, repeated, unsure>>
         /\ \E gaveUp \in SUBSET (EventsIn(disk) \cup body.events) :
              /\ EventsIn(disk') = (EventsIn(disk) \cup body.events) \ gaveUp
              /\ lost' = lost \cup gaveUp
<1>1. /\ pc = "save" /\ body' = NoBody
      /\ UNCHANGED <<produced, flushed, adrift, ingested, repeated, unsure>>
  BY DEF Enqueue, Save, SaveFails, SaveOver, AfterSave, EndCall, countVars, serverVars
<1>2. body \in Body /\ disk \in Seq(Body) /\ Torn \in Body /\ Torn.events = {}
  BY <1>1 DEF TypeOK, Torn, Body, BodyKind
<1>3. EventsIn(Limit(disk)) \subseteq EventsIn(disk) /\ Disjoint(Limit(disk))
  BY <1>2, LimitKeeps
<1> DEFINE Moves(gaveUp) ==
             /\ gaveUp \subseteq EventsIn(disk) \cup body.events
             /\ EventsIn(disk') = (EventsIn(disk) \cup body.events) \ gaveUp
             /\ lost' = lost \cup gaveUp
<1>4. CASE Save
  <2>1. EventsIn(disk') = EventsIn(Limit(disk)) \cup body.events /\ Disjoint(disk')
    BY <1>2, <1>4, PutKeeps DEF Save
  <2>2. Moves(Dropped)
    BY <1>3, <1>4, <2>1 DEF Save, Dropped
  <2> QED BY <1>1, <2>1, <2>2
<1>5. CASE SaveFails
  <2>1. EventsIn(disk') = EventsIn(Limit(disk)) /\ Disjoint(disk')
    BY <1>2, <1>3, <1>5, PutKeeps DEF SaveFails
  <2>2. Moves(Dropped \cup body.events)
    BY <1>3, <1>5, <2>1 DEF SaveFails, Dropped
  <2> QED BY <1>1, <2>1, <2>2
<1>6. ASSUME NEW b \in {body, Torn}, SaveOver(b)
      PROVE  Disjoint(disk') /\ \E gaveUp : Moves(gaveUp)
  <2> DEFINE over == Newest(Limit(disk)).events
  <2>1. /\ b \in Body /\ b.events \subseteq body.events
        /\ Limit(disk) # <<>> /\ disk' = PutOver(disk, b)
        /\ lost' = lost \cup Dropped \cup over \cup (body.events \ b.events)
    BY <1>2, <1>6 DEF SaveOver, SameName
  <2>2. b.events \cap EventsIn(disk) = {}
    BY <2>1
  <2>3. /\ Disjoint(disk') /\ over \subseteq EventsIn(disk)
        /\ EventsIn(Limit(disk)) \subseteq EventsIn(disk') \cup over
        /\ EventsIn(disk') \subseteq EventsIn(Limit(disk)) \cup b.events
        /\ b.events \subseteq EventsIn(disk')
        /\ EventsIn(disk') \cap over = {}
    BY <1>2, <2>1, <2>2, PutOverKeeps
  <2>4. Moves(Dropped \cup over \cup (body.events \ b.events))
    BY <1>3, <2>1, <2>3 DEF Dropped
  <2> QED BY <2>3, <2>4
<1> QED BY <1>1, <1>4, <1>5, <1>6 DEF Enqueue

\* Type correctness: every action leaves every variable in its type, for all
\* values of the constants.
THEOREM TypeCorrect == Spec => []TypeOK
<1>1. Init => TypeOK
  <2> SUFFICES ASSUME Init PROVE TypeOK
    OBVIOUS
  <2>1. disk \in Seq(Body) /\ adrift \subseteq Body
    BY DEF Init
  <2>2. todo \in [Collectors -> Nat] /\ gone \in [Collectors -> BOOLEAN]
    BY DEF Init
  <2>3. live \in BOOLEAN
    BY DEF Init, Idle
  <2>4. /\ pc \in {"select", "post", "save", "drain", "done"}
        /\ caller \in {"batch", "tick", "drain", "stop"}
        /\ IF pc \in {"post", "save"} THEN body \in Body ELSE Idle
    BY DEF Init, Idle
  <2>5. /\ proc \in {"up", "down"} /\ (proc = "down" => pc = "done")
        /\ cancelled \in BOOLEAN /\ registered \in BOOLEAN /\ reachable \in BOOLEAN
    BY DEF Init
  <2>6. /\ starts \in Nat /\ made \in Nat
        /\ produced \in Nat /\ taken \in 0 .. produced /\ flushed \in 0 .. taken
    BY DEF Init
  <2>7. /\ ingested \subseteq Nat /\ repeated \subseteq Nat
        /\ unsure \subseteq Nat /\ lost \subseteq Nat
    BY DEF Init
  <2> QED BY <2>1, <2>2, <2>3, <2>4, <2>5, <2>6, <2>7 DEF TypeOK
<1>2. ASSUME TypeOK, [Next]_vars PROVE TypeOK'
  <2> USE <1>2 DEF processVars, collectorVars, countVars, senderVars, serverVars
  <2>1. CASE Start
    BY <2>1 DEF TypeOK, Start, Idle
  <2>2. CASE Signal
    BY <2>2 DEF TypeOK, Signal, Idle
  <2>3. CASE Exit
    BY <2>3, DieType DEF Exit, TypeOK
  <2>4. CASE Crash
    <3>1. disk' \in Seq(Body)
      BY <2>4, CrashDisk
    <3>2. adrift' \subseteq Body /\ unsure' \subseteq Nat
      BY <2>4, AbandonType DEF Crash, TypeOK
    <3> QED BY <2>4, <3>1, <3>2, DieType DEF Crash
  <2>5. ASSUME NEW c \in Collectors, CollectorTick(c) PROVE TypeOK'
    BY <2>5, AgentAssumption DEF TypeOK, CollectorTick, Idle
  <2>6. ASSUME NEW c \in Collectors, CollectorSend(c) PROVE TypeOK'
    BY <2>6 DEF TypeOK, CollectorSend, Idle
  <2>7. ASSUME NEW c \in Collectors, CollectorStop(c) PROVE TypeOK'
    BY <2>7 DEF TypeOK, CollectorStop, Idle
  <2>8. CASE TakeEvent
    BY <2>8, AgentAssumption DEF TypeOK, TakeEvent, Idle
  <2>9. CASE TakeEventAndSend
    <3>1. Payload(flushed + 1 .. taken + 1) \in Body
      BY BodiesMade DEF TypeOK
    <3> QED BY <2>9, <3>1 DEF TypeOK, TakeEventAndSend, BeginPost
  <2>10. CASE Tick
    <3>1. Payload(batch) \in Body
      BY BodiesMade DEF TypeOK, batch
    <3>2. CASE flushed < taken
      BY <2>10, <3>1, <3>2 DEF TypeOK, Tick, BeginPost
    <3>3. CASE ~(flushed < taken)
      BY <2>10, <3>3 DEF TypeOK, Tick, Idle
    <3> QED BY <3>2, <3>3
  <2>11. CASE SenderStop
    <3>1. RawArray(batch) \in Body
      BY BodiesMade DEF TypeOK, batch
    <3> QED BY <2>11, <3>1 DEF TypeOK, SenderStop, Idle
  <2>12. CASE DrainTake
    <3>1. Head(disk) \in Body /\ Tail(disk) \in Seq(Body)
      BY <2>12, TakeKeeps DEF TypeOK, DrainTake
    <3> QED BY <2>12, <3>1 DEF TypeOK, DrainTake, BeginPost
  <2>13. CASE DrainEnd
    BY <2>13 DEF TypeOK, DrainEnd, Idle
  <2>14. CASE PostOk
    BY <2>14, EventsAreNats DEF TypeOK, PostOk, Ingest, EndCall, Idle
  <2>15. CASE PostRejected
    BY <2>15 DEF TypeOK, PostRejected, Idle
  <2>16. CASE PostUnanswered
    BY <2>16, AbandonType DEF TypeOK, PostUnanswered, Idle
  <2>17. CASE Enqueue
    <3>1. /\ disk' \in Seq(Body) /\ lost' \subseteq Nat /\ proc = "up" /\ AfterSave
      BY <2>17, EnqueueType
    <3>2. pc' \in {"drain", "done", "select"}
      BY <3>1 DEF AfterSave
    <3> QED BY <3>1, <3>2 DEF TypeOK, AfterSave, EndCall, Idle
  <2>18. CASE Network
    BY <2>18 DEF TypeOK, Network, Idle
  <2>19. ASSUME NEW b \in adrift, LateIngest(b) PROVE TypeOK'
    BY <2>19, EventsAreNats DEF TypeOK, LateIngest, Ingest, Idle
  <2>20. ASSUME NEW b \in adrift, RequestVanishes(b) PROVE TypeOK'
    BY <2>20 DEF TypeOK, RequestVanishes, Idle
  <2>21. CASE UNCHANGED vars
    BY <2>21 DEF TypeOK, vars, Idle
  <2> QED
    BY <2>1, <2>2, <2>3, <2>4, <2>5, <2>6, <2>7, <2>8, <2>9, <2>10, <2>11,
       <2>12, <2>13, <2>14, <2>15, <2>16, <2>17, <2>18, <2>19, <2>20, <2>21
    DEF Next, Post
<1> QED BY <1>1, <1>2, PTL DEF Spec

-----------------------------------------------------------------------------
(* Conservation of events.  Accounted is inductive relative to TypeOK; the  *)
(* lemmas below show it step by step for the groups of actions that move    *)
(* events the same way.                                                     *)

\* What NoSilentLoss says of the events that have left the batch; the others
\* are in the batch or the channel.
FlushedKept ==
  1 .. flushed \subseteq body.events \cup EventsIn(disk) \cup ingested \cup lost

LEMMA FlushedKeptEnough == TypeOK => (NoSilentLoss <=> FlushedKept)
<1> SUFFICES ASSUME TypeOK PROVE NoSilentLoss <=> FlushedKept
  OBVIOUS
<1>1. Held = (flushed + 1 .. produced) \cup body.events \cup EventsIn(disk)
  BY MemoryShape DEF Held, InMemory
<1>2. 1 .. produced = (1 .. flushed) \cup (flushed + 1 .. produced)
  BY DEF TypeOK
<1>3. (1 .. flushed) \cap (flushed + 1 .. produced) = {}
  BY DEF TypeOK
<1> QED BY <1>1, <1>2, <1>3 DEF NoSilentLoss, FlushedKept

LEMMA FlushedKeptNext == TypeOK' => (NoSilentLoss' <=> FlushedKept')
BY FlushedKeptEnough, PTL

\* The facts of Accounted that the steps work with.
LEMMA AccountedFacts ==
  ASSUME TypeOK, Accounted
  PROVE  /\ FlushedKept
         /\ body.events \cap EventsIn(disk) = {} /\ Disjoint(disk)
         /\ body.events \subseteq 1 .. flushed /\ EventsIn(disk) \subseteq 1 .. flushed
         /\ repeated \subseteq unsure
         /\ body.events \cap ingested \subseteq unsure
         /\ EventsIn(disk) \cap ingested \subseteq unsure
         /\ \A b \in adrift : b.events \subseteq unsure
         /\ ingested \subseteq 1 .. flushed /\ unsure \subseteq 1 .. flushed
         /\ disk \in Seq(Body) /\ flushed \in Nat
         /\ pc \notin {"post", "save"} => body.events = {}
         /\ pc \in {"post", "save"} => body \in Body
<1>1. FlushedKept
  BY FlushedKeptEnough DEF Accounted
<1>2. /\ disk \in Seq(Body) /\ flushed \in Nat
      /\ pc \notin {"post", "save"} => body.events = {}
      /\ pc \in {"post", "save"} => body \in Body
  BY MemoryShape DEF TypeOK
<1> QED BY <1>1, <1>2
        DEF Accounted, HeldOnce, DuplicateNeedsLostReply, ResendsOnlyUnsure

\* Accounted in the next state, from the same facts.
LEMMA AccountedNext ==
  ASSUME TypeOK', FlushedKept',
         body'.events \cap EventsIn(disk') = {}, Disjoint(disk'),
         body'.events \subseteq 1 .. flushed', EventsIn(disk') \subseteq 1 .. flushed',
         repeated' \subseteq unsure',
         body'.events \cap ingested' \subseteq unsure',
         EventsIn(disk') \cap ingested' \subseteq unsure',
         \A b \in adrift' : b.events \subseteq unsure',
         ingested' \subseteq 1 .. flushed', unsure' \subseteq 1 .. flushed'
  PROVE  Accounted'
BY FlushedKeptNext
DEF Accounted, HeldOnce, DuplicateNeedsLostReply, ResendsOnlyUnsure

\* Steps that move no event out of the batch, the body or the disk.
LEMMA QuietStep ==
  ASSUME TypeOK, TypeOK', Accounted,
         UNCHANGED <<flushed, body, disk, ingested, repeated, unsure, lost>>,
         adrift' \subseteq adrift
  PROVE  Accounted'
BY AccountedFacts, AccountedNext DEF FlushedKept

\* The batch becomes a body.
LEMMA BatchStep ==
  ASSUME TypeOK, TypeOK', Accounted, pc = "select",
         flushed' \in flushed .. produced,
         body'.events = flushed + 1 .. flushed',
         UNCHANGED <<disk, adrift, ingested, repeated, unsure, lost>>
  PROVE  Accounted'
<1>1. /\ flushed \in Nat /\ flushed' \in Nat /\ flushed <= flushed'
      /\ body.events = {}
  BY AccountedFacts DEF TypeOK
<1>2. 1 .. flushed' = (1 .. flushed) \cup (flushed + 1 .. flushed')
  BY <1>1
<1>3. (1 .. flushed) \cap (flushed + 1 .. flushed') = {}
  BY <1>1
<1>4. FlushedKept'
  BY <1>1, <1>2, AccountedFacts DEF FlushedKept
<1> QED BY <1>1, <1>2, <1>3, <1>4, AccountedFacts, AccountedNext

\* Dequeue moves the oldest file into the sender's hands.
LEMMA TakeStep ==
  ASSUME TypeOK, TypeOK', Accounted, pc = "drain", disk # <<>>,
         body' = Head(disk), disk' = Tail(disk),
         UNCHANGED <<flushed, adrift, ingested, repeated, unsure, lost>>
  PROVE  Accounted'
<1>1. /\ EventsIn(disk) = body'.events \cup EventsIn(disk')
      /\ Disjoint(disk') /\ body'.events \cap EventsIn(disk') = {}
  BY AccountedFacts, TakeKeeps
<1>2. body.events = {}
  BY AccountedFacts
<1>3. FlushedKept'
  BY <1>1, <1>2, AccountedFacts DEF FlushedKept
<1> QED BY <1>1, <1>3, AccountedFacts, AccountedNext

\* The server commits the body and says so.
LEMMA OkStep ==
  ASSUME TypeOK, TypeOK', Accounted,
         Ingest(body.events), body' = NoBody,
         UNCHANGED <<flushed, disk, adrift, unsure, lost>>
  PROVE  Accounted'
<1>1. body'.events = {}
  BY DEF NoBody
<1>2. FlushedKept'
  BY <1>1, AccountedFacts DEF FlushedKept, Ingest
<1> QED BY <1>1, <1>2, AccountedFacts, AccountedNext DEF Ingest

\* The server commits an abandoned request.
LEMMA LateStep ==
  ASSUME TypeOK, TypeOK', Accounted, NEW b \in adrift,
         Ingest(b.events), adrift' = adrift \ {b},
         UNCHANGED <<flushed, body, disk, unsure, lost>>
  PROVE  Accounted'
<1>1. b.events \subseteq unsure
  BY AccountedFacts
<1>2. FlushedKept'
  BY AccountedFacts DEF FlushedKept, Ingest
<1> QED BY <1>1, <1>2, AccountedFacts, AccountedNext DEF Ingest

\* The client gives up on the request.
LEMMA AbandonStep ==
  ASSUME TypeOK, TypeOK', Accounted, Abandon,
         UNCHANGED <<flushed, body, disk, ingested, repeated, lost>>
  PROVE  Accounted'
<1>1. FlushedKept'
  BY AccountedFacts DEF FlushedKept
<1>2. /\ unsure \subseteq unsure' /\ unsure' \subseteq unsure \cup body.events
      /\ \A b \in adrift' : b \in adrift \/ b.events \subseteq unsure'
  BY DEF Abandon
<1> QED BY <1>1, <1>2, AccountedFacts, AccountedNext

\* Enqueue, in each of its outcomes: what the sender had in hand and what the
\* files held is in the files or lost.
LEMMA SaveStep ==
  ASSUME TypeOK, TypeOK', Accounted, pc = "save", body' = NoBody,
         Disjoint(disk'),
         EventsIn(disk') \subseteq EventsIn(disk) \cup body.events,
         EventsIn(disk) \cup body.events \subseteq EventsIn(disk') \cup lost',
         lost \subseteq lost',
         UNCHANGED <<flushed, adrift, ingested, repeated, unsure>>
  PROVE  Accounted'
<1>1. body'.events = {}
  BY DEF NoBody
<1>2. FlushedKept'
  BY <1>1, AccountedFacts DEF FlushedKept
<1> QED BY <1>1, <1>2, AccountedFacts, AccountedNext

\* The process dies: what it held in memory is lost, what is on disk stays.
LEMMA DieStep ==
  ASSUME TypeOK, TypeOK', Accounted, Die,
         Disjoint(disk'), EventsIn(disk') \subseteq EventsIn(disk),
         Abandon \/ UNCHANGED <<adrift, unsure>>
  PROVE  Accounted'
<1>1. body'.events = {} /\ flushed' = produced /\ UNCHANGED <<ingested, repeated>>
  BY DEF Die, EndCall, NoBody, serverVars
<1>2. /\ produced \in Nat /\ flushed \in Nat /\ flushed <= produced
      /\ 1 .. produced = (1 .. flushed) \cup (flushed + 1 .. produced)
  BY DEF TypeOK
<1>3. (flushed + 1 .. produced) \cup body.events = InMemory
  BY MemoryShape DEF InMemory
<1>4. FlushedKept'
  <2>1. InMemory \cup (EventsIn(disk) \ EventsIn(disk')) \cup lost \subseteq lost'
    BY DEF Die
  <2> QED BY <1>1, <1>2, <1>3, <2>1, AccountedFacts DEF FlushedKept
<1>5. /\ unsure \subseteq unsure' /\ unsure' \subseteq unsure \cup body.events
      /\ \A b \in adrift' : b \in adrift \/ b.events \subseteq unsure'
  BY DEF Abandon
<1>6. 1 .. flushed \subseteq 1 .. flushed'
  BY <1>1, <1>2
<1> QED BY <1>1, <1>4, <1>5, <1>6, AccountedFacts, AccountedNext

\* Every step keeps Accounted.
LEMMA AccountedStep == TypeOK /\ TypeOK' /\ Accounted /\ [Next]_vars => Accounted'
<1> SUFFICES ASSUME TypeOK, TypeOK', Accounted, [Next]_vars PROVE Accounted'
  OBVIOUS
<1> USE DEF processVars, collectorVars, countVars, senderVars, serverVars
<1>1. CASE Start \/ Signal
  BY <1>1, QuietStep DEF Start, Signal
<1>2. CASE Exit
  BY <1>2, DieStep, AccountedFacts DEF Exit
<1>3. CASE Crash
  <2>1. Disjoint(disk') /\ EventsIn(disk') \subseteq EventsIn(disk)
    BY <1>3, CrashDisk, AccountedFacts
  <2> QED BY <1>3, <2>1, DieStep DEF Crash
<1>4. ASSUME NEW c \in Collectors, CollectorTick(c) \/ CollectorSend(c) \/ CollectorStop(c)
      PROVE  Accounted'
  BY <1>4, QuietStep DEF CollectorTick, CollectorSend, CollectorStop
<1>5. CASE TakeEvent
  BY <1>5, QuietStep DEF TakeEvent
<1>6. CASE TakeEventAndSend
  <2>1. flushed' \in flushed .. produced /\ flushed' = taken + 1
    BY <1>6 DEF TakeEventAndSend, TypeOK
  <2>2. body'.events = flushed + 1 .. flushed'
    BY <1>6, <2>1 DEF TakeEventAndSend, BeginPost, Payload
  <2> QED BY <1>6, <2>1, <2>2, BatchStep DEF TakeEventAndSend
<1>7. CASE Tick \/ SenderStop
  <2>1. flushed' = taken /\ flushed' \in flushed .. produced /\ pc = "select"
    BY <1>7 DEF Tick, SenderStop, TypeOK
  <2>2. CASE flushed < taken
    <3>1. body'.events = flushed + 1 .. flushed'
      BY <1>7, <2>1, <2>2 DEF Tick, SenderStop, BeginPost, Payload, RawArray, batch
    <3> QED BY <1>7, <2>1, <3>1, BatchStep DEF Tick, SenderStop
  <2>3. CASE ~(flushed < taken)
    <3>1. flushed' = flushed
      BY <2>1, <2>3 DEF TypeOK
    <3> QED BY <1>7, <2>3, <3>1, QuietStep DEF Tick, SenderStop
  <2> QED BY <2>2, <2>3
<1>8. CASE DrainTake
  BY <1>8, TakeStep DEF DrainTake, BeginPost
<1>9. CASE DrainEnd \/ PostRejected \/ Network
  BY <1>9, QuietStep DEF DrainEnd, PostRejected, Network
<1>10. CASE PostOk
  BY <1>10, OkStep DEF PostOk, EndCall
<1>11. CASE PostUnanswered
  BY <1>11, AbandonStep DEF PostUnanswered
<1>12. CASE Enqueue
  <2>1. Disjoint(disk) /\ body.events \cap EventsIn(disk) = {}
    BY AccountedFacts
  <2>2. PICK gaveUp \in SUBSET (EventsIn(disk) \cup body.events) :
          /\ EventsIn(disk') = (EventsIn(disk) \cup body.events) \ gaveUp
          /\ lost' = lost \cup gaveUp
    BY <1>12, <2>1, EnqueueMoves
  <2> QED BY <1>12, <2>1, <2>2, EnqueueMoves, SaveStep
<1>13. ASSUME NEW b \in adrift, LateIngest(b) \/ RequestVanishes(b)
       PROVE  Accounted'
  BY <1>13, LateStep, QuietStep DEF LateIngest, RequestVanishes
<1>14. CASE UNCHANGED vars
  BY <1>14, QuietStep DEF vars
<1> QED
  BY <1>1, <1>2, <1>3, <1>4, <1>5, <1>6, <1>7, <1>8, <1>9, <1>10, <1>11,
     <1>12, <1>13, <1>14
  DEF Next, Post

LEMMA AccountedInit == Init => Accounted
<1> SUFFICES ASSUME Init PROVE Accounted
  OBVIOUS
<1>1. body.events = {} /\ EventsIn(disk) = {} /\ Disjoint(disk)
  BY DEF Init, Idle, NoBody, EventsIn, Disjoint
<1>2. 1 .. produced = {}
  BY DEF Init
<1> QED BY <1>1, <1>2 DEF Init, Accounted, NoSilentLoss, HeldOnce,
        DuplicateNeedsLostReply, ResendsOnlyUnsure

LEMMA AccountedAlways == Spec => []Accounted
<1>1. TypeOK /\ TypeOK' /\ Accounted /\ [Next]_vars => Accounted'
  BY AccountedStep
<1> QED BY <1>1, AccountedInit, TypeCorrect, PTL DEF Spec

\* No event leaves the agent unseen, however crashes, timeouts, rejections,
\* full disks and restarts fall, for every channel, batch and queue size.
THEOREM NothingLostSilently == Spec => []NoSilentLoss
<1>1. Accounted => NoSilentLoss
  BY DEF Accounted
<1> QED BY <1>1, AccountedAlways, PTL

\* An event is never in two places the agent sends from.
THEOREM HeldInOnePlace == Spec => []HeldOnce
<1>1. Accounted => HeldOnce
  BY DEF Accounted
<1> QED BY <1>1, AccountedAlways, PTL

\* What the agent will send again although the server has it was in an
\* unanswered request.
THEOREM ResendsNeedLostReply == Spec => []ResendsOnlyUnsure
<1>1. Accounted => ResendsOnlyUnsure
  BY DEF Accounted
<1> QED BY <1>1, AccountedAlways, PTL

\* The server commits an event twice only if a request with it went unanswered.
THEOREM DuplicatesNeedLostReply == Spec => []DuplicateNeedsLostReply
<1>1. Accounted => DuplicateNeedsLostReply
  BY DEF Accounted
<1> QED BY <1>1, AccountedAlways, PTL
-----------------------------------------------------------------------------
(* The size of the queue.  A body has at most a batch of events, because    *)
(* the sender never holds more than a batch; so has every file.             *)

\* At most a batch of events.
Fits(b) == IsFiniteSet(b.events) /\ Cardinality(b.events) <= BatchSize

\* Every file has at most a batch, and they weigh no more than the bound.
Fitting(q) == \A i \in 1 .. Len(q) : Fits(q[i])
Bounded(q) == WeightFrom(q, 1) <= MaxQueue + 1 + BatchSize

SizesInv ==
  /\ taken - flushed < BatchSize
  /\ Fits(body)
  /\ Fitting(disk)
  /\ Bounded(disk)

\* Consecutive events, no more than a batch, make a body that fits.
LEMMA IntervalFits ==
  ASSUME NEW m \in Nat, NEW n \in Nat, n - m <= BatchSize, NEW b, b.events = m + 1 .. n
  PROVE  Fits(b)
<1>1. IsFiniteSet(m + 1 .. n)
  BY FS_Interval
<1>2. Cardinality(m + 1 .. n) <= BatchSize
  <2>1. CASE m + 1 <= n
    BY <2>1, FS_Interval
  <2>2. CASE ~(m + 1 <= n)
    <3>1. m + 1 .. n = {}
      BY <2>2
    <3>2. Cardinality(m + 1 .. n) = 0
      BY <3>1, FS_EmptySet
    <3> QED BY <3>2, AgentAssumption
  <2> QED BY <2>1, <2>2
<1> QED BY <1>1, <1>2 DEF Fits

LEMMA EmptyFits == ASSUME NEW b, b.events = {} PROVE Fits(b)
BY FS_EmptySet, AgentAssumption DEF Fits

\* A file that fits has a size, and what fits can be weighed.
LEMMA FitWeight ==
  /\ \A b : Fits(b) => Weight(b) \in Nat /\ Weight(b) <= 1 + BatchSize
  /\ \A q \in Seq(Body) : Fitting(q) => Weighed(q)
<1>1. ASSUME NEW b, Fits(b) PROVE Weight(b) \in Nat /\ Weight(b) <= 1 + BatchSize
  <2>1. Cardinality(b.events) \in Nat /\ Cardinality(b.events) <= BatchSize
    BY <1>1, FS_CardinalityType DEF Fits
  <2> QED BY <2>1, AgentAssumption DEF Weight
<1> QED BY <1>1 DEF Fitting, Weighed

\* A queue that is the end of another.
LEMMA SuffixFits ==
  ASSUME NEW q \in Seq(Body), Fitting(q), NEW k \in 0 .. Len(q), NEW r \in Seq(Body),
         Len(r) = Len(q) - k, \A i \in 1 .. Len(r) : r[i] = q[i + k]
  PROVE  Fitting(r) /\ (Bounded(q) => Bounded(r))
<1>0. Len(q) \in Nat /\ Len(r) \in Nat /\ k \in Nat
  OBVIOUS
<1>1. Fitting(r)
  <2>1. \A i \in 1 .. Len(r) : i + k \in 1 .. Len(q)
    BY <1>0
  <2> QED BY <2>1 DEF Fitting
<1>2. WeightFrom(r, 1) = WeightFrom(q, 1 + k)
  <2>1. 1 \in 1 .. Len(r) + 1
    BY <1>0
  <2> QED BY <2>1, FitWeight, SuffixWeight
<1>3. WeightFrom(q, 1 + k) <= WeightFrom(q, 1) /\ WeightFrom(q, 1 + k) \in Nat
      /\ WeightFrom(q, 1) \in Nat
  <2>1. 1 \in 1 .. Len(q) + 1 /\ 1 + k \in 1 .. Len(q) + 1 /\ 1 <= 1 + k
    BY <1>0
  <2> QED BY <2>1, FitWeight, WeightFalls, WeightSteps
<1> QED BY <1>1, <1>2, <1>3, AgentAssumption, QueueAssumption DEF Bounded

\* What enforceLimit leaves fits and is within the limit.
LEMMA LimitFits ==
  ASSUME NEW q \in Seq(Body), Fitting(q)
  PROVE  /\ Limit(q) \in Seq(Body) /\ Fitting(Limit(q)) /\ Weighed(Limit(q))
         /\ WeightFrom(Limit(q), 1) <= MaxQueue
         /\ WeightFrom(Limit(q), 1) \in Nat
<1>1. /\ Excess(q) \in 0 .. Len(q) /\ Limit(q) \in Seq(Body)
      /\ Len(Limit(q)) = Len(q) - Excess(q)
      /\ \A i \in 1 .. Len(Limit(q)) : Limit(q)[i] = q[i + Excess(q)]
  BY ExcessRange, LimitIsSuffix
<1>2. Fitting(Limit(q))
  BY <1>1, SuffixFits
<1>3. Weighed(Limit(q)) /\ WeightFrom(Limit(q), 1) <= MaxQueue
  BY FitWeight, LimitWeight
<1>4. 1 \in 1 .. Len(Limit(q)) + 1
  BY <1>1
<1> QED BY <1>1, <1>2, <1>3, <1>4, WeightSteps

\* Whatever Enqueue does to the queue, complete or cut short, the files fit
\* and weigh no more than the limit and one body.
LEMMA QueueFits ==
  ASSUME NEW q \in Seq(Body), Fitting(q), Bounded(q), NEW b \in Body, Fits(b)
  PROVE  /\ \A r \in Limiting(q) : Fitting(r) /\ Bounded(r)
         /\ Fitting(Limit(q)) /\ Bounded(Limit(q))
         /\ Fitting(Put(q, b)) /\ Bounded(Put(q, b))
         /\ Limit(q) # <<>> => Fitting(PutOver(q, b)) /\ Bounded(PutOver(q, b))
         /\ q # <<>> => Fits(Head(q)) /\ Fitting(Tail(q)) /\ Bounded(Tail(q))
<1> USE AgentAssumption, QueueAssumption
<1> DEFINE l == Limit(q)
<1>1. /\ l \in Seq(Body) /\ Fitting(l) /\ Weighed(l)
      /\ WeightFrom(l, 1) <= MaxQueue /\ WeightFrom(l, 1) \in Nat
  BY LimitFits
<1>2. Weight(b) \in Nat /\ Weight(b) <= 1 + BatchSize
  BY FitWeight
<1> HIDE DEF l
<1>3. ASSUME NEW r \in Limiting(q) PROVE Fitting(r) /\ Bounded(r)
  <2>1. PICK k \in 0 .. Excess(q) : r = SubSeq(q, k + 1, Len(q))
    BY <1>3 DEF Limiting
  <2>2. k \in 0 .. Len(q) /\ Len(q) \in Nat
    BY ExcessRange
  <2>3. /\ r \in Seq(Body) /\ Len(r) = Len(q) - k
        /\ \A i \in 1 .. Len(r) : r[i] = q[i + k]
    <3>1. r = [i \in 1 .. Len(q) - k |-> q[i + k]]
      BY <2>1, <2>2
    <3>2. r \in Seq(Body)
      BY <1>3, LimitingKeeps
    <3> QED BY <2>2, <3>1, <3>2
  <2> QED BY <2>2, <2>3, SuffixFits
<1>4. Bounded(l)
  BY <1>1 DEF Bounded
<1>5. Fitting(Append(l, b)) /\ Bounded(Append(l, b))
  <2>1. WeightFrom(Append(l, b), 1) = WeightFrom(l, 1) + Weight(b)
    BY <1>1, <1>2, AppendWeight
  <2>2. Fitting(Append(l, b))
    BY <1>1 DEF Fitting
  <2> QED BY <1>1, <1>2, <2>1, <2>2 DEF Bounded
<1>6. ASSUME l # <<>>
      PROVE  Fitting([l EXCEPT ![Len(l)] = b]) /\ Bounded([l EXCEPT ![Len(l)] = b])
  <2> DEFINE s == [l EXCEPT ![Len(l)] = b]
  <2>1. s \in Seq(Body) /\ WeightFrom(s, 1) <= WeightFrom(l, 1) + Weight(b) /\ Weighed(s)
    <3>1. s \in Seq(Body)
      BY <1>1, <1>6
    <3>2. Weighed(s) /\ WeightFrom(s, 1) <= WeightFrom(l, 1) + Weight(b)
      BY <1>1, <1>2, <1>6, ReplaceWeight
    <3> QED BY <3>1, <3>2
  <2>2. Fitting(s)
    BY <1>1 DEF Fitting
  <2>3. 1 \in 1 .. Len(s) + 1
    BY <2>1
  <2>4. WeightFrom(s, 1) \in Nat
    BY <2>1, <2>3, WeightSteps
  <2> HIDE DEF s
  <2>5. Bounded(s)
    BY <1>1, <1>2, <2>1, <2>4 DEF Bounded
  <2> QED BY <2>2, <2>5 DEF s
<1>7. ASSUME q # <<>> PROVE Fits(Head(q)) /\ Fitting(Tail(q)) /\ Bounded(Tail(q))
  <2>1. /\ Tail(q) \in Seq(Body) /\ Len(Tail(q)) = Len(q) - 1 /\ 1 \in 0 .. Len(q)
        /\ \A i \in 1 .. Len(Tail(q)) : Tail(q)[i] = q[i + 1]
        /\ Head(q) = q[1] /\ 1 \in 1 .. Len(q)
    BY <1>7
  <2>2. Fitting(Tail(q)) /\ Bounded(Tail(q))
    BY <2>1, SuffixFits
  <2> QED BY <2>1, <2>2 DEF Fitting
<1>8. Put(q, b) = Append(l, b) /\ PutOver(q, b) = [l EXCEPT ![Len(l)] = b] /\ Limit(q) = l
  BY DEF Put, PutOver, l
<1> QED BY <1>1, <1>3, <1>4, <1>5, <1>6, <1>7, <1>8

LEMMA SizesInit == Init => SizesInv
<1> SUFFICES ASSUME Init PROVE SizesInv
  OBVIOUS
<1>1. /\ taken = 0 /\ flushed = 0 /\ body.events = {} /\ disk = <<>> /\ disk \in Seq(Body)
  BY DEF Init, Idle, NoBody
<1>2. Fits(body)
  BY <1>1, EmptyFits
<1>3. Fitting(disk)
  BY <1>1 DEF Fitting
<1>4. WeightFrom(disk, 1) = 0
  <2>1. Weighed(disk) /\ Len(disk) + 1 = 1
    BY <1>1 DEF Weighed
  <2> QED BY <1>1, <2>1, WeightSteps
<1> QED BY <1>1, <1>2, <1>3, <1>4, AgentAssumption, QueueAssumption DEF SizesInv, Bounded

\* Steps that leave the batch, the body and the disk alone.
LEMMA SizesQuiet ==
  ASSUME SizesInv, UNCHANGED <<taken, flushed, body, disk>>
  PROVE  SizesInv'
BY DEF SizesInv

\* Every step keeps the sizes.
LEMMA SizesStep == TypeOK /\ SizesInv /\ [Next]_vars => SizesInv'
<1> SUFFICES ASSUME TypeOK, SizesInv, [Next]_vars PROVE SizesInv'
  OBVIOUS
<1> USE DEF processVars, collectorVars, countVars, senderVars, serverVars
<1>0. /\ taken \in Nat /\ flushed \in Nat /\ flushed <= taken /\ BatchSize \in Nat
      /\ BatchSize > 0 /\ disk \in Seq(Body) /\ taken - flushed < BatchSize
      /\ Fits(body) /\ Fitting(disk) /\ Bounded(disk) /\ produced \in Nat
      /\ Torn \in Body /\ Fits(Torn) /\ Fits(NoBody)
  <2>1. Torn.events = {} /\ NoBody.events = {} /\ Torn \in Body
    BY DEF Torn, NoBody, Body, BodyKind
  <2> QED BY <2>1, EmptyFits, AgentAssumption DEF TypeOK, SizesInv
<1>d. ASSUME Die, Fitting(disk'), Bounded(disk') PROVE SizesInv'
  <2>1. taken' - flushed' < BatchSize /\ body' = NoBody
    BY <1>0, <1>d DEF Die, EndCall
  <2> QED BY <1>0, <1>d, <2>1 DEF SizesInv
<1>1. CASE Start \/ Signal \/ DrainEnd \/ PostRejected \/ PostUnanswered \/ Network
  BY <1>1, SizesQuiet DEF Start, Signal, DrainEnd, PostRejected, PostUnanswered, Network
<1>2. CASE Exit
  BY <1>0, <1>2, <1>d DEF Exit
<1>3. CASE Crash
  <2>1. \/ disk' = disk
        \/ disk' \in Limiting(disk) \cup {Put(disk, Torn)}
        \/ Limit(disk) # <<>> /\ disk' = PutOver(disk, Torn)
    BY <1>3 DEF Crash, SameName
  <2>2. Fitting(disk') /\ Bounded(disk')
    BY <1>0, <2>1, QueueFits
  <2> QED BY <1>3, <1>d, <2>2 DEF Crash
<1>4. ASSUME NEW c \in Collectors, CollectorTick(c) \/ CollectorSend(c) \/ CollectorStop(c)
      PROVE  SizesInv'
  BY <1>4, SizesQuiet DEF CollectorTick, CollectorSend, CollectorStop
<1>5. CASE TakeEvent
  <2>1. taken' - flushed' < BatchSize /\ UNCHANGED <<body, disk>>
    BY <1>0, <1>5 DEF TakeEvent
  <2> QED BY <1>0, <2>1 DEF SizesInv
<1>6. CASE TakeEventAndSend
  <2>1. /\ taken' = taken + 1 /\ flushed' = taken + 1 /\ disk' = disk
        /\ body'.events = flushed + 1 .. taken + 1
    BY <1>6 DEF TakeEventAndSend, BeginPost, Payload
  <2>2. taken + 1 \in Nat /\ (taken + 1) - flushed <= BatchSize
    BY <1>0
  <2>3. Fits(body')
    BY <1>0, <2>1, <2>2, IntervalFits
  <2> QED BY <1>0, <2>1, <2>3 DEF SizesInv
<1>7. CASE Tick \/ SenderStop
  <2>1. taken' = taken /\ flushed' = taken /\ disk' = disk
    BY <1>7 DEF Tick, SenderStop
  <2>2. body' = body \/ body'.events = flushed + 1 .. taken
    BY <1>7 DEF Tick, SenderStop, BeginPost, Payload, RawArray, batch
  <2>3. taken - flushed <= BatchSize
    BY <1>0
  <2>4. Fits(body')
    BY <1>0, <2>2, <2>3, IntervalFits
  <2> QED BY <1>0, <2>1, <2>4 DEF SizesInv
<1>8. CASE DrainTake
  <2>1. disk # <<>> /\ body' = Head(disk) /\ disk' = Tail(disk) /\ UNCHANGED <<taken, flushed>>
    BY <1>8 DEF DrainTake, BeginPost
  <2>2. Fits(body') /\ Fitting(disk') /\ Bounded(disk')
    BY <1>0, <2>1, QueueFits
  <2> QED BY <1>0, <2>1, <2>2 DEF SizesInv
<1>9. CASE PostOk
  <2>1. body' = NoBody /\ UNCHANGED <<taken, flushed, disk>>
    BY <1>9 DEF PostOk, EndCall
  <2> QED BY <1>0, <2>1 DEF SizesInv
<1>10. CASE Enqueue
  <2>1. body' = NoBody /\ UNCHANGED <<taken, flushed>> /\ pc = "save"
    BY <1>10 DEF Enqueue, Save, SaveFails, SaveOver, AfterSave, EndCall
  <2>2. body \in Body
    BY <2>1 DEF TypeOK
  <2>3. \/ disk' = Limit(disk)
        \/ \E b \in {body, Torn} : disk' = Put(disk, b)
        \/ Limit(disk) # <<>> /\ \E b \in {body, Torn} : disk' = PutOver(disk, b)
    BY <1>10 DEF Enqueue, Save, SaveFails, SaveOver, SameName
  <2>4. \A b \in {body, Torn} : b \in Body /\ Fits(b)
    BY <1>0, <2>2
  <2>5. Fitting(disk') /\ Bounded(disk')
    BY <1>0, <2>3, <2>4, QueueFits
  <2> QED BY <1>0, <2>1, <2>5 DEF SizesInv
<1>11. ASSUME NEW b \in adrift, LateIngest(b) \/ RequestVanishes(b) PROVE SizesInv'
  BY <1>11, SizesQuiet DEF LateIngest, RequestVanishes
<1>12. CASE UNCHANGED vars
  BY <1>12, SizesQuiet DEF vars
<1> QED
  BY <1>1, <1>2, <1>3, <1>4, <1>5, <1>6, <1>7, <1>8, <1>9, <1>10, <1>11, <1>12
  DEF Next, Post

\* The directory never weighs more than MaxQueueSizeMB and one body, whatever
\* the batch size and however writes fail, collide or are cut short: Enqueue's
\* check before the write leaves room for nothing else.
THEOREM QueueIsBounded == Spec => []QueueBound
<1>1. SizesInv => QueueBound
  BY DEF SizesInv, Bounded, QueueBound
<1> QED BY <1>1, SizesInit, SizesStep, TypeCorrect, PTL DEF Spec

-----------------------------------------------------------------------------
(* Refinement: each step of the agent is a step of Delivery, or changes     *)
(* nothing Delivery sees.  The lemmas name the Delivery step.               *)

seen == <<produced, Held, ingested, lost>>

\* Held is three places that exclude each other.
HeldShaped ==
  Held = (flushed + 1 .. produced) \cup body.events \cup EventsIn(disk)

LEMMA HeldShape == TypeOK => HeldShaped
BY MemoryShape DEF HeldShaped, Held, InMemory

LEMMA HeldShapeNext == TypeOK' => HeldShaped'
BY HeldShape, PTL

\* A step that lets go of events and says so in lost.
LEMMA GiveUpStep ==
  ASSUME NEW events \in SUBSET Held,
         produced \in Nat, Held \subseteq 1 .. produced,
         Held' = Held \ events, lost' = lost \cup events,
         UNCHANGED <<produced, ingested>>
  PROVE  Promise!Next
<1>1. events \in SUBSET (1 .. produced)
  OBVIOUS
<1>2. Promise!GiveUp(events)
  BY DEF Promise!GiveUp
<1> QED BY <1>1, <1>2 DEF Promise!Next

\* A step in which the server commits events.
LEMMA ArriveStep ==
  ASSUME NEW events \in SUBSET (1 .. produced),
         Held' \in {Held, Held \ events}, ingested' = ingested \cup events,
         UNCHANGED <<produced, lost>>
  PROVE  Promise!Next
<1>1. Promise!Arrive(events)
  BY DEF Promise!Arrive
<1> QED BY <1>1 DEF Promise!Next

\* Events held are events made, and the three places exclude each other.
LEMMA HeldFacts ==
  ASSUME TypeOK, Accounted
  PROVE  /\ produced \in Nat /\ Held \subseteq 1 .. produced
         /\ 1 .. flushed \subseteq 1 .. produced
         /\ (flushed + 1 .. produced) \cap (1 .. flushed) = {}
<1>1. /\ produced \in Nat /\ flushed \in Nat /\ flushed <= produced
  BY DEF TypeOK
<1>2. (flushed + 1 .. produced) \subseteq 1 .. produced /\ 1 .. flushed \subseteq 1 .. produced
  BY <1>1
<1>3. body.events \cup EventsIn(disk) \subseteq 1 .. flushed
  BY AccountedFacts
<1> QED BY <1>1, <1>2, <1>3, HeldShape DEF HeldShaped

\* Enqueue gives up what its outcome loses, and nothing it keeps.
LEMMA SaveGivesUp ==
  ASSUME TypeOK, TypeOK', Accounted, pc = "save", body' = NoBody,
         UNCHANGED <<produced, flushed, ingested>>,
         NEW gaveUp, gaveUp \subseteq EventsIn(disk) \cup body.events,
         EventsIn(disk') = (EventsIn(disk) \cup body.events) \ gaveUp,
         lost' = lost \cup gaveUp
  PROVE  Promise!Next
<1>1. body'.events = {}
  BY DEF NoBody
<1>2. Held' = (flushed + 1 .. produced) \cup EventsIn(disk')
  BY <1>1, HeldShapeNext DEF HeldShaped
<1>3. gaveUp \cap (flushed + 1 .. produced) = {}
  BY AccountedFacts, HeldFacts
<1>4. Held' = Held \ gaveUp /\ gaveUp \subseteq Held
  BY <1>2, <1>3, HeldShape DEF HeldShaped
<1> QED BY <1>4, HeldFacts, GiveUpStep

\* A death gives up everything in memory and what it takes from the disk.
LEMMA DieGivesUp ==
  ASSUME TypeOK, TypeOK', Accounted, Die, EventsIn(disk') \subseteq EventsIn(disk),
         UNCHANGED ingested
  PROVE  Promise!Next
<1> DEFINE gaveUp == InMemory \cup (EventsIn(disk) \ EventsIn(disk'))
<1>1. body'.events = {} /\ flushed' = produced /\ produced' = produced /\ produced \in Nat
  BY DEF Die, EndCall, NoBody, TypeOK
<1>2. flushed' + 1 .. produced' = {}
  BY <1>1
<1>3. Held' = EventsIn(disk')
  BY <1>1, <1>2, HeldShapeNext DEF HeldShaped
<1>4. InMemory = (flushed + 1 .. produced) \cup body.events
  BY MemoryShape DEF InMemory
<1>5. InMemory \cap EventsIn(disk) = {}
  BY <1>4, AccountedFacts, HeldFacts
<1>6. Held = InMemory \cup EventsIn(disk)
  BY DEF Held
<1>7. Held' = Held \ gaveUp /\ gaveUp \subseteq Held
  BY <1>3, <1>5, <1>6
<1>8. lost' = lost \cup gaveUp
  BY DEF Die
<1> HIDE DEF gaveUp
<1> QED BY <1>1, <1>7, <1>8, HeldFacts, GiveUpStep

\* A step that moves events between the batch, the body and the disk.
LEMMA MoveStep ==
  ASSUME TypeOK, TypeOK',
         (flushed' + 1 .. produced) \cup body'.events \cup EventsIn(disk')
           = (flushed + 1 .. produced) \cup body.events \cup EventsIn(disk),
         UNCHANGED <<produced, ingested, lost>>
  PROVE  UNCHANGED seen
BY HeldShape, HeldShapeNext DEF HeldShaped, seen

\* Every step of the agent is a step of Delivery or invisible to it.
LEMMA RefinementStep ==
  TypeOK /\ TypeOK' /\ Accounted /\ [Next]_vars => Promise!Next \/ UNCHANGED seen
<1> SUFFICES ASSUME TypeOK, TypeOK', Accounted, [Next]_vars
             PROVE  Promise!Next \/ UNCHANGED seen
  OBVIOUS
<1> USE DEF processVars, collectorVars, countVars, senderVars, serverVars
<1>1. CASE Start \/ Signal \/ DrainEnd \/ PostRejected \/ PostUnanswered \/ Network
  BY <1>1, MoveStep DEF Start, Signal, DrainEnd, PostRejected, PostUnanswered, Network
<1>2. CASE Exit
  BY <1>2, DieGivesUp DEF Exit, Die
<1>3. CASE Crash
  BY <1>3, CrashDisk, DieGivesUp DEF Crash, Die
<1>4. ASSUME NEW c \in Collectors, CollectorTick(c) \/ CollectorStop(c)
      PROVE  UNCHANGED seen
  BY <1>4, MoveStep DEF CollectorTick, CollectorStop
<1>5. ASSUME NEW c \in Collectors, CollectorSend(c) PROVE Promise!Next
  <2>1. /\ produced' = produced + 1 /\ UNCHANGED <<ingested, lost, flushed, body, disk>>
        /\ produced \in Nat /\ flushed \in Nat /\ flushed <= produced
    BY <1>5 DEF CollectorSend, TypeOK
  <2>2. flushed + 1 .. produced + 1 = (flushed + 1 .. produced) \cup {produced + 1}
    BY <2>1
  <2>3. Held' = Held \cup {produced + 1}
    BY <2>1, <2>2, HeldShape, HeldShapeNext DEF HeldShaped
  <2>4. Promise!Create({})
    BY <2>1, <2>3 DEF Promise!Create
  <2> QED BY <2>4 DEF Promise!Next
<1>6. CASE TakeEvent
  BY <1>6, MoveStep DEF TakeEvent
<1>7. CASE TakeEventAndSend \/ Tick \/ SenderStop
  <2>1. /\ flushed \in Nat /\ taken \in Nat /\ produced \in Nat
        /\ flushed <= taken /\ taken <= produced /\ body.events = {}
    BY <1>7, MemoryShape DEF TypeOK, TakeEventAndSend, Tick, SenderStop
  <2>2. flushed' \in flushed .. produced /\ body'.events = flushed + 1 .. flushed'
    <3>1. CASE TakeEventAndSend
      BY <2>1, <3>1 DEF TakeEventAndSend, BeginPost, Payload
    <3>2. CASE flushed < taken /\ (Tick \/ SenderStop)
      BY <2>1, <3>2 DEF Tick, SenderStop, BeginPost, Payload, RawArray, batch
    <3>3. CASE ~(flushed < taken) /\ (Tick \/ SenderStop)
      <4>1. flushed' = flushed /\ body' = body
        BY <2>1, <3>3 DEF Tick, SenderStop
      <4>2. flushed + 1 .. flushed = {} /\ flushed \in flushed .. produced
        BY <2>1
      <4>3. body'.events = {}
        BY <2>1, <4>1
      <4>4. flushed' \in flushed .. produced
        BY <4>1, <4>2
      <4>5. flushed + 1 .. flushed' = {}
        BY <4>1, <4>2
      <4> QED BY <4>3, <4>4, <4>5
    <3> QED BY <1>7, <3>1, <3>2, <3>3
  <2>3. (flushed + 1 .. flushed') \cup (flushed' + 1 .. produced) = flushed + 1 .. produced
    BY <2>1, <2>2
  <2>4. UNCHANGED <<produced, disk, ingested, lost>>
    BY <1>7 DEF TakeEventAndSend, Tick, SenderStop
  <2> QED BY <2>1, <2>2, <2>3, <2>4, MoveStep
<1>8. CASE DrainTake
  <2>1. /\ disk \in Seq(Body) /\ disk # <<>> /\ body.events = {}
        /\ body' = Head(disk) /\ disk' = Tail(disk)
        /\ UNCHANGED <<flushed, produced, ingested, lost>>
    BY <1>8, AccountedFacts DEF DrainTake, BeginPost
  <2>2. EventsIn(disk) = body'.events \cup EventsIn(disk')
    BY <2>1, TakeKeeps
  <2> QED BY <2>1, <2>2, MoveStep
<1>9. CASE PostOk
  <2>1. /\ ingested' = ingested \cup body.events
        /\ body'.events = {} /\ UNCHANGED <<produced, flushed, disk, lost>>
    BY <1>9 DEF PostOk, Ingest, EndCall, NoBody
  <2>2. /\ body.events \subseteq 1 .. produced
        /\ body.events \cap ((flushed + 1 .. produced) \cup EventsIn(disk)) = {}
    BY AccountedFacts, HeldFacts
  <2>3. Held' = Held \ body.events
    BY <2>1, <2>2, HeldShape, HeldShapeNext DEF HeldShaped
  <2> QED BY <2>1, <2>2, <2>3, ArriveStep
<1>10. CASE Enqueue
  <2>1. Disjoint(disk) /\ body.events \cap EventsIn(disk) = {}
    BY AccountedFacts
  <2>2. PICK gaveUp \in SUBSET (EventsIn(disk) \cup body.events) :
          /\ EventsIn(disk') = (EventsIn(disk) \cup body.events) \ gaveUp
          /\ lost' = lost \cup gaveUp
    BY <1>10, <2>1, EnqueueMoves
  <2> QED BY <1>10, <2>1, <2>2, EnqueueMoves, SaveGivesUp
<1>11. ASSUME NEW b \in adrift, LateIngest(b) PROVE Promise!Next
  <2>1. b.events \subseteq 1 .. produced
    BY AccountedFacts, HeldFacts
  <2>2. /\ ingested' = ingested \cup b.events
        /\ UNCHANGED <<produced, flushed, body, disk, lost>>
    BY <1>11 DEF LateIngest, Ingest
  <2>3. Held' = Held
    BY <2>2, HeldShape, HeldShapeNext DEF HeldShaped
  <2> QED BY <2>1, <2>2, <2>3, ArriveStep
<1>12. ASSUME NEW b \in adrift, RequestVanishes(b) PROVE UNCHANGED seen
  BY <1>12, MoveStep DEF RequestVanishes
<1>13. CASE UNCHANGED vars
  BY <1>13, MoveStep DEF vars
<1> QED
  BY <1>1, <1>2, <1>3, <1>4, <1>5, <1>6, <1>7, <1>8, <1>9, <1>10, <1>11, <1>12, <1>13
  DEF Next, Post

\* The agent implements Delivery: an event is held until it has arrived or has
\* been given up, and nothing the server has is taken back.
THEOREM AgentKeepsPromise == Spec => KeepsPromise
<1>1. Init => Promise!Init
  <2> SUFFICES ASSUME Init PROVE Promise!Init
    OBVIOUS
  <2>1. /\ produced = 0 /\ taken = 0 /\ flushed = 0 /\ body.events = {}
        /\ EventsIn(disk) = {} /\ ingested = {} /\ lost = {}
    BY DEF Init, Idle, NoBody, EventsIn
  <2>2. eventCh = {} /\ batch = {}
    BY <2>1 DEF eventCh, batch
  <2> QED BY <2>1, <2>2 DEF Promise!Init, Held, InMemory
<1>2. TypeOK /\ TypeOK' /\ Accounted /\ [Next]_vars => [Promise!Next]_(Promise!vars)
  BY RefinementStep DEF seen, Promise!vars
<1> QED BY <1>1, <1>2, TypeCorrect, AccountedAlways, PTL
        DEF Spec, KeepsPromise, Promise!Spec
=============================================================================
