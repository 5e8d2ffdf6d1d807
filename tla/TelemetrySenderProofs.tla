------------------------ MODULE TelemetrySenderProofs ------------------------
(***************************************************************************)
(* Proofs about TelemetrySender: its type invariant, that an event is held *)
(* once, that a second commit of it needs an exchange which did not end in *)
(* a 202, and that the Python agent implements Delivery.                   *)
(***************************************************************************)
EXTENDS TelemetrySender, SequenceTheorems, TLAPS

Distinct(s) == \A i, j \in DOMAIN s : i # j => s[i] # s[j]

-----------------------------------------------------------------------------
(* The list operations of queue_event and flush.                            *)

\* The empty queue holds no event.
LEMMA EmptyQueue == EventsIn(<<>>) = {} /\ Distinct(<<>>)
BY DEF EventsIn, Distinct

\* What two lists hold together.
LEMMA JoinedQueues ==
  ASSUME NEW S, NEW s \in Seq(S), NEW t \in Seq(S)
  PROVE  /\ s \o t \in Seq(S)
         /\ EventsIn(s \o t) = EventsIn(s) \cup EventsIn(t)
         /\ Distinct(s \o t) <=>
              Distinct(s) /\ Distinct(t) /\ EventsIn(s) \cap EventsIn(t) = {}
<1> DEFINE m == Len(s)
           n == Len(t)
           u == s \o t
<1>1. m \in Nat /\ n \in Nat /\ DOMAIN s = 1 .. m /\ DOMAIN t = 1 .. n
  OBVIOUS
<1>2. /\ u \in Seq(S) /\ DOMAIN u = 1 .. m + n
      /\ \A i \in 1 .. m : u[i] = s[i]
      /\ \A i \in 1 .. n : i + m \in 1 .. m + n /\ u[i + m] = t[i]
  BY <1>1, ConcatProperties
<1>3. \A i \in 1 .. m + n : i \in 1 .. m \/ (i - m \in 1 .. n /\ u[i] = t[i - m])
  BY <1>1, <1>2
<1> HIDE DEF m, n, u
<1>4. EventsIn(u) = EventsIn(s) \cup EventsIn(t)
  <2>1. ASSUME NEW e \in EventsIn(u) PROVE e \in EventsIn(s) \cup EventsIn(t)
    BY <1>1, <1>2, <1>3 DEF EventsIn
  <2>2. ASSUME NEW e \in EventsIn(s) PROVE e \in EventsIn(u)
    <3>1. PICK i \in 1 .. m : e = s[i]
      BY <1>1 DEF EventsIn
    <3>2. i \in DOMAIN u /\ u[i] = e
      BY <1>1, <1>2, <3>1
    <3> QED BY <3>2 DEF EventsIn
  <2>3. ASSUME NEW e \in EventsIn(t) PROVE e \in EventsIn(u)
    BY <1>1, <1>2 DEF EventsIn
  <2> QED BY <2>1, <2>2, <2>3
<1>5. ASSUME Distinct(u)
      PROVE  Distinct(s) /\ Distinct(t) /\ EventsIn(s) \cap EventsIn(t) = {}
  <2>1. Distinct(s)
    BY <1>1, <1>2, <1>5 DEF Distinct
  <2>2. Distinct(t)
    <3> SUFFICES ASSUME NEW i \in 1 .. n, NEW j \in 1 .. n, i # j PROVE t[i] # t[j]
      BY <1>1 DEF Distinct
    <3>1. i + m # j + m
      BY <1>1
    <3> QED BY <1>2, <1>5, <3>1 DEF Distinct
  <2>3. ASSUME NEW i \in 1 .. m, NEW j \in 1 .. n PROVE s[i] # t[j]
    <3>1. i \in DOMAIN u /\ j + m \in DOMAIN u /\ i # j + m
      BY <1>1, <1>2
    <3> QED BY <1>2, <1>5, <3>1 DEF Distinct
  <2> QED BY <1>1, <2>1, <2>2, <2>3 DEF EventsIn
<1>6. ASSUME Distinct(s), Distinct(t), EventsIn(s) \cap EventsIn(t) = {}
      PROVE  Distinct(u)
  <2> SUFFICES ASSUME NEW i \in 1 .. m + n, NEW j \in 1 .. m + n, i # j PROVE u[i] # u[j]
    BY <1>2 DEF Distinct
  <2>1. \A k \in 1 .. m, l \in 1 .. n : s[k] # t[l]
    BY <1>1, <1>6 DEF EventsIn
  <2>2. CASE i \in 1 .. m /\ j \in 1 .. m
    BY <1>1, <1>2, <1>6, <2>2 DEF Distinct
  <2>3. CASE i \in 1 .. m /\ j \notin 1 .. m
    BY <1>2, <1>3, <2>1, <2>3
  <2>4. CASE i \notin 1 .. m /\ j \in 1 .. m
    BY <1>2, <1>3, <2>1, <2>4
  <2>5. CASE i \notin 1 .. m /\ j \notin 1 .. m
    <3>1. i - m \in 1 .. n /\ j - m \in 1 .. n /\ i - m # j - m
      BY <1>1, <1>3, <2>5
    <3> QED BY <1>1, <1>3, <1>6, <2>5, <3>1 DEF Distinct
  <2> QED BY <2>2, <2>3, <2>4, <2>5
<1> QED BY <1>2, <1>4, <1>5, <1>6 DEF u

\* An event at the end of the queue.
LEMMA AppendedEvent ==
  ASSUME NEW S, NEW s \in Seq(S), NEW e \in S
  PROVE  /\ Append(s, e) \in Seq(S) /\ Append(s, e) # <<>>
         /\ Append(s, e)[Len(Append(s, e))] = e
         /\ EventsIn(Append(s, e)) = EventsIn(s) \cup {e}
         /\ Distinct(s) /\ e \notin EventsIn(s) => Distinct(Append(s, e))
<1>1. Len(s) \in Nat /\ DOMAIN s = 1 .. Len(s)
  OBVIOUS
<1>2. /\ Append(s, e) \in Seq(S) /\ Len(Append(s, e)) = Len(s) + 1
      /\ DOMAIN Append(s, e) = 1 .. Len(s) + 1
      /\ \A i \in 1 .. Len(s) : Append(s, e)[i] = s[i]
      /\ Append(s, e)[Len(s) + 1] = e
  BY AppendProperties
<1>3. 1 .. Len(s) + 1 = (1 .. Len(s)) \cup {Len(s) + 1}
  BY <1>1
<1>4. EventsIn(Append(s, e)) = EventsIn(s) \cup {e}
  BY <1>1, <1>2, <1>3 DEF EventsIn
<1>5. ASSUME Distinct(s), e \notin EventsIn(s) PROVE Distinct(Append(s, e))
  BY <1>1, <1>2, <1>3, <1>5 DEF Distinct, EventsIn
<1>6. Append(s, e) # <<>>
  BY <1>1, <1>2
<1> QED BY <1>2, <1>4, <1>5, <1>6

\* The trim keeps a part of the queue, with its last event.
LEMMA TrimmedQueue ==
  ASSUME NEW S, NEW s \in Seq(S), s # <<>>
  PROVE  /\ Trim(s) \in Seq(S)
         /\ EventsIn(Trim(s)) \subseteq EventsIn(s)
         /\ s[Len(s)] \in EventsIn(Trim(s))
         /\ Distinct(s) => Distinct(Trim(s))
<1> USE SenderAssumption
<1>1. Len(s) \in Nat \ {0} /\ DOMAIN s = 1 .. Len(s)
  OBVIOUS
<1>2. CASE Len(s) <= MaxQueue
  <2>1. Trim(s) = s
    <3>1. SubSeq(s, 1, Len(s)) = s
      BY SubSeqFull
    <3>2. ~(Len(s) > MaxQueue)
      BY <1>1, <1>2
    <3>3. LastOf(s, MaxQueue) = s
      BY <3>1, <3>2, Zenon DEF LastOf
    <3> QED BY <3>3, Zenon DEF Trim
  <2> QED BY <1>1, <2>1 DEF EventsIn
<1>3. CASE Len(s) > MaxQueue
  <2> DEFINE k == Len(s) - MaxQueue
             r == Trim(s)
  <2>1. k \in Nat /\ k + MaxQueue = Len(s)
    BY <1>1, <1>3
  <2>2. r = SubSeq(s, k + 1, Len(s))
    BY <1>1, <1>3 DEF Trim, LastOf
  <2>3. /\ r \in Seq(S) /\ DOMAIN r = 1 .. MaxQueue
        /\ \A i \in 1 .. MaxQueue : i + k \in 1 .. Len(s) /\ r[i] = s[i + k]
    <3>1. \A i \in 1 .. MaxQueue : i + k \in 1 .. Len(s) /\ s[i + k] \in S
      BY <1>1, <2>1
    <3>2. r = [i \in 1 .. MaxQueue |-> s[i + k]]
      BY <1>1, <2>1, <2>2
    <3> HIDE DEF r, k
    <3>3. r \in Seq(S) /\ Len(r) = MaxQueue
      BY <3>1, <3>2, IsASeq
    <3> QED BY <3>1, <3>2, <3>3
  <2> HIDE DEF r, k
  <2>4. EventsIn(r) \subseteq EventsIn(s)
    BY <1>1, <2>3 DEF EventsIn
  <2>5. s[Len(s)] \in EventsIn(r)
    <3>1. r[MaxQueue] = s[Len(s)] /\ MaxQueue \in DOMAIN r
      BY <2>1, <2>3
    <3> QED BY <3>1 DEF EventsIn
  <2>6. ASSUME Distinct(s) PROVE Distinct(r)
    <3> SUFFICES ASSUME NEW i \in 1 .. MaxQueue, NEW j \in 1 .. MaxQueue, i # j
                 PROVE  r[i] # r[j]
      BY <2>3 DEF Distinct
    <3>1. i + k # j + k
      BY <2>1
    <3> QED BY <1>1, <2>3, <2>6, <3>1 DEF Distinct
  <2> QED BY <2>3, <2>4, <2>5, <2>6 DEF r
<1> QED BY <1>1, <1>2, <1>3

-----------------------------------------------------------------------------
(* The invariant.  HeldOnce is split between the queue and the flight; that *)
(* a second commit needs a lost reply rests on two facts: what the agent    *)
(* still holds of the committed events is unsure, and so is what a request  *)
(* without an answer carries.                                               *)

Parts ==
  /\ Distinct(queue) /\ Distinct(flight)
  /\ EventsIn(queue) \cap EventsIn(flight) = {}

SenderInv ==
  /\ TypeOK
  /\ Parts
  /\ DuplicateNeedsLostReply
  /\ \A events \in adrift : events \subseteq unsure

\* The queue and the flight hold events that have been queued.
LEMMA HeldMade ==
  ASSUME TypeOK
  PROVE  /\ EventsIn(queue) \subseteq 1 .. made /\ EventsIn(flight) \subseteq 1 .. made
         /\ Held \subseteq 1 .. made
BY DEF TypeOK, EventsIn, Held

\* The invariant implies that an event is held once.
LEMMA PartsHeldOnce ==
  ASSUME SenderInv
  PROVE  HeldOnce
<1>1. Distinct(queue \o flight)
  BY JoinedQueues DEF SenderInv, TypeOK, Parts
<1> QED BY <1>1 DEF HeldOnce, Distinct

\* At first nothing is held.
LEMMA SenderInitial ==
  ASSUME Init
  PROVE  SenderInv
<1>1. TypeOK
  BY DEF Init, TypeOK
<1> QED
  BY <1>1, EmptyQueue DEF Init, SenderInv, Parts, DuplicateNeedsLostReply, Held

\* A new event is in nobody's hands yet; the trim only lets go of others.
LEMMA QueueEventStep ==
  ASSUME SenderInv, QueueEvent
  PROVE  /\ SenderInv'
         /\ EventsIn(queue') \subseteq EventsIn(queue) \cup {made'}
         /\ made' \in EventsIn(queue')
<1> DEFINE S == 1 .. made'
           s == Append(queue, made')
<1>1. made \in Nat /\ made' = made + 1 /\ flight' = flight /\ up' = up /\ up
  BY DEF SenderInv, TypeOK, QueueEvent
<1>2. 1 .. made \subseteq S /\ made' \in S /\ made' \notin 1 .. made
  BY <1>1
<1> HIDE DEF S
<1>3. queue \in Seq(S) /\ flight \in Seq(S)
  BY <1>2 DEF SenderInv, TypeOK
<1>4. made' \notin EventsIn(queue) /\ made' \notin EventsIn(flight)
  BY <1>2, HeldMade DEF SenderInv
<1>5. /\ s \in Seq(S) /\ s # <<>> /\ s[Len(s)] = made'
      /\ EventsIn(s) = EventsIn(queue) \cup {made'}
      /\ Distinct(s)
  BY <1>2, <1>3, <1>4, AppendedEvent DEF SenderInv, Parts
<1> HIDE DEF s
<1>6. /\ queue' \in Seq(S)
      /\ EventsIn(queue') \subseteq EventsIn(queue) \cup {made'}
      /\ made' \in EventsIn(queue')
      /\ Distinct(queue')
  BY <1>5, TrimmedQueue DEF QueueEvent, s
<1>7. TypeOK'
  <2>1. lost' \subseteq S
    BY <1>2, HeldMade DEF QueueEvent, SenderInv, TypeOK
  <2>2. /\ server' \in {"production", "development", "local"}
        /\ up' \in BOOLEAN /\ reachable' \in BOOLEAN /\ starts' \in Nat
    BY DEF QueueEvent, SenderInv, TypeOK
  <2>3. /\ adrift' \subseteq SUBSET S
        /\ ingested' \subseteq S /\ repeated' \subseteq ingested'
        /\ unsure' \subseteq S
    BY <1>2 DEF QueueEvent, SenderInv, TypeOK, serverVars
  <2> QED BY <1>1, <1>3, <1>6, <2>1, <2>2, <2>3 DEF TypeOK, S
<1>8. Parts'
  BY <1>1, <1>4, <1>6 DEF SenderInv, Parts
<1>9. DuplicateNeedsLostReply'
  <2>1. ingested' = ingested /\ repeated' = repeated /\ unsure' = unsure
    BY DEF QueueEvent, serverVars
  <2>2. made' \notin ingested
    BY <1>2 DEF SenderInv, TypeOK
  <2>3. Held' \subseteq Held \cup {made'}
    BY <1>1, <1>6 DEF Held
  <2> QED BY <2>1, <2>2, <2>3 DEF SenderInv, DuplicateNeedsLostReply
<1> QED BY <1>6, <1>7, <1>8, <1>9 DEF SenderInv, QueueEvent

\* A failed flush puts back what it took; what was queued meanwhile differs.
LEMMA RequeueKeeps ==
  ASSUME SenderInv, Requeue, made' = made
  PROVE  /\ queue' \in Seq(1 .. made') /\ flight' = <<>>
         /\ Parts' /\ Held' = Held
<1>1. /\ queue \o flight \in Seq(1 .. made)
      /\ EventsIn(queue \o flight) = EventsIn(queue) \cup EventsIn(flight)
      /\ Distinct(queue \o flight)
  BY JoinedQueues DEF SenderInv, TypeOK, Parts
<1> QED
  BY <1>1, EmptyQueue DEF Requeue, Parts, Held

\* A request that is given up leaves only unsure events adrift.
LEMMA AbandonKeeps ==
  ASSUME SenderInv, Abandon
  PROVE  /\ adrift' \subseteq SUBSET (1 .. made) /\ unsure' \subseteq 1 .. made
         /\ unsure \subseteq unsure'
         /\ \A events \in adrift' : events \subseteq unsure'
<1>1. CASE UNCHANGED <<adrift, unsure>>
  BY <1>1 DEF SenderInv, TypeOK
<1>2. CASE adrift' = adrift \cup {EventsIn(flight)} /\ unsure' = unsure \cup EventsIn(flight)
  BY <1>2, HeldMade DEF SenderInv, TypeOK
<1> QED BY <1>1, <1>2 DEF Abandon

\* A late commit is of unsure events.
LEMMA LateIngestStep ==
  ASSUME SenderInv, NEW events \in adrift, LateIngest(events)
  PROVE  SenderInv'
<1>1. /\ ingested' = ingested \cup events
      /\ repeated' = repeated \cup (ingested \cap events)
      /\ UNCHANGED <<server, up, starts, made, queue, flight, reachable, unsure, lost>>
      /\ adrift' \subseteq adrift
  BY DEF LateIngest, Ingest, agentVars
<1>2. events \subseteq unsure /\ events \subseteq 1 .. made
  BY DEF SenderInv, TypeOK
<1>3. TypeOK'
  BY <1>1, <1>2 DEF SenderInv, TypeOK
<1>4. Parts' /\ Held' = Held
  BY <1>1 DEF SenderInv, Parts, Held
<1>5. DuplicateNeedsLostReply'
  BY <1>1, <1>2, <1>4 DEF SenderInv, DuplicateNeedsLostReply
<1> QED BY <1>1, <1>3, <1>4, <1>5 DEF SenderInv

\* A post that is acknowledged commits the flight, and the agent lets go of it.
LEMMA PostOkStep ==
  ASSUME SenderInv, PostOk
  PROVE  SenderInv'
<1>1. /\ ingested' = ingested \cup EventsIn(flight)
      /\ repeated' = repeated \cup (ingested \cap EventsIn(flight))
      /\ flight' = <<>> /\ queue' = queue
      /\ UNCHANGED <<server, up, starts, made, reachable, adrift, unsure, lost>>
  BY DEF PostOk, Ingest, Delivered
<1>2. EventsIn(flight) \subseteq 1 .. made
  BY HeldMade DEF SenderInv
<1>3. TypeOK'
  <2>1. queue' \in Seq(1 .. made) /\ flight' \in Seq(1 .. made)
    BY <1>1 DEF SenderInv, TypeOK
  <2>2. up' \in BOOLEAN /\ (~up' => queue' = <<>> /\ flight' = <<>>)
    BY <1>1 DEF SenderInv, TypeOK
  <2>3. /\ ingested' \subseteq 1 .. made /\ repeated' \subseteq ingested'
        /\ made' = made
    BY <1>1, <1>2 DEF SenderInv, TypeOK
  <2> QED BY <1>1, <2>1, <2>2, <2>3 DEF SenderInv, TypeOK
<1>4. Parts' /\ Held' = EventsIn(queue)
  BY <1>1, EmptyQueue DEF SenderInv, Parts, Held
<1>5. DuplicateNeedsLostReply'
  BY <1>1, <1>4 DEF SenderInv, DuplicateNeedsLostReply, Parts, Held
<1> QED BY <1>1, <1>3, <1>4, <1>5 DEF SenderInv

\* Any other answer: the flight is put back, and is unsure if it was committed.
LEMMA PostOtherStep ==
  ASSUME SenderInv, PostOther
  PROVE  SenderInv'
<1>1. /\ Requeue
      /\ UNCHANGED <<server, up, starts, made, reachable, adrift, lost>>
  BY DEF PostOther
<1>2. /\ queue' \in Seq(1 .. made') /\ flight' = <<>>
      /\ Parts' /\ Held' = Held
  BY <1>1, RequeueKeeps
<1>3. flight # <<>> /\ up
  BY DEF PostOther, SenderInv, TypeOK
<1>4. EventsIn(flight) \subseteq 1 .. made
  BY HeldMade DEF SenderInv
<1>5. /\ ingested' \subseteq 1 .. made /\ repeated' \subseteq ingested'
      /\ unsure' \subseteq 1 .. made /\ unsure \subseteq unsure'
      /\ repeated' \subseteq unsure' /\ Held \cap ingested' \subseteq unsure'
  <2>1. CASE Commits(EventsIn(flight))
    <3>1. /\ ingested' = ingested \cup EventsIn(flight)
          /\ repeated' = repeated \cup (ingested \cap EventsIn(flight))
          /\ unsure' = unsure \cup EventsIn(flight)
      BY <2>1 DEF PostOther, Ingest
    <3> QED BY <1>4, <3>1 DEF SenderInv, TypeOK, DuplicateNeedsLostReply
  <2>2. CASE ~Commits(EventsIn(flight))
    BY <2>2 DEF PostOther, serverVars, SenderInv, TypeOK, DuplicateNeedsLostReply
  <2> QED BY <2>1, <2>2
<1>6. TypeOK'
  BY <1>1, <1>2, <1>3, <1>5 DEF SenderInv, TypeOK
<1> QED BY <1>1, <1>2, <1>5, <1>6 DEF SenderInv, DuplicateNeedsLostReply

\* No answer: the flight is put back.
LEMMA PostRaisesStep ==
  ASSUME SenderInv, PostRaises
  PROVE  SenderInv'
<1>1. /\ Abandon /\ Requeue
      /\ UNCHANGED <<server, up, starts, made, reachable, ingested, repeated, lost>>
  BY DEF PostRaises, serverVars
<1>2. /\ queue' \in Seq(1 .. made') /\ flight' = <<>>
      /\ Parts' /\ Held' = Held
  BY <1>1, RequeueKeeps
<1>3. flight # <<>> /\ up
  BY DEF PostRaises, SenderInv, TypeOK
<1>4. TypeOK'
  BY <1>1, <1>2, <1>3, AbandonKeeps DEF SenderInv, TypeOK
<1>5. DuplicateNeedsLostReply'
  BY <1>1, <1>2, AbandonKeeps DEF SenderInv, DuplicateNeedsLostReply
<1> QED BY <1>1, <1>2, <1>4, <1>5, AbandonKeeps DEF SenderInv

\* The end of the agent loses what it holds.
LEMMA StopStep ==
  ASSUME SenderInv, Stop
  PROVE  SenderInv' /\ Held' = {}
<1>1. /\ Abandon /\ up' = FALSE /\ queue' = <<>> /\ flight' = <<>>
      /\ lost' = lost \cup Held
      /\ UNCHANGED <<server, starts, made, reachable, ingested, repeated>>
  BY DEF Stop, Gone, serverVars
<1>2. Parts' /\ Held' = {}
  BY <1>1, EmptyQueue DEF Parts, Held
<1>3. TypeOK'
  <2>1. queue' \in Seq(1 .. made) /\ flight' \in Seq(1 .. made)
    BY <1>1
  <2>2. up' \in BOOLEAN /\ (~up' => queue' = <<>> /\ flight' = <<>>)
    BY <1>1
  <2>3. /\ lost' \subseteq 1 .. made /\ made' = made
        /\ adrift' \subseteq SUBSET (1 .. made) /\ unsure' \subseteq 1 .. made
    BY <1>1, AbandonKeeps, HeldMade DEF SenderInv, TypeOK
  <2> QED BY <1>1, <2>1, <2>2, <2>3 DEF SenderInv, TypeOK
<1>4. DuplicateNeedsLostReply'
  BY <1>1, <1>2, AbandonKeeps DEF SenderInv, DuplicateNeedsLostReply
<1> QED BY <1>1, <1>2, <1>3, <1>4, AbandonKeeps DEF SenderInv

\* Steps that move no event between the agent and the server.
LEMMA QuietStep ==
  ASSUME SenderInv,
         \/ Flush \/ Start \/ Network \/ UNCHANGED vars
         \/ \E events \in adrift : RequestVanishes(events)
  PROVE  SenderInv' /\ Held' = Held
<1>1. CASE Flush
  <2>1. /\ flight = <<>> /\ flight' = queue /\ queue' = <<>> /\ up
        /\ UNCHANGED <<server, up, starts, made, reachable, adrift, ingested, repeated,
                       unsure, lost>>
    BY <1>1 DEF Flush, serverVars
  <2>2. Parts' /\ Held' = Held
    BY <2>1, EmptyQueue DEF SenderInv, Parts, Held
  <2>3. TypeOK'
    BY <2>1 DEF SenderInv, TypeOK
  <2> QED BY <2>1, <2>2, <2>3 DEF SenderInv, DuplicateNeedsLostReply
<1>2. CASE Start
  BY <1>2 DEF Start, SenderInv, TypeOK, Parts, DuplicateNeedsLostReply, Held, serverVars
<1>3. CASE Network
  BY <1>3
  DEF Network, SenderInv, TypeOK, Parts, DuplicateNeedsLostReply, Held, serverVars, agentVars
<1>4. ASSUME NEW events \in adrift, RequestVanishes(events) PROVE SenderInv' /\ Held' = Held
  BY <1>4
  DEF RequestVanishes, SenderInv, TypeOK, Parts, DuplicateNeedsLostReply, Held, serverVars,
      agentVars
<1>5. CASE UNCHANGED vars
  BY <1>5
  DEF vars, SenderInv, TypeOK, Parts, DuplicateNeedsLostReply, Held, serverVars, agentVars
<1> QED BY <1>1, <1>2, <1>3, <1>4, <1>5

\* Every step keeps the invariant.
LEMMA SenderStep == SenderInv /\ [Next]_vars => SenderInv'
<1> SUFFICES ASSUME SenderInv, [Next]_vars PROVE SenderInv'
  OBVIOUS
<1> QED
  BY QueueEventStep, LateIngestStep, PostOkStep, PostOtherStep, PostRaisesStep, StopStep,
     QuietStep
  DEF Next

\* The invariant holds in every state of the agent.
LEMMA SenderInvariant == Spec => []SenderInv
BY SenderInitial, SenderStep, PTL DEF Spec

\* Queue, flight and requests always hold events that have been queued, and an
\* agent that is down holds none.
THEOREM TypeCorrect == Spec => []TypeOK
<1>1. SenderInv => TypeOK
  BY DEF SenderInv
<1> QED BY <1>1, SenderInvariant, PTL

\* However a failed flush meets the events queued during its await, the agent
\* holds an event once.
THEOREM HeldInOnePlace == Spec => []HeldOnce
<1>1. SenderInv => HeldOnce
  BY PartsHeldOnce
<1> QED BY <1>1, SenderInvariant, PTL

\* The server commits an event twice only after an exchange that did not end
\* in a 202 although it may have been committed.
THEOREM DuplicatesNeedLostReply == Spec => []DuplicateNeedsLostReply
<1>1. SenderInv => DuplicateNeedsLostReply
  BY DEF SenderInv
<1> QED BY <1>1, SenderInvariant, PTL

-----------------------------------------------------------------------------
(* The refinement of Delivery.                                              *)

\* A new event pushes out what the trim lets go of.
LEMMA CreateStep ==
  ASSUME SenderInv, QueueEvent
  PROVE  Promise!Next
<1> DEFINE evicted == EventsIn(queue) \ EventsIn(queue')
<1>1. /\ made' = made + 1 /\ flight' = flight /\ ingested' = ingested
      /\ lost' = lost \cup evicted
  BY DEF QueueEvent, serverVars
<1>2. /\ EventsIn(queue') \subseteq EventsIn(queue) \cup {made'}
      /\ made' \in EventsIn(queue')
  BY QueueEventStep
<1>3. evicted \subseteq Held /\ evicted \in SUBSET (1 .. made)
  BY HeldMade DEF SenderInv, Held
<1>4. EventsIn(queue) \cap EventsIn(flight) = {}
  BY DEF SenderInv, Parts
<1>5. made' \notin EventsIn(queue)
  BY <1>1, HeldMade DEF SenderInv, TypeOK
<1>6. Held' = (Held \ evicted) \cup {made + 1}
  BY <1>1, <1>2, <1>4, <1>5 DEF Held
<1>7. Promise!Create(evicted)
  BY <1>1, <1>3, <1>6 DEF Promise!Create
<1> QED BY <1>3, <1>7 DEF Promise!Next

\* A commit is an arrival, whether the agent learns of it or not.
LEMMA ArriveStep ==
  ASSUME SenderInv, NEW events, events \subseteq 1 .. made,
         ingested' = ingested \cup events, Held' \in {Held, Held \ events},
         made' = made, lost' = lost
  PROVE  Promise!Next
BY DEF Promise!Next, Promise!Arrive

\* Each step of the agent and the server is one of Delivery, or none.
LEMMA DeliveryStep ==
  ASSUME SenderInv, SenderInv', [Next]_vars
  PROVE  [Promise!Next]_(Promise!vars)
<1> DEFINE Still == UNCHANGED <<made, Held, ingested, lost>>
<1>1. Still => UNCHANGED Promise!vars
  BY DEF Promise!vars
<1>2. CASE QueueEvent
  BY <1>2, CreateStep
<1>3. CASE \/ Flush \/ Start \/ Network \/ UNCHANGED vars
           \/ \E events \in adrift : RequestVanishes(events)
  <2>1. Held' = Held
    BY <1>3, QuietStep
  <2>2. UNCHANGED <<made, ingested, lost>>
    BY <1>3 DEF Flush, Start, Network, RequestVanishes, vars, agentVars, serverVars
  <2> QED BY <1>1, <2>1, <2>2
<1>4. CASE PostOk
  <2>1. /\ ingested' = ingested \cup EventsIn(flight)
        /\ flight' = <<>> /\ UNCHANGED <<queue, made, lost>>
    BY <1>4 DEF PostOk, Ingest, Delivered
  <2>2. Held' = Held \ EventsIn(flight)
    BY <2>1, EmptyQueue DEF Held, SenderInv, Parts
  <2> QED BY <2>1, <2>2, HeldMade, ArriveStep DEF SenderInv
<1>5. CASE PostOther
  <2>1. Held' = Held /\ UNCHANGED <<made, lost>>
    BY <1>5, RequeueKeeps DEF PostOther
  <2>2. CASE Commits(EventsIn(flight))
    <3>1. ingested' = ingested \cup EventsIn(flight)
      BY <1>5, <2>2 DEF PostOther, Ingest
    <3> QED BY <2>1, <3>1, HeldMade, ArriveStep DEF SenderInv
  <2>3. CASE ~Commits(EventsIn(flight))
    BY <1>1, <1>5, <2>1, <2>3 DEF PostOther, serverVars
  <2> QED BY <2>2, <2>3
<1>6. CASE PostRaises
  <2>1. Held' = Held /\ UNCHANGED <<made, ingested, lost>>
    BY <1>6, RequeueKeeps DEF PostRaises, serverVars
  <2> QED BY <1>1, <2>1
<1>7. CASE Stop
  <2>1. Held' = {} /\ lost' = lost \cup Held /\ UNCHANGED <<made, ingested>>
    BY <1>7, StopStep DEF Stop, serverVars
  <2>2. Held \in SUBSET (1 .. made)
    BY HeldMade DEF SenderInv
  <2>3. Promise!GiveUp(Held)
    BY <2>1 DEF Promise!GiveUp
  <2> QED BY <2>2, <2>3 DEF Promise!Next
<1>8. ASSUME NEW events \in adrift, LateIngest(events) PROVE Promise!Next
  <2>1. /\ ingested' = ingested \cup events
        /\ UNCHANGED <<made, queue, flight, lost>>
    BY <1>8 DEF LateIngest, Ingest, agentVars
  <2>2. events \subseteq 1 .. made
    BY DEF SenderInv, TypeOK
  <2> QED BY <2>1, <2>2, ArriveStep DEF Held
<1> QED BY <1>2, <1>3, <1>4, <1>5, <1>6, <1>7, <1>8 DEF Next

\* The Python agent implements Delivery: an event is held until it has arrived
\* or has been given up, by the trim or with the process.
THEOREM PythonAgentKeepsPromise == Spec => KeepsPromise
<1>1. Init => Promise!Init
  BY EmptyQueue DEF Init, Promise!Init, Held
<1>2. SenderInv /\ SenderInv' /\ [Next]_vars => [Promise!Next]_(Promise!vars)
  BY DeliveryStep
<1> QED BY <1>1, <1>2, SenderInvariant, PTL DEF Spec, KeepsPromise, Promise!Spec
=============================================================================
