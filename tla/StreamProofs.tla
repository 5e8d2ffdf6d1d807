---------------------------- MODULE StreamProofs ----------------------------
(***************************************************************************)
(* Proofs about the alert stream of Workers: a message is acknowledged     *)
(* only when it has been handled, an alert is stored twice only for the    *)
(* reasons named, and whoever had joined when an alert was committed is    *)
(* told of it if connected to the process that handles the stream.  With   *)
(* the parts of WorkersProofs they give the type invariant of Workers.     *)
(***************************************************************************)
EXTENDS WorkersProofs, WellFoundedInduction

-----------------------------------------------------------------------------
(* What the pipeline makes of a batch: FlattenSeq adds one sequence to the  *)
(* next, so what it has after n of them is shown by induction on n, as a    *)
(* fact about the set of the n it is true of.                               *)

LEMMA SetInduction ==
  ASSUME NEW T, 0 \in T, \A n \in Nat : n \in T => n + 1 \in T
  PROVE  \A n \in Nat : n \in T
<1> DEFINE below == {p \in Nat \X Nat : p[1] < p[2]}
<1> SUFFICES ASSUME NEW k \in Nat \ T PROVE FALSE
  OBVIOUS
<1>1. IsWellFoundedOn(below, Nat)
  BY NatLessThanWellFounded DEF OpToRel
<1>2. PICK n \in Nat \ T : \A m \in Nat \ T : <<m, n>> \notin below
  <2> HIDE DEF below
  <2> QED BY <1>1, WFMin
<1>3. \A m \in Nat \ T : ~(m < n)
  BY <1>2
<1>4. n - 1 \in Nat /\ n - 1 < n /\ (n - 1) + 1 = n
  BY <1>2
<1> QED BY <1>3, <1>4

\* g has the first n sequences of s, one after the other.
Joins(s, g, n) == \A i \in 1 .. n : g[i] = IF i = 1 THEN s[i] ELSE g[i - 1] \o s[i]

LEMMA JoinsExist == ASSUME NEW s PROVE \A n \in Nat : \E g : Joins(s, g, n)
<1> DEFINE T == {n \in Nat : \E g : Joins(s, g, n)}
<1>1. 0 \in T
  BY DEF Joins
<1>2. ASSUME NEW n \in Nat, n \in T PROVE n + 1 \in T
  <2>1. PICK g : Joins(s, g, n)
    BY <1>2
  <2> DEFINE h == [i \in Nat |-> IF i = n + 1
                                 THEN IF i = 1 THEN s[i] ELSE g[i - 1] \o s[i]
                                 ELSE g[i]]
  <2>2. ASSUME NEW i \in 1 .. n + 1
        PROVE  h[i] = IF i = 1 THEN s[i] ELSE h[i - 1] \o s[i]
    <3>1. h[i] = IF i = 1 THEN s[i] ELSE g[i - 1] \o s[i]
      <4>1. CASE i = n + 1
        BY <4>1
      <4>2. CASE i # n + 1
        <5>1. i \in 1 .. n /\ h[i] = g[i]
          BY <4>2
        <5> HIDE DEF h
        <5> QED BY <2>1, <5>1 DEF Joins
      <4> QED BY <4>1, <4>2
    <3>2. i # 1 => h[i - 1] = g[i - 1]
      OBVIOUS
    <3> HIDE DEF h
    <3> QED BY <3>1, <3>2
  <2> HIDE DEF h
  <2>3. Joins(s, h, n + 1)
    BY <2>2 DEF Joins
  <2> QED BY <2>3
<1>3. \A n \in Nat : n \in T
  <2> HIDE DEF T
  <2> QED BY <1>1, <1>2, SetInduction
<1> QED BY <1>3

\* Joining sequences of members of S gives a sequence of members of S.
LEMMA FlattenType ==
  ASSUME NEW S, NEW s \in Seq(Seq(S))
  PROVE  FlattenSeq(s) \in Seq(S)
<1> DEFINE n == Len(s)
           f == CHOOSE f : f = [i \in 1 .. n |-> IF i = 1 THEN s[i] ELSE f[i - 1] \o s[i]]
<1>1. CASE n = 0
  <2>1. FlattenSeq(s) = s /\ s = <<>>
    BY <1>1 DEF FlattenSeq
  <2> QED BY <2>1
<1>2. CASE n # 0
  <2>1. FlattenSeq(s) = f[n]
    BY <1>2, Zenon DEF FlattenSeq
  <2>2. \E h : h = [i \in 1 .. n |-> IF i = 1 THEN s[i] ELSE h[i - 1] \o s[i]]
    <3>0. n \in Nat
      OBVIOUS
    <3>1. PICK g : Joins(s, g, n)
      <4> HIDE DEF n
      <4> QED BY <3>0, JoinsExist
    <3> DEFINE h == [i \in 1 .. n |-> g[i]]
    <3>2. ASSUME NEW i \in 1 .. n
          PROVE  h[i] = IF i = 1 THEN s[i] ELSE h[i - 1] \o s[i]
      <4>1. h[i] = IF i = 1 THEN s[i] ELSE g[i - 1] \o s[i]
        BY <3>1 DEF Joins
      <4>2. i # 1 => h[i - 1] = g[i - 1]
        OBVIOUS
      <4> HIDE DEF h
      <4> QED BY <4>1, <4>2
    <3>3. h = [i \in 1 .. n |-> IF i = 1 THEN s[i] ELSE h[i - 1] \o s[i]]
      BY <3>2
    <3> HIDE DEF h
    <3> QED BY <3>3
  <2>3. f = [i \in 1 .. n |-> IF i = 1 THEN s[i] ELSE f[i - 1] \o s[i]]
    BY <2>2, Zenon
  <2> HIDE DEF f
  <2> DEFINE T == {k \in Nat : k \in 1 .. n => f[k] \in Seq(S)}
  <2>4. 0 \in T
    OBVIOUS
  <2>5. ASSUME NEW k \in Nat, k \in T PROVE k + 1 \in T
    <3> SUFFICES ASSUME k + 1 \in 1 .. n PROVE f[k + 1] \in Seq(S)
      OBVIOUS
    <3>1. s[k + 1] \in Seq(S)
      OBVIOUS
    <3>2. f[k + 1] = IF k + 1 = 1 THEN s[k + 1] ELSE f[(k + 1) - 1] \o s[k + 1]
      BY <2>3
    <3>3. (k + 1) - 1 = k /\ (k + 1 # 1 => k \in 1 .. n)
      OBVIOUS
    <3>4. k + 1 # 1 => f[k] \in Seq(S)
      BY <2>5, <3>3
    <3> QED BY <3>1, <3>2, <3>3, <3>4
  <2>6. \A k \in Nat : k \in T
    <3> HIDE DEF T
    <3> QED BY <2>4, <2>5, SetInduction
  <2>7. n \in Nat /\ n \in 1 .. n
    BY <1>2
  <2>8. n \in T
    BY <2>6, <2>7
  <2> QED BY <2>1, <2>7, <2>8
<1> QED BY <1>1, <1>2

\* A rule's severity is critical, high or medium.
LEMMA RulesAreSevere ==
  /\ Len(SigmaRules) \in Nat
  /\ \A i \in 1 .. Len(SigmaRules) : SigmaRules[i].severity \in Severe
<1> USE DEF SigmaRules, Rule, Severe
<1>1. SigmaRules[1].severity \in Severe
  OBVIOUS
<1>2. SigmaRules[2].severity \in Severe
  OBVIOUS
<1>3. SigmaRules[3].severity \in Severe
  OBVIOUS
<1>4. SigmaRules[4].severity \in Severe
  OBVIOUS
<1>5. SigmaRules[5].severity \in Severe
  OBVIOUS
<1>6. SigmaRules[6].severity \in Severe
  OBVIOUS
<1>7. SigmaRules[7].severity \in Severe
  OBVIOUS
<1>8. SigmaRules[8].severity \in Severe
  OBVIOUS
<1>9. Len(SigmaRules) = 8
  OBVIOUS
<1> HIDE DEF SigmaRules, Rule, Severe
<1>10. \A i \in 1 .. 8 :
        i = 1 \/ i = 2 \/ i = 3 \/ i = 4 \/ i = 5 \/ i = 6 \/ i = 7 \/ i = 8
  OBVIOUS
<1> QED BY <1>1, <1>2, <1>3, <1>4, <1>5, <1>6, <1>7, <1>8, <1>9, <1>10

LEMMA MatchesAreSevere == ASSUME NEW p PROVE MatchProcess(p) \in Seq(Severe)
<1> DEFINE Matched(rule) == \/ rule.names \cap p.name # {}
                            \/ rule.cmdlines \cap p.cmdline # {}
           n == Len(SigmaRules)
           s == [i \in 1 .. n |->
                   IF Matched(SigmaRules[i]) THEN <<SigmaRules[i].severity>> ELSE <<>>]
<1>1. MatchProcess(p) = FlattenSeq(s)
  BY DEF MatchProcess
<1>2. ASSUME NEW i \in 1 .. n PROVE s[i] \in Seq(Severe)
  <2>1. SigmaRules[i].severity \in Severe
    BY RulesAreSevere
  <2> HIDE DEF Matched
  <2> QED BY <2>1
<1>3. s \in Seq(Seq(Severe))
  <2>1. s = [i \in 1 .. n |-> s[i]]
    OBVIOUS
  <2> HIDE DEF s
  <2>2. s \in [1 .. n -> Seq(Severe)] /\ n \in Nat
    BY <1>2, <2>1, RulesAreSevere
  <2> HIDE DEF n
  <2> QED BY <2>2
<1> HIDE DEF s
<1> QED BY <1>1, <1>3, FlattenType

\* A score that counts as an anomaly is no low risk.
LEMMA AnomaliesAreSevere ==
  ASSUME NEW m, Anomalous(AnomalyScore(m))
  PROVE  RiskLevel(AnomalyScore(m)) \in Severe
BY DEF Anomalous, AnomalyScore, RiskLevel, Severe

\* Rules, scores and thresholds agree: whatever events a message holds, the
\* pipeline creates no alert that is low or informational for them.
THEOREM NoMinorAlerts ==
  \A p \in Seq(Events) : ProcessTelemetryBatch(p) \in Seq(Severe \cup {"raise"})
<1> DEFINE Item == Severe \cup {"raise"}
<1>1. ASSUME NEW e PROVE AlertsOf(e) \in Seq(Item)
  <2> DEFINE matches == IF e.type \in {"process_alert", "detection"}
                        THEN MatchProcess(e.details) ELSE <<>>
             score == AnomalyScore(e.details)
  <2>1. matches \in Seq(Item)
    <3>1. MatchProcess(e.details) \in Seq(Severe)
      BY MatchesAreSevere
    <3>2. MatchProcess(e.details) \in Seq(Item)
      BY <3>1
    <3> QED BY <3>2
  <2>2. Anomalous(score) => RiskLevel(score) \in Item
    BY AnomaliesAreSevere
  <2>3. e.severity \in {"critical", "high", "medium"} => e.severity \in Item
    BY DEF Severe
  <2>4. \/ AlertsOf(e) = <<"raise">> \/ AlertsOf(e) = <<>> \/ AlertsOf(e) = matches
        \/ Anomalous(score) /\ AlertsOf(e) = <<RiskLevel(score)>>
        \/ e.severity \in {"critical", "high", "medium"} /\ AlertsOf(e) = <<e.severity>>
    <3> USE DEF AlertsOf
    <3>1. CASE e.type = "malformed"
      BY <3>1
    <3>2. CASE e.type # "malformed" /\ e.type = "system_metrics" /\ e.severity = "info"
      BY <3>2
    <3>3. CASE e.type # "malformed" /\ ~(e.type = "system_metrics" /\ e.severity = "info")
      <4> HIDE DEF matches, score
      <4>1. AlertsOf(e) = IF matches # <<>> THEN matches
                          ELSE IF e.severity \in {"critical", "high", "medium"}
                               THEN <<e.severity>> ELSE <<>>
        BY <3>3, Zenon DEF matches
      <4> HIDE DEF AlertsOf
      <4> QED BY <4>1
    <3> QED BY <3>1, <3>2, <3>3
  <2> HIDE DEF matches, score
  <2>5. "raise" \in Item
    OBVIOUS
  <2> HIDE DEF Item
  <2>6. <<"raise">> \in Seq(Item) /\ <<>> \in Seq(Item)
    BY <2>5
  <2>7. Anomalous(score) => <<RiskLevel(score)>> \in Seq(Item)
    BY <2>2
  <2>8. e.severity \in {"critical", "high", "medium"} => <<e.severity>> \in Seq(Item)
    BY <2>3
  <2> QED BY <2>1, <2>4, <2>6, <2>7, <2>8
<1>2. ASSUME NEW p \in Seq(Events) PROVE ProcessTelemetryBatch(p) \in Seq(Item)
  <2> DEFINE s == [i \in DOMAIN p |-> AlertsOf(p[i])]
  <2>1. s \in Seq(Seq(Item))
    <3>1. Len(p) \in Nat /\ DOMAIN p = 1 .. Len(p)
      OBVIOUS
    <3>2. \A i \in 1 .. Len(p) : AlertsOf(p[i]) \in Seq(Item)
      BY <1>1
    <3> HIDE DEF Item
    <3> QED BY <3>1, <3>2
  <2> HIDE DEF Item, s
  <2>2. FlattenSeq(s) \in Seq(Item)
    BY <2>1, FlattenType
  <2> QED BY <2>2 DEF ProcessTelemetryBatch, s
<1> QED BY <1>2

-----------------------------------------------------------------------------
(* The invariant.  The deliveries that wait, and the one in hand, are       *)
(* different and new: what is stored of the one in hand are the items       *)
(* before the current one, and the current one once it has been committed.  *)

Delivery == [batch : Batches, nth : Nat \ {0}]
AlertId  == [batch : Batches, item : Nat, nth : Nat \ {0}]

Known == stored \cup relayed

Busy    == task.phase # "idle"
Waiting == {inbox[i] : i \in DOMAIN inbox}
Current == [batch |-> task.batch, nth |-> task.nth]

Tasks ==
  [phase : {"create", "refresh", "send"}, batch : Batches, nth : Nat \ {0}, item : Nat,
   targets : SUBSET Sockets, dead : SUBSET Sockets, audience : SUBSET Sockets]

StreamShape ==
  /\ todo \in [Batches -> Seq(Severe \cup {"raise", "status"})]
  /\ up \subseteq Nodes /\ bound \in Nodes \cup {"nobody", "ghost"}
  /\ message \in [Batches -> {"new", "sent", "acked"}] /\ deliveries \in [Batches -> Nat]
  /\ inbox \in Seq(Delivery) /\ (task = NoTask \/ task \in Tasks)
  /\ adrift \subseteq Batches /\ stored \subseteq AlertId /\ relayed \subseteq AlertId
  /\ sockets \in [Sockets -> {"out", "in", "closed"}]
  /\ at \in [Sockets -> Nodes \cup {"nobody"}]
  /\ members \in [Nodes -> SUBSET Sockets]
  /\ heard \in [Sockets -> SUBSET Known]

\* Only the process that is bound, and runs, has deliveries.
Binding ==
  /\ bound \in Nodes => bound \in up
  /\ bound \notin Nodes => inbox = <<>> /\ task = NoTask

\* The sockets of a process are its clients' that have come in; a client that
\* is there is in its process's set.
Membership ==
  /\ \A n \in Nodes : \A s \in members[n] : at[s] = n /\ sockets[s] # "out"
  /\ \A s \in Sockets : sockets[s] = "in" => at[s] \in Nodes /\ s \in members[at[s]]
  /\ \A s \in Sockets : sockets[s] = "out" => heard[s] = {}

Numbered ==
  /\ \A a \in Known : a.nth <= deliveries[a.batch]
  /\ \A a \in stored : /\ a.item \in DOMAIN todo[a.batch]
                       /\ todo[a.batch][a.item] \notin {"raise", "status"}
  /\ \A d \in Waiting : d.nth <= deliveries[d.batch]
  /\ Busy => task.nth <= deliveries[task.batch] /\ task.item > 0
  /\ task.phase = "refresh" => Alert \in stored
  /\ task.phase = "send" => Alert \in Known

Fresh ==
  /\ \A i, j \in DOMAIN inbox : i # j => inbox[i] # inbox[j]
  /\ \A d \in Waiting : /\ Busy => d # Current
                        /\ \A a \in Known : a.batch = d.batch => a.nth # d.nth
  /\ Busy => \A a \in Known : (a.batch = task.batch /\ a.nth = task.nth) =>
       a.item < task.item \/ (a.item = task.item /\ task.phase # "create")

\* The items before the current one were dealt with; all were, of a message
\* that is acknowledged or whose acknowledgement has been tried.
Dealt(b, i) ==
  \/ \E a \in stored : a.batch = b /\ a.item = i
  \/ \E f \in failed : f.batch = b /\ f.item = i
  \/ \E x \in told : x.alert.batch = b /\ x.alert.item = i

Settled(b) ==
  \A i \in DOMAIN todo[b] : Dealt(b, i) \/ (autoAck /\ \E j \in 1 .. i : todo[b][j] = "raise")

Progress ==
  /\ Busy => \A i \in DOMAIN todo[task.batch] : i < task.item => Dealt(task.batch, i)
  /\ \A b \in Batches : message[b] = "acked" \/ b \in adrift => Settled(b)

\* A message is delivered again only if it was slow, its process ended, its
\* acknowledgement went astray or its batch raises: otherwise it is in hand or
\* acknowledged.
Raises(b) == ~autoAck /\ \E j \in DOMAIN todo[b] : todo[b][j] = "raise"

Redelivered ==
  \A b \in Batches \ (suspects \cup adrift) : ~Raises(b) =>
    /\ deliveries[b] <= 1
    /\ deliveries[b] = 1 /\ message[b] # "acked" => b \in InHand

\* Of the alert in hand: nobody has been told before; those who had joined when
\* it was committed, and are in the set, are to be sent it, dead, or have it.
Broadcast ==
  /\ Busy => \A x \in told : x.alert # Alert
  /\ task.phase \in {"create", "refresh"} => task.dead = {}
  /\ task.phase = "refresh" => \A s \in Sockets : Alert \notin heard[s]
  /\ task.phase = "send" =>
       /\ \A s \in task.targets : at[s] = bound /\ sockets[s] # "out"
       /\ \A s \in task.dead : sockets[s] = "closed"
       /\ \A s \in task.audience \cap members[bound] :
            s \in task.targets \cup task.dead \/ Alert \in heard[s]
  /\ Busy => \A s \in task.audience : sockets[s] # "out"

Told ==
  \A x \in told :
    /\ x.alert \in Known /\ x.node \in Nodes /\ x.audience \subseteq Sockets
    /\ \A s \in x.audience : /\ sockets[s] # "out"
                             /\ s \in members[x.node] => x.alert \in heard[s]

StreamInv ==
  /\ StreamShape /\ Binding /\ Membership /\ Numbered /\ Fresh /\ Progress /\ Redelivered
  /\ Broadcast /\ Told

-----------------------------------------------------------------------------
(* What the shape says.                                                     *)

\* The fields of the task in hand.
LEMMA TaskFacts ==
  ASSUME StreamShape
  PROVE  /\ Busy <=> task # NoTask
         /\ Busy => /\ task \in Tasks
                    /\ task.phase \in {"create", "refresh", "send"}
                    /\ task.batch \in Batches /\ task.nth \in Nat \ {0} /\ task.item \in Nat
                    /\ task.targets \subseteq Sockets /\ task.dead \subseteq Sockets
                    /\ task.audience \subseteq Sockets
                    /\ Alert \in AlertId /\ Current \in Delivery
<1>1. NoTask.phase = "idle"
  BY DEF NoTask
<1>2. \A x \in Tasks : /\ x.phase \in {"create", "refresh", "send"} /\ x.batch \in Batches
                       /\ x.nth \in Nat \ {0} /\ x.item \in Nat
                       /\ x.targets \subseteq Sockets /\ x.dead \subseteq Sockets
                       /\ x.audience \subseteq Sockets
  BY DEF Tasks
<1>3. task = NoTask \/ task \in Tasks
  BY DEF StreamShape
<1> QED BY <1>1, <1>2, <1>3 DEF Busy, Alert, AlertId, Current, Delivery

\* The next item of the task in hand.
LEMMA NextItemFacts ==
  ASSUME StreamShape, Busy
  PROVE  /\ NextItem \in Tasks
         /\ NextItem.phase = "create" /\ NextItem.batch = task.batch
         /\ NextItem.nth = task.nth /\ NextItem.item = task.item + 1
         /\ NextItem.targets = {} /\ NextItem.dead = {} /\ NextItem.audience = {}
BY TaskFacts DEF Tasks, NextItem, CreateAt

\* The alerts of a batch are numbered from 1.
LEMMA TodoFacts ==
  ASSUME StreamShape, NEW b \in Batches
  PROVE  Len(todo[b]) \in Nat /\ DOMAIN todo[b] = 1 .. Len(todo[b])
BY DEF StreamShape

\* The deliveries that wait.
LEMMA WaitingFacts ==
  ASSUME StreamShape
  PROVE  /\ Waiting \subseteq Delivery
         /\ InHand = {d.batch : d \in Waiting} \cup (IF Busy THEN {task.batch} ELSE {})
<1>1. \A i \in DOMAIN inbox : inbox[i] \in Delivery
  BY DEF StreamShape
<1> QED BY <1>1, TaskFacts DEF Waiting, InHand

\* A delivery that arrives.
LEMMA ArrivalFacts ==
  ASSUME StreamShape, NEW d \in Delivery, inbox' = Append(inbox, d)
  PROVE  /\ inbox' \in Seq(Delivery) /\ Waiting' = Waiting \cup {d}
         /\ (/\ \A i, j \in DOMAIN inbox : i # j => inbox[i] # inbox[j]
             /\ d \notin Waiting)
            => \A i, j \in DOMAIN inbox' : i # j => inbox'[i] # inbox'[j]
<1>1. inbox \in Seq(Delivery) /\ Len(inbox) \in Nat /\ DOMAIN inbox = 1 .. Len(inbox)
  BY DEF StreamShape
<1>2. /\ inbox' \in Seq(Delivery) /\ DOMAIN inbox' = 1 .. Len(inbox) + 1
      /\ \A i \in 1 .. Len(inbox) : inbox'[i] = inbox[i]
      /\ inbox'[Len(inbox) + 1] = d
  BY <1>1, AppendProperties
<1>3. 1 .. Len(inbox) + 1 = (1 .. Len(inbox)) \cup {Len(inbox) + 1}
  BY <1>1
<1>4. Waiting' = Waiting \cup {d}
  BY <1>1, <1>2, <1>3 DEF Waiting
<1> QED BY <1>1, <1>2, <1>3, <1>4 DEF Waiting

\* The first delivery is taken.
LEMMA TakenFacts ==
  ASSUME StreamShape, inbox # <<>>, inbox' = Tail(inbox),
         \A i, j \in DOMAIN inbox : i # j => inbox[i] # inbox[j]
  PROVE  /\ inbox' \in Seq(Delivery) /\ inbox[1] \in Waiting
         /\ Waiting' = Waiting \ {inbox[1]}
         /\ \A i, j \in DOMAIN inbox' : i # j => inbox'[i] # inbox'[j]
<1> DEFINE n == Len(inbox)
<1>1. inbox \in Seq(Delivery) /\ n \in Nat \ {0} /\ DOMAIN inbox = 1 .. n
  BY DEF StreamShape
<1>2. /\ inbox' \in Seq(Delivery) /\ DOMAIN inbox' = 1 .. n - 1
      /\ \A i \in 1 .. n - 1 : inbox'[i] = inbox[i + 1]
  BY <1>1, HeadTailProperties
<1> HIDE DEF n
<1>3. \A i \in 1 .. n : i = 1 \/ i - 1 \in 1 .. n - 1
  BY <1>1
<1>4. Waiting' \subseteq Waiting \ {inbox[1]}
  BY <1>1, <1>2 DEF Waiting
<1>5. ASSUME NEW d \in Waiting, d # inbox[1] PROVE d \in Waiting'
  <2>1. PICK i \in 1 .. n : d = inbox[i]
    BY <1>1 DEF Waiting
  <2>2. i - 1 \in 1 .. n - 1 /\ i - 1 + 1 = i
    BY <1>1, <1>3, <1>5, <2>1
  <2>3. inbox'[i - 1] = d
    BY <1>2, <2>1, <2>2
  <2> QED BY <1>2, <2>2, <2>3 DEF Waiting
<1>6. ASSUME NEW i \in 1 .. n - 1, NEW j \in 1 .. n - 1, i # j PROVE inbox'[i] # inbox'[j]
  <2>1. i + 1 \in 1 .. n /\ j + 1 \in 1 .. n /\ i + 1 # j + 1
    BY <1>1, <1>6
  <2> QED BY <1>1, <1>2, <2>1
<1>7. inbox[1] \in Waiting
  BY <1>1 DEF Waiting
<1> QED BY <1>2, <1>4, <1>5, <1>6, <1>7

\* At first nothing has been delivered, and nobody has come in.
LEMMA StreamInitial ==
  ASSUME StreamInit
  PROVE  StreamInv
<1>1. StreamShape
  <2> DEFINE Items == Severe \cup {"raise", "status"}
  <2>1. \A p \in Payloads : ProcessTelemetryBatch(p) \in Seq(Items)
    <3>1. \A q \in Seq(Severe \cup {"raise"}) : q \in Seq(Items)
      OBVIOUS
    <3> HIDE DEF Items
    <3> QED BY <3>1, AlertStreamAssumption, NoMinorAlerts
  <2>2. todo \in [Batches -> Seq(Items)]
    <3>1. <<"status">> \in Seq(Items) /\ <<"raise">> \in Seq(Items)
      OBVIOUS
    <3> HIDE DEF Items
    <3> QED BY <2>1, <3>1 DEF StreamInit
  <2>3. inbox \in Seq(Delivery)
    BY DEF StreamInit
  <2> QED BY <2>2, <2>3 DEF StreamInit, StreamShape, Known
<1>2. DOMAIN inbox = {} /\ Waiting = {} /\ ~Busy /\ task.phase = "idle"
  BY DEF StreamInit, Waiting, Busy, NoTask
<1>3. Binding /\ Membership
  BY AlertStreamAssumption DEF StreamInit, Binding, Membership
<1>4. Numbered /\ Fresh /\ Progress /\ Broadcast
  BY <1>2 DEF StreamInit, Numbered, Fresh, Progress, Known, Broadcast
<1>5. Redelivered /\ Told
  BY DEF StreamInit, Redelivered, Told
<1> QED BY <1>1, <1>3, <1>4, <1>5 DEF StreamInv

-----------------------------------------------------------------------------
(* The sockets.                                                             *)

\* Steps of the sockets leave the messages alone: what is left to show is about
\* members and sockets.
LEMMA SocketsOnly ==
  ASSUME StreamInv, OnlySockets, heard' = heard,
         sockets' \in [Sockets -> {"out", "in", "closed"}],
         at' \in [Sockets -> Nodes \cup {"nobody"}],
         members' \in [Nodes -> SUBSET Sockets],
         Membership',
         \A s \in Sockets : sockets[s] # "out" => sockets'[s] # "out" /\ at'[s] = at[s],
         \A s \in Sockets : sockets[s] = "closed" => sockets'[s] = "closed",
         \A n \in Nodes : \A s \in members'[n] : sockets[s] # "out" => s \in members[n]
  PROVE  StreamInv'
<1>1. UNCHANGED <<todo, autoAck, up, bound, message, adrift, deliveries, inbox, suspects, task,
                  stored, relayed, failed, told, heard>>
  BY DEF OnlySockets, busVars, contentVars, logVars
<1>2. StreamShape' /\ Binding' /\ Numbered' /\ Fresh' /\ Progress' /\ Redelivered'
  BY <1>1
  DEF StreamInv, StreamShape, Binding, Numbered, Fresh, Progress, Redelivered, Settled,
      Dealt, Raises, Waiting, Busy, Current, InHand, Alert, Known
<1>3. \A s \in Sockets : heard[s] # {} => sockets[s] # "out"
  BY DEF StreamInv, Membership
<1>4. Told'
  <2> SUFFICES ASSUME NEW x \in told
               PROVE  /\ x.alert \in Known /\ x.node \in Nodes /\ x.audience \subseteq Sockets
                      /\ \A s \in x.audience : /\ sockets'[s] # "out"
                                               /\ s \in members'[x.node] => x.alert \in heard[s]
    BY <1>1 DEF Told, Known
  <2>1. /\ x.alert \in Known /\ x.node \in Nodes /\ x.audience \subseteq Sockets
        /\ \A s \in x.audience : /\ sockets[s] # "out"
                                 /\ s \in members[x.node] => x.alert \in heard[s]
    BY DEF StreamInv, Told
  <2> QED BY <1>3, <2>1
<1>5. Broadcast'
  <2>1. Busy => \A x \in told : x.alert # Alert
    BY DEF StreamInv, Broadcast
  <2>2. /\ task.phase = "refresh" => \A s \in Sockets : Alert \notin heard[s]
        /\ task.phase \in {"create", "refresh"} => task.dead = {}
    BY DEF StreamInv, Broadcast
  <2>3. Busy => \A s \in task.audience : sockets'[s] # "out"
    BY TaskFacts DEF StreamInv, Broadcast
  <2>4. ASSUME task.phase = "send"
        PROVE  /\ \A s \in task.targets : at'[s] = bound /\ sockets'[s] # "out"
               /\ \A s \in task.dead : sockets'[s] = "closed"
               /\ \A s \in task.audience \cap members'[bound] :
                    s \in task.targets \cup task.dead \/ Alert \in heard[s]
    <3>1. Busy /\ bound \in Nodes
      BY <2>4, TaskFacts DEF Busy, StreamInv, StreamShape, Binding
    <3>2. \A s \in task.targets : sockets[s] # "out" /\ s \in Sockets
      BY <2>4, <3>1, TaskFacts DEF StreamInv, Broadcast
    <3> QED BY <1>3, <2>4, <3>1, <3>2, TaskFacts DEF StreamInv, Broadcast
  <2> QED BY <1>1, <2>1, <2>2, <2>3, <2>4 DEF Broadcast, Busy, Alert
<1> QED BY <1>2, <1>4, <1>5 DEF StreamInv

\* Clients come, go, and are noticed to have gone.
LEMMA SocketStep ==
  ASSUME StreamInv, NEW s \in Sockets,
         \/ \E n \in Nodes : Connect(s, n)
         \/ ClientCloses(s) \/ Disconnect(s) \/ LoopRaises(s)
  PROVE  StreamInv'
<1>1. /\ sockets \in [Sockets -> {"out", "in", "closed"}]
      /\ at \in [Sockets -> Nodes \cup {"nobody"}]
      /\ members \in [Nodes -> SUBSET Sockets]
      /\ Membership
  BY DEF StreamInv, StreamShape
<1>2. ASSUME NEW n \in Nodes, Connect(s, n) PROVE StreamInv'
  <2>1. /\ sockets[s] = "out" /\ OnlySockets /\ heard' = heard
        /\ sockets' = [sockets EXCEPT ![s] = "in"] /\ at' = [at EXCEPT ![s] = n]
        /\ members' = [members EXCEPT ![n] = @ \cup {s}]
    BY <1>2 DEF Connect
  <2>2. /\ sockets' \in [Sockets -> {"out", "in", "closed"}]
        /\ at' \in [Sockets -> Nodes \cup {"nobody"}]
        /\ members' \in [Nodes -> SUBSET Sockets]
    BY <1>1, <2>1
  <2>3. /\ \A t \in Sockets : t # s => sockets'[t] = sockets[t] /\ at'[t] = at[t]
        /\ sockets'[s] = "in" /\ at'[s] = n
        /\ \A m \in Nodes : members'[m] = IF m = n THEN members[m] \cup {s} ELSE members[m]
    BY <1>1, <2>1
  <2>4. \A m \in Nodes : s \notin members[m]
    BY <1>1, <2>1 DEF Membership
  <2>5. Membership'
    BY <1>1, <2>1, <2>3, <2>4 DEF Membership
  <2>6. /\ \A t \in Sockets : sockets[t] # "out" => sockets'[t] # "out" /\ at'[t] = at[t]
        /\ \A t \in Sockets : sockets[t] = "closed" => sockets'[t] = "closed"
        /\ \A m \in Nodes : \A t \in members'[m] : sockets[t] # "out" => t \in members[m]
    BY <1>1, <2>1, <2>3
  <2> QED BY <2>1, <2>2, <2>5, <2>6, SocketsOnly
<1>3. ASSUME sockets[s] = "in", sockets' = [sockets EXCEPT ![s] = "closed"],
             at' = at, members' = members, OnlySockets, heard' = heard
      PROVE  StreamInv'
  <2>1. /\ sockets' \in [Sockets -> {"out", "in", "closed"}]
        /\ \A t \in Sockets : sockets'[t] = IF t = s THEN "closed" ELSE sockets[t]
    BY <1>1, <1>3
  <2>2. Membership'
    BY <1>1, <1>3, <2>1 DEF Membership
  <2> QED BY <1>1, <1>3, <2>1, <2>2, SocketsOnly
<1>4. ASSUME Disconnect(s) PROVE StreamInv'
  <2>1. /\ sockets[s] = "closed" /\ OnlySockets /\ heard' = heard
        /\ sockets' = sockets /\ at' = at
        /\ members' = [members EXCEPT ![at[s]] = @ \ {s}]
    BY <1>4 DEF Disconnect
  <2>2. /\ members' \in [Nodes -> SUBSET Sockets]
        /\ \A m \in Nodes : members'[m] \in {members[m], members[m] \ {s}}
    BY <1>1, <2>1
  <2>3. Membership'
    BY <1>1, <2>1, <2>2 DEF Membership
  <2> QED BY <1>1, <2>1, <2>2, <2>3, SocketsOnly
<1>5. ASSUME ClientCloses(s) PROVE StreamInv'
  BY <1>3, <1>5 DEF ClientCloses
<1>6. ASSUME LoopRaises(s) PROVE StreamInv'
  BY <1>3, <1>6 DEF LoopRaises
<1> QED BY <1>2, <1>4, <1>5, <1>6

-----------------------------------------------------------------------------
(* The processes.                                                           *)

\* A process starts, or the server notices that one is gone.
LEMMA StartStep ==
  ASSUME StreamInv, (\E n \in Nodes : Start(n)) \/ Release
  PROVE  StreamInv'
<1>1. /\ UNCHANGED <<todo, autoAck, message, adrift, deliveries, inbox, suspects, task, stored,
                     relayed, failed, told, sockets, at, members, heard>>
      /\ up \subseteq up' /\ up' \subseteq Nodes
      /\ bound' = bound \/ (bound \notin Nodes /\ bound' \in up' \cup {"nobody"})
  BY AlertStreamAssumption
  DEF StreamInv, StreamShape, Start, Release, contentVars, logVars, socketVars
<1>2. StreamShape' /\ Membership' /\ Numbered' /\ Fresh' /\ Progress' /\ Redelivered' /\ Told'
  BY <1>1
  DEF StreamInv, StreamShape, Membership, Numbered, Fresh, Progress, Redelivered, Settled,
      Dealt, Raises, Waiting, Busy, Current, InHand, Alert, Told, Known
<1>3. Binding'
  BY <1>1, AlertStreamAssumption DEF StreamInv, Binding
<1>4. Broadcast'
  <2>1. CASE bound' = bound
    BY <1>1, <2>1 DEF StreamInv, Broadcast, Busy, Alert
  <2>2. CASE bound \notin Nodes
    BY <1>1, <2>2 DEF StreamInv, Binding, Broadcast, Busy, Alert, NoTask
  <2> QED BY <1>1, <2>1, <2>2
<1> QED BY <1>2, <1>3, <1>4 DEF StreamInv

\* A process ends: its sockets are closed, and what it had in hand is suspect.
LEMMA EndStep ==
  ASSUME StreamInv, NEW n \in Nodes, End(n)
  PROVE  StreamInv'
<1>1. /\ UNCHANGED <<todo, autoAck, message, adrift, deliveries, stored, relayed, failed, told,
                     at, heard>>
      /\ up' = up \ {n}
      /\ sockets' = [s \in Sockets |-> IF at[s] = n THEN "closed" ELSE sockets[s]]
      /\ members' = [members EXCEPT ![n] = {}]
  BY DEF End, Disconnected, contentVars, logVars
<1>2. \/ /\ bound = n /\ bound' \in {"nobody", "ghost"} /\ inbox' = <<>> /\ task' = NoTask
         /\ suspects' = suspects \cup InHand
      \/ bound # n /\ UNCHANGED <<bound, inbox, task, suspects>>
  BY DEF End
<1>3. /\ sockets' \in [Sockets -> {"out", "in", "closed"}]
      /\ members' \in [Nodes -> SUBSET Sockets]
      /\ \A s \in Sockets : sockets'[s] = IF at[s] = n THEN "closed" ELSE sockets[s]
      /\ \A m \in Nodes : members'[m] = IF m = n THEN {} ELSE members[m]
  BY <1>1 DEF StreamInv, StreamShape
<1>4. Membership'
  BY <1>1, <1>3 DEF StreamInv, StreamShape, Membership
<1>5. Told'
  <2>1. \A x \in told : x.audience \subseteq Sockets /\ x.node \in Nodes
    BY DEF StreamInv, Told
  <2> QED BY <1>1, <1>3, <2>1 DEF StreamInv, Told, Known
<1>6. CASE bound = n
  <2>1. /\ inbox' = <<>> /\ task' = NoTask /\ suspects' = suspects \cup InHand
        /\ bound' \in {"nobody", "ghost"}
    BY <1>2, <1>6
  <2>2. Waiting' = {} /\ DOMAIN inbox' = {} /\ ~Busy' /\ task'.phase = "idle"
    BY <2>1 DEF Waiting, Busy, NoTask
  <2>3. StreamShape'
    <3>1. inbox' \in Seq(Delivery)
      BY <2>1
    <3> QED BY <1>1, <1>3, <2>1, <3>1 DEF StreamInv, StreamShape, Known
  <2>4. Binding'
    BY <2>1, AlertStreamAssumption DEF Binding
  <2>5. Numbered' /\ Fresh'
    BY <1>1, <2>2 DEF StreamInv, Numbered, Fresh, Known
  <2>6. Progress'
    BY <1>1, <2>2 DEF StreamInv, Progress, Settled, Dealt
  <2>7. Redelivered'
    <3> SUFFICES ASSUME NEW b \in Batches, b \notin suspects' \cup adrift, ~Raises(b)'
                 PROVE  deliveries[b] <= 1 /\ (deliveries[b] = 1 => message[b] = "acked")
      BY <1>1 DEF Redelivered
    <3>1. b \notin suspects /\ b \notin InHand /\ ~Raises(b)
      BY <1>1, <2>1 DEF Raises
    <3> QED BY <3>1 DEF StreamInv, Redelivered
  <2>8. Broadcast'
    BY <2>2 DEF Broadcast
  <2> QED BY <1>4, <1>5, <2>3, <2>4, <2>5, <2>6, <2>7, <2>8 DEF StreamInv
<1>7. CASE bound # n
  <2>1. UNCHANGED <<bound, inbox, task, suspects>>
    BY <1>2, <1>7
  <2>2. StreamShape' /\ Binding'
    BY <1>1, <1>3, <1>7, <2>1 DEF StreamInv, StreamShape, Binding, Known
  <2>3. Numbered' /\ Fresh' /\ Progress' /\ Redelivered'
    BY <1>1, <2>1
    DEF StreamInv, Numbered, Fresh, Progress, Redelivered, Settled, Dealt, Raises,
        Waiting, Busy, Current, InHand, Alert, Known
  <2>4. Broadcast'
    <3>1. task.phase = "send" => bound \in Nodes /\ members'[bound] \subseteq members[bound]
      BY <1>3, TaskFacts DEF Busy, StreamInv, StreamShape, Binding
    <3>2. \A s \in Sockets : /\ sockets[s] # "out" => sockets'[s] # "out"
                             /\ sockets[s] = "closed" => sockets'[s] = "closed"
      BY <1>3
    <3>3. task.phase = "send" => Busy
      BY DEF Busy
    <3> HIDE DEF StreamInv
    <3>4. Broadcast /\ StreamShape
      BY DEF StreamInv
    <3> QED BY <1>1, <2>1, <3>1, <3>2, <3>3, <3>4, TaskFacts DEF Broadcast, Busy, Alert
  <2> QED BY <1>4, <1>5, <2>2, <2>3, <2>4 DEF StreamInv
<1> QED BY <1>6, <1>7

-----------------------------------------------------------------------------
(* The messages.                                                            *)

\* A message is delivered, for the first time or again.
LEMMA DeliverStep ==
  ASSUME StreamInv, NEW b \in Batches, Deliver(b)
  PROVE  StreamInv'
<1> DEFINE d == [batch |-> b, nth |-> deliveries[b] + 1]
<1>1. /\ UNCHANGED <<todo, autoAck, bound, up, adrift, task, stored, relayed, failed, told, sockets,
                     at, members, heard>>
      /\ bound \in Nodes /\ message[b] # "acked" /\ inbox' = Append(inbox, d)
      /\ message' = [message EXCEPT ![b] = "sent"]
      /\ deliveries' = [deliveries EXCEPT ![b] = @ + 1]
      /\ suspects' = IF b \in InHand THEN suspects \cup {b} ELSE suspects
  BY DEF Deliver, contentVars, logVars, socketVars
<1>2. StreamShape
  BY DEF StreamInv
<1>3. deliveries[b] \in Nat /\ d \in Delivery /\ d.batch = b /\ d.nth = deliveries[b] + 1
  BY <1>2 DEF StreamShape, Delivery
<1>4. /\ \A c \in Batches : message'[c] = IF c = b THEN "sent" ELSE message[c]
      /\ \A c \in Batches : deliveries'[c] = IF c = b THEN deliveries[b] + 1 ELSE deliveries[c]
      /\ \A c \in Batches : deliveries[c] \in Nat
      /\ message' \in [Batches -> {"new", "sent", "acked"}]
      /\ deliveries' \in [Batches -> Nat]
  BY <1>1, <1>2, <1>3 DEF StreamShape
<1> HIDE DEF d
<1>5. d \notin Waiting /\ (Busy => d # Current)
  <2>1. \A w \in Waiting : w.nth <= deliveries[w.batch]
    BY DEF StreamInv, Numbered
  <2>2. Busy => Current.batch = task.batch /\ Current.nth <= deliveries[task.batch]
    BY DEF StreamInv, Numbered, Current
  <2> QED BY <1>3, <2>1, <2>2, TaskFacts, <1>2 DEF Current
<1>6. /\ inbox' \in Seq(Delivery) /\ Waiting' = Waiting \cup {d}
      /\ \A i, j \in DOMAIN inbox' : i # j => inbox'[i] # inbox'[j]
  BY <1>1, <1>2, <1>3, <1>5, ArrivalFacts DEF StreamInv, Fresh
<1>7. StreamShape'
  BY <1>1, <1>2, <1>4, <1>6 DEF StreamShape, Known
<1>8. Binding' /\ Membership'
  BY <1>1, AlertStreamAssumption DEF StreamInv, Binding, Membership
<1>9. Numbered'
  <2>1. \A a \in Known : a.nth \in Nat /\ a.batch \in Batches
    BY <1>2 DEF StreamShape, AlertId, Known
  <2>2. \A w \in Waiting : w.nth \in Nat /\ w.batch \in Batches
    BY <1>2, WaitingFacts DEF Delivery
  <2>3. \A a \in Known : a.nth <= deliveries'[a.batch]
    BY <1>3, <1>4, <2>1 DEF StreamInv, Numbered
  <2>4. \A w \in Waiting' : w.nth <= deliveries'[w.batch]
    BY <1>3, <1>4, <1>6, <2>2 DEF StreamInv, Numbered
  <2>5. Busy => task.nth <= deliveries'[task.batch]
    BY <1>2, <1>3, <1>4, TaskFacts DEF StreamInv, Numbered
  <2> QED BY <1>1, <2>3, <2>4, <2>5 DEF StreamInv, Numbered, Busy, Alert, Known
<1>10. Fresh'
  <2>1. \A a \in Known : a.batch = b => a.nth # d.nth
    <3>1. \A a \in Known : a.nth <= deliveries[a.batch] /\ a.nth \in Nat
      BY <1>2 DEF StreamInv, Numbered, StreamShape, AlertId, Known
    <3> QED BY <1>3, <3>1
  <2> QED BY <1>1, <1>3, <1>5, <1>6, <2>1 DEF StreamInv, Fresh, Busy, Current, Known
<1>11. Progress'
  BY <1>1, <1>4 DEF StreamInv, Progress, Settled, Dealt, Busy
<1>12. Redelivered'
  <2>1. InHand' = InHand \cup {b}
    <3>1. InHand = {w.batch : w \in Waiting} \cup (IF Busy THEN {task.batch} ELSE {})
      BY <1>2, WaitingFacts
    <3>2. InHand' = {w.batch : w \in Waiting'} \cup (IF Busy THEN {task.batch} ELSE {})
      BY <1>1, <1>2, TaskFacts DEF InHand, Waiting
    <3> QED BY <1>3, <1>6, <3>1, <3>2
  <2> SUFFICES ASSUME NEW c \in Batches, c \notin suspects' \cup adrift, ~Raises(c)'
               PROVE  /\ deliveries'[c] <= 1
                      /\ deliveries'[c] = 1 /\ message'[c] # "acked" => c \in InHand'
    BY <1>1 DEF Redelivered
  <2>2. c \notin suspects \cup adrift /\ ~Raises(c)
    BY <1>1 DEF Raises
  <2>3. /\ deliveries[c] <= 1
        /\ deliveries[c] = 1 /\ message[c] # "acked" => c \in InHand
    BY <2>2 DEF StreamInv, Redelivered
  <2>4. CASE c = b
    <3>1. b \notin InHand
      BY <1>1, <2>4
    <3> QED BY <1>1, <1>3, <1>4, <2>1, <2>3, <2>4, <3>1
  <2>5. CASE c # b
    BY <1>4, <2>1, <2>3, <2>5
  <2> QED BY <2>4, <2>5
<1>13. Broadcast' /\ Told'
  BY <1>1 DEF StreamInv, Broadcast, Told, Busy, Alert, Known
<1> QED BY <1>7, <1>8, <1>9, <1>10, <1>11, <1>12, <1>13 DEF StreamInv

\* The first delivery that waits is begun.
LEMMA BeginStep ==
  ASSUME StreamInv, Begin
  PROVE  StreamInv'
<1> DEFINE d == inbox[1]
<1>1. /\ UNCHANGED <<todo, autoAck, bound, up, message, adrift, deliveries, suspects, stored,
                     relayed, failed, told, sockets, at, members, heard>>
      /\ task = NoTask /\ inbox # <<>> /\ inbox' = Tail(inbox)
      /\ task' = CreateAt(d.batch, d.nth, 1)
  BY DEF Begin, AckFirst, contentVars, logVars, socketVars
<1>2. StreamShape /\ ~Busy
  BY <1>1 DEF StreamInv, Busy, NoTask
<1>3. /\ inbox' \in Seq(Delivery) /\ d \in Waiting /\ Waiting' = Waiting \ {d}
      /\ \A i, j \in DOMAIN inbox' : i # j => inbox'[i] # inbox'[j]
  BY <1>1, <1>2, TakenFacts DEF StreamInv, Fresh
<1> HIDE DEF d
<1>4. d.batch \in Batches /\ d.nth \in Nat \ {0} /\ d \in Delivery
  BY <1>2, <1>3, WaitingFacts DEF Delivery
<1>5. /\ task' \in Tasks /\ task'.phase = "create" /\ task'.batch = d.batch
      /\ task'.nth = d.nth /\ task'.item = 1 /\ task'.audience = {} /\ task'.dead = {} /\ Busy'
  BY <1>1, <1>4 DEF CreateAt, Tasks, Busy
<1>6. Current' = d /\ Alert' = [batch |-> d.batch, item |-> 1, nth |-> d.nth]
  BY <1>4, <1>5 DEF Current, Alert, Delivery
<1>7. StreamShape'
  BY <1>1, <1>2, <1>3, <1>5 DEF StreamShape, Known
<1>8. Binding' /\ Membership'
  BY <1>1, <1>2 DEF StreamInv, Binding, Membership
<1>9. Numbered'
  <2>1. d.nth <= deliveries[d.batch]
    BY <1>3 DEF StreamInv, Numbered
  <2> QED BY <1>1, <1>3, <1>5, <2>1 DEF StreamInv, Numbered, Known
<1>10. \A a \in Known : a.batch = d.batch => a.nth # d.nth
  BY <1>3 DEF StreamInv, Fresh
<1>11. Fresh'
  BY <1>1, <1>3, <1>5, <1>6, <1>10 DEF StreamInv, Fresh, Known
<1>12. Progress'
  <2>1. \A i \in DOMAIN todo[d.batch] : ~(i < 1)
    BY <1>2, <1>4, TodoFacts
  <2> QED BY <1>1, <1>5, <2>1 DEF StreamInv, Progress, Settled, Dealt
<1>13. Redelivered'
  <2>1. InHand' = InHand
    <3>1. InHand = {w.batch : w \in Waiting}
      BY <1>2, WaitingFacts
    <3>2. InHand' = {w.batch : w \in Waiting'} \cup {d.batch}
      BY <1>5 DEF InHand, Waiting, NoTask
    <3> QED BY <1>3, <3>1, <3>2
  <2> QED BY <1>1, <2>1 DEF StreamInv, Redelivered, Raises
<1>14. Broadcast'
  <2>1. \A x \in told : x.alert # Alert'
    <3>1. \A x \in told : x.alert \in Known
      BY DEF StreamInv, Told
    <3> QED BY <1>6, <1>10, <3>1
  <2> QED BY <1>1, <1>5, <2>1 DEF Broadcast
<1>15. Told'
  BY <1>1 DEF StreamInv, Told, Known
<1> QED BY <1>7, <1>8, <1>9, <1>11, <1>12, <1>13, <1>14, <1>15 DEF StreamInv

-----------------------------------------------------------------------------
(* The handler.                                                             *)

\* The handler moves on within a delivery: to the next item when the current
\* one has been dealt with, or on with an alert that is stored.
LEMMA TaskMoves ==
  ASSUME StreamInv, Busy,
         UNCHANGED <<todo, autoAck, up, bound, message, adrift, deliveries, inbox, suspects,
                   sockets, at>>,
         task' \in Tasks, task'.batch = task.batch, task'.nth = task.nth,
         failed \subseteq failed', told \subseteq told',
         \/ /\ task' = NextItem /\ stored' = stored /\ relayed' = relayed
            /\ \E b \in Batches, i \in Nat : b = task.batch /\ i = task.item /\ Dealt(b, i)'
         \/ /\ task'.item = task.item /\ task'.phase # "create"
            /\ task'.phase = "refresh" => Alert \in stored'
            /\ \/ /\ stored' = stored \cup {Alert} /\ relayed' = relayed
                  /\ task.item \in DOMAIN todo[task.batch]
                  /\ todo[task.batch][task.item] \notin {"raise", "status"}
               \/ stored' = stored /\ relayed' = relayed \cup {Alert},
         members' \in [Nodes -> SUBSET Sockets], Membership',
         heard' \in [Sockets -> SUBSET Known'],
         Broadcast', Told'
  PROVE  StreamInv'
<1>1. StreamShape
  BY DEF StreamInv
<1>2. /\ Busy' /\ Current' = Current /\ Waiting' = Waiting /\ InHand' = InHand
      /\ bound \in Nodes
  <2>1. task # NoTask /\ task' # NoTask
    BY <1>1, TaskFacts DEF NoTask, Tasks
  <2>2. task'.phase # "idle"
    BY DEF Tasks
  <2> QED BY <1>1, <2>1, <2>2 DEF Busy, Current, Waiting, InHand, StreamInv, Binding, StreamShape
<1>3. /\ Alert \in AlertId /\ Alert.batch = task.batch /\ Alert.item = task.item
      /\ Alert.nth = task.nth /\ task.item \in Nat /\ task.batch \in Batches
  BY <1>1, TaskFacts DEF Alert
<1>4. /\ stored \subseteq stored' /\ stored' \subseteq stored \cup {Alert}
      /\ relayed \subseteq relayed' /\ relayed' \subseteq relayed \cup {Alert}
      /\ Known' \subseteq Known \cup {Alert}
      /\ task'.phase # "create" => Alert \in Known'
  <2>1. task' = NextItem => task'.phase = "create"
    BY <1>1, NextItemFacts
  <2> QED BY <2>1 DEF Known
<1>5. StreamShape'
  BY <1>1, <1>3, <1>4 DEF StreamShape
<1>6. Binding'
  BY <1>2 DEF StreamInv, Binding
<1>7. Numbered'
  <2>1. task.nth <= deliveries[task.batch] /\ task.item > 0
    BY DEF StreamInv, Numbered
  <2>2. /\ \A a \in Known' : a.nth <= deliveries[a.batch]
        /\ \A a \in stored' : /\ a.item \in DOMAIN todo[a.batch]
                              /\ todo[a.batch][a.item] \notin {"raise", "status"}
    <3>1. \A a \in Known' : a.nth <= deliveries[a.batch]
      BY <1>3, <1>4, <2>1 DEF StreamInv, Numbered
    <3>2. \A a \in stored' \ stored :
            /\ a = Alert /\ task.item \in DOMAIN todo[task.batch]
            /\ todo[task.batch][task.item] \notin {"raise", "status"}
      OBVIOUS
    <3> QED BY <1>3, <3>1, <3>2 DEF StreamInv, Numbered
  <2>3. task'.item \in {task.item, task.item + 1}
    BY <1>1, NextItemFacts
  <2>4. task'.item > 0
    BY <1>3, <2>1, <2>3
  <2>5. /\ task'.phase = "refresh" => Alert' \in stored'
        /\ task'.phase = "send" => Alert' \in Known'
    <3>1. task' = NextItem => task'.phase = "create"
      BY <1>1, NextItemFacts
    <3>2. task'.item = task.item => Alert' = Alert
      BY DEF Alert
    <3> QED BY <1>4, <3>1, <3>2
  <2>6. \A d \in Waiting : d.nth <= deliveries[d.batch]
    BY DEF StreamInv, Numbered
  <2> QED BY <1>2, <2>1, <2>2, <2>4, <2>5, <2>6 DEF Numbered
<1>8. Fresh'
  <2>1. \A a \in Known : (a.batch = task.batch /\ a.nth = task.nth) =>
          a.item < task.item \/ (a.item = task.item /\ task.phase # "create")
    BY DEF StreamInv, Fresh
  <2>2. \A a \in Known : a.item \in Nat
    BY <1>1 DEF StreamShape, AlertId, Known
  <2>3. \A a \in Known' : (a.batch = task.batch /\ a.nth = task.nth) =>
          a.item \in Nat /\ a.item <= task.item
    BY <1>3, <1>4, <2>1, <2>2
  <2>4. \A a \in Known' : (a.batch = task.batch /\ a.nth = task.nth) =>
          a.item < task'.item \/ (a.item = task'.item /\ task'.phase # "create")
    <3>1. CASE task' = NextItem
      BY <1>1, <1>3, <2>3, <3>1, NextItemFacts
    <3>2. CASE task'.item = task.item /\ task'.phase # "create"
      BY <1>3, <2>3, <3>2
    <3> QED BY <3>1, <3>2
  <2>5. \A d \in Waiting : d \in Delivery /\ d # Current
    BY <1>1, WaitingFacts DEF StreamInv, Fresh
  <2>6. \A d \in Waiting : d.batch = task.batch => d.nth # task.nth
    BY <2>5 DEF Delivery, Current
  <2>7. \A d \in Waiting : \A a \in Known' : a.batch = d.batch => a.nth # d.nth
    BY <1>3, <1>4, <2>6 DEF StreamInv, Fresh
  <2>8. \A i, j \in DOMAIN inbox : i # j => inbox[i] # inbox[j]
    BY DEF StreamInv, Fresh
  <2> QED BY <1>2, <2>4, <2>5, <2>7, <2>8 DEF Fresh
<1>9. Progress'
  <2>1. \A c \in Batches : \A i : Dealt(c, i) => Dealt(c, i)'
    BY <1>4 DEF Dealt
  <2>2. \A i \in DOMAIN todo[task.batch] : i < task'.item => Dealt(task.batch, i)'
    <3> SUFFICES ASSUME NEW i \in DOMAIN todo[task.batch], i < task'.item
                 PROVE  Dealt(task.batch, i)'
      OBVIOUS
    <3>1. i \in Nat
      BY <1>1, <1>3, TodoFacts
    <3>2. i < task.item => Dealt(task.batch, i)'
      BY <1>3, <2>1 DEF StreamInv, Progress
    <3>3. i < task.item \/ (task' = NextItem /\ i = task.item)
      BY <1>1, <1>3, <3>1, NextItemFacts
    <3>4. CASE task' = NextItem /\ i = task.item
      <4>1. task'.item # task.item
        BY <1>1, <1>3, <3>4, NextItemFacts
      <4> QED BY <3>4, <4>1
    <3> QED BY <3>2, <3>3, <3>4
  <2>3. \A b \in Batches : Settled(b) => Settled(b)'
    BY <2>1 DEF Settled
  <2> QED BY <1>2, <2>2, <2>3 DEF StreamInv, Progress
<1>10. Redelivered'
  BY <1>2 DEF StreamInv, Redelivered, Raises
<1> QED BY <1>5, <1>6, <1>7, <1>8, <1>9, <1>10 DEF StreamInv

\* The next item's alert is none that has been told of.
LEMMA NextIsNew ==
  ASSUME StreamInv, Busy, task' = NextItem, \A x \in told' : x.alert \in Known
  PROVE  Broadcast'
<1>1. StreamShape
  BY DEF StreamInv
<1>2. /\ task'.phase = "create" /\ task'.batch = task.batch /\ task'.nth = task.nth
      /\ task'.item = task.item + 1 /\ task'.audience = {} /\ task'.dead = {}
      /\ task.item \in Nat
  BY <1>1, NextItemFacts, TaskFacts
<1>3. \A a \in Known : a.item \in Nat
  BY <1>1 DEF StreamShape, AlertId, Known
<1>4. Alert'.batch = task.batch /\ Alert'.nth = task.nth /\ Alert'.item = task.item + 1
  BY <1>2 DEF Alert
<1>5. Alert' \notin Known
  BY <1>2, <1>3, <1>4 DEF StreamInv, Fresh
<1> QED BY <1>2, <1>5 DEF Broadcast

\* An alert cannot be made, or cannot be committed: the next item is taken.
LEMMA FailureStep ==
  ASSUME StreamInv, Busy, task' = NextItem,
         \E cause : failed' = failed \cup {Failure(cause)},
         UNCHANGED <<todo, autoAck, up, bound, message, adrift, deliveries, inbox, suspects, stored,
                     relayed, told, sockets, at, members, heard>>
  PROVE  StreamInv'
<1>1. StreamShape
  BY DEF StreamInv
<1>2. /\ NextItem \in Tasks /\ NextItem.batch = task.batch /\ NextItem.nth = task.nth
  BY <1>1, NextItemFacts
<1>3. /\ failed \subseteq failed'
      /\ \E b \in Batches, i \in Nat : b = task.batch /\ i = task.item /\ Dealt(b, i)'
  BY <1>1, TaskFacts DEF Dealt, Failure
<1>4. Broadcast'
  <2>1. \A x \in told' : x.alert \in Known
    BY DEF StreamInv, Told
  <2> QED BY <2>1, NextIsNew
<1>5. Membership' /\ Told' /\ members' \in [Nodes -> SUBSET Sockets]
      /\ heard' \in [Sockets -> SUBSET Known']
  BY DEF StreamInv, StreamShape, Membership, Told, Known
<1> QED BY <1>2, <1>3, <1>4, <1>5, TaskMoves

\* Those who have joined.
LEMMA EveryoneFacts ==
  ASSUME StreamInv
  PROVE  Everyone \subseteq Sockets /\ \A s \in Everyone : sockets[s] # "out"
BY DEF Everyone, StreamInv, StreamShape, Membership

LEMMA CreateFailsStep ==
  ASSUME StreamInv, CreateFails
  PROVE  StreamInv'
BY FailureStep DEF CreateFails, More, Busy, contentVars, busVars, socketVars

\* The alert is committed; whoever is in then is its audience.
LEMMA CreateStep ==
  ASSUME StreamInv, Create
  PROVE  StreamInv'
<1>1. /\ UNCHANGED <<todo, autoAck, up, bound, message, adrift, deliveries, inbox, suspects,
                     relayed, failed, told, sockets, at, members, heard>>
      /\ task.phase = "create" /\ task.item <= Len(todo[task.batch])
      /\ todo[task.batch][task.item] \notin {"raise", "status"} /\ stored' = stored \cup {Alert}
      /\ task' = [task EXCEPT !.phase = "refresh", !.audience = Everyone]
  BY DEF Create, More, ItemIs, contentVars, busVars, socketVars
<1>2. StreamShape /\ Busy
  BY <1>1 DEF StreamInv, Busy
<1>3. Everyone \subseteq Sockets /\ \A s \in Everyone : sockets[s] # "out"
  BY <1>2, EveryoneFacts
<1>4. /\ task' \in Tasks /\ task'.phase = "refresh" /\ task'.batch = task.batch
      /\ task'.nth = task.nth /\ task'.item = task.item /\ task'.audience = Everyone
      /\ task'.dead = task.dead
  BY <1>1, <1>2, <1>3, TaskFacts DEF Tasks
<1>5. task.item \in DOMAIN todo[task.batch]
  BY <1>1, <1>2, TaskFacts, TodoFacts DEF StreamInv, Numbered
<1>6. Alert \notin Known
  <2>1. Alert.batch = task.batch /\ Alert.nth = task.nth /\ Alert.item = task.item
    BY DEF Alert
  <2> QED BY <1>1, <1>2, <2>1, TaskFacts DEF StreamInv, Fresh
<1>7. Broadcast'
  <2>1. \A x \in told : x.alert # Alert
    BY <1>2 DEF StreamInv, Broadcast
  <2>2. \A s \in Sockets : Alert \notin heard[s]
    BY <1>2, <1>6 DEF StreamShape
  <2>3. task.dead = {}
    BY <1>1, <1>2 DEF StreamInv, Broadcast
  <2>4. Alert' = Alert
    BY <1>4 DEF Alert
  <2> QED BY <1>1, <1>3, <1>4, <2>1, <2>2, <2>3, <2>4 DEF Broadcast
<1>8. Membership' /\ Told' /\ members' \in [Nodes -> SUBSET Sockets]
      /\ heard' \in [Sockets -> SUBSET Known']
  BY <1>1, <1>2 DEF StreamInv, StreamShape, Membership, Told, Known
<1>9. task'.phase = "refresh" => Alert \in stored'
  BY <1>1
<1> QED BY <1>1, <1>2, <1>4, <1>5, <1>7, <1>8, <1>9, TaskMoves

\* The row is read back and the sockets are copied, or that fails.
LEMMA ReadBackStep ==
  ASSUME StreamInv, ReadBack
  PROVE  StreamInv'
<1>1. /\ UNCHANGED <<todo, autoAck, up, bound, message, adrift, deliveries, inbox, suspects, stored,
                     relayed, told, sockets, at, members, heard>>
      /\ task.phase = "refresh"
      /\ \/ /\ task' = [task EXCEPT !.phase = "send", !.targets = members[bound]]
            /\ failed' = failed
         \/ task' = NextItem /\ failed' = failed \cup {Failure("database")}
  BY DEF ReadBack, contentVars, busVars, socketVars
<1>2. StreamShape /\ Busy /\ bound \in Nodes
  BY <1>1, TaskFacts DEF StreamInv, Busy, Binding, StreamShape
<1>3. CASE task' = NextItem /\ failed' = failed \cup {Failure("database")}
  BY <1>1, <1>2, <1>3, FailureStep
<1>4. CASE /\ task' = [task EXCEPT !.phase = "send", !.targets = members[bound]]
           /\ failed' = failed
  <2>1. members[bound] \subseteq Sockets
    BY <1>2 DEF StreamShape
  <2>2. /\ task' \in Tasks /\ task'.phase = "send" /\ task'.batch = task.batch
        /\ task'.nth = task.nth /\ task'.item = task.item /\ task'.audience = task.audience
        /\ task'.dead = task.dead /\ task'.targets = members[bound]
    BY <1>2, <1>4, <2>1, TaskFacts DEF Tasks
  <2>3. /\ Alert \in stored /\ task.item \in DOMAIN todo[task.batch]
        /\ todo[task.batch][task.item] \notin {"raise", "status"}
    BY <1>1 DEF StreamInv, Numbered, Alert
  <2>4. Alert' = Alert
    BY <2>2 DEF Alert
  <2>5. Broadcast'
    <3>1. /\ \A x \in told : x.alert # Alert
          /\ \A s \in task.audience : sockets[s] # "out"
          /\ task.dead = {} /\ \A s \in Sockets : Alert \notin heard[s]
      BY <1>1, <1>2 DEF StreamInv, Broadcast
    <3>2. \A s \in members[bound] : at[s] = bound /\ sockets[s] # "out"
      BY <1>2 DEF StreamInv, Membership
    <3> QED BY <1>1, <2>2, <2>4, <3>1, <3>2 DEF Broadcast
  <2>6. Membership' /\ Told' /\ members' \in [Nodes -> SUBSET Sockets]
        /\ heard' \in [Sockets -> SUBSET Known']
    BY <1>1, <1>2 DEF StreamInv, StreamShape, Membership, Told, Known
  <2>7. stored' = stored \cup {Alert} /\ failed \subseteq failed' /\ task'.phase # "create"
    BY <1>1, <1>4, <2>2, <2>3
  <2> QED BY <1>1, <1>2, <2>2, <2>3, <2>5, <2>6, <2>7, TaskMoves
<1> QED BY <1>1, <1>3, <1>4

\* The broadcast of a status begins: nothing is stored.
LEMMA RelayStep ==
  ASSUME StreamInv, Relay
  PROVE  StreamInv'
<1>1. /\ UNCHANGED <<todo, autoAck, up, bound, message, adrift, deliveries, inbox, suspects, stored,
                     failed, told, sockets, at, members, heard>>
      /\ task.phase = "create" /\ relayed' = relayed \cup {Alert}
      /\ task' = [task EXCEPT !.phase = "send", !.targets = members[bound],
                              !.audience = Everyone]
  BY DEF Relay, More, ItemIs, contentVars, busVars, socketVars
<1>2. StreamShape /\ Busy /\ bound \in Nodes
  BY <1>1, TaskFacts DEF StreamInv, Busy, Binding, StreamShape
<1>3. Everyone \subseteq Sockets /\ \A s \in Everyone : sockets[s] # "out"
  BY EveryoneFacts
<1>4. members[bound] \subseteq Sockets
  BY <1>2 DEF StreamShape
<1>5. /\ task' \in Tasks /\ task'.phase = "send" /\ task'.batch = task.batch
      /\ task'.nth = task.nth /\ task'.item = task.item /\ task'.audience = Everyone
      /\ task'.dead = task.dead /\ task'.targets = members[bound]
  BY <1>1, <1>2, <1>3, <1>4, TaskFacts DEF Tasks
<1>6. Alert' = Alert
  BY <1>5 DEF Alert
<1>7. Broadcast'
  <2>1. (\A x \in told : x.alert # Alert) /\ task.dead = {}
    BY <1>1, <1>2 DEF StreamInv, Broadcast
  <2>2. \A s \in members[bound] : at[s] = bound /\ sockets[s] # "out"
    BY <1>2 DEF StreamInv, Membership
  <2> QED BY <1>1, <1>3, <1>5, <1>6, <2>1, <2>2 DEF Broadcast
<1>8. Membership' /\ Told' /\ members' \in [Nodes -> SUBSET Sockets]
      /\ heard' \in [Sockets -> SUBSET Known']
  BY <1>1, <1>2 DEF StreamInv, StreamShape, Membership, Told, Known
<1> QED BY <1>1, <1>2, <1>5, <1>7, <1>8, TaskMoves

\* A socket is sent the alert, or turns out to be closed.
LEMMA SendStep ==
  ASSUME StreamInv, NEW s \in Sockets, Send(s)
  PROVE  StreamInv'
<1>1. /\ UNCHANGED <<todo, autoAck, up, bound, message, adrift, deliveries, inbox, suspects, stored,
                     relayed, failed, told, sockets, at, members>>
      /\ task.phase = "send" /\ s \in task.targets
      /\ \/ /\ heard' = [heard EXCEPT ![s] = @ \cup {Alert}]
            /\ task' = [task EXCEPT !.targets = @ \ {s}]
         \/ /\ sockets[s] = "closed" /\ heard' = heard
            /\ task' = [task EXCEPT !.targets = @ \ {s}, !.dead = @ \cup {s}]
  BY DEF Send, AfterDead, contentVars, logVars, busVars
<1>2. StreamShape /\ Busy /\ bound \in Nodes
  BY <1>1, TaskFacts DEF StreamInv, Busy, Binding, StreamShape
<1>3. /\ task' \in Tasks /\ task'.phase = "send" /\ task'.batch = task.batch
      /\ task'.nth = task.nth /\ task'.item = task.item /\ task'.audience = task.audience
      /\ task'.targets = task.targets \ {s}
      /\ \/ task'.dead = task.dead
         \/ task'.dead = task.dead \cup {s} /\ sockets[s] = "closed"
  <2>1. CASE task' = [task EXCEPT !.targets = @ \ {s}]
    BY <1>1, <1>2, <2>1, TaskFacts DEF Tasks
  <2>2. CASE /\ task' = [task EXCEPT !.targets = @ \ {s}, !.dead = @ \cup {s}]
             /\ sockets[s] = "closed"
    BY <1>1, <1>2, <2>2, TaskFacts DEF Tasks
  <2> QED BY <1>1, <2>1, <2>2
<1>4. /\ Alert \in Known
      /\ Alert \in stored => /\ task.item \in DOMAIN todo[task.batch]
                             /\ todo[task.batch][task.item] \notin {"raise", "status"}
  BY <1>1 DEF StreamInv, Numbered, Alert
<1>5. Alert' = Alert
  BY <1>3 DEF Alert
<1>6. /\ heard' \in [Sockets -> SUBSET Known]
      /\ \A t \in Sockets : /\ heard[t] \subseteq heard'[t]
                             /\ heard'[t] \subseteq heard[t] \cup {Alert}
      /\ \A t \in Sockets : t # s => heard'[t] = heard[t]
  <2>1. heard \in [Sockets -> SUBSET Known]
    BY <1>2 DEF StreamShape
  <2>2. CASE heard' = heard
    BY <2>1, <2>2
  <2>3. CASE heard' = [heard EXCEPT ![s] = @ \cup {Alert}]
    BY <1>4, <2>1, <2>3
  <2> QED BY <1>1, <2>2, <2>3
<1>7. at[s] = bound /\ sockets[s] # "out"
  BY <1>1 DEF StreamInv, Broadcast
<1>8. \A x \in told : x.alert # Alert
  BY <1>2 DEF StreamInv, Broadcast
<1>9. Broadcast'
  <2>1. /\ \A t \in task.targets : at[t] = bound /\ sockets[t] # "out"
        /\ \A t \in task.dead : sockets[t] = "closed"
        /\ \A t \in task.audience \cap members[bound] :
             t \in task.targets \cup task.dead \/ Alert \in heard[t]
        /\ \A t \in task.audience : sockets[t] # "out"
    BY <1>1, <1>2 DEF StreamInv, Broadcast
  <2>3. \A t \in task'.dead : sockets[t] = "closed"
    BY <1>3, <2>1
  <2>4. s \in task'.dead \/ Alert \in heard'[s]
    <3>1. CASE heard' = [heard EXCEPT ![s] = @ \cup {Alert}]
      BY <1>2, <3>1 DEF StreamShape
    <3>2. CASE task' = [task EXCEPT !.targets = @ \ {s}, !.dead = @ \cup {s}]
      BY <1>2, <3>2, TaskFacts DEF Tasks
    <3> QED BY <1>1, <3>1, <3>2
  <2>5. \A t \in task.audience \cap members[bound] :
          t \in task'.targets \cup task'.dead \/ Alert \in heard'[t]
    <3>1. members[bound] \subseteq Sockets
      BY <1>2 DEF StreamShape
    <3> QED BY <1>3, <1>6, <2>1, <2>4, <3>1
  <2> QED BY <1>1, <1>3, <1>5, <1>8, <2>1, <2>3, <2>5 DEF Broadcast
<1>10. Told'
  BY <1>1, <1>6, <1>8 DEF StreamInv, Told, Known
<1>11. Membership' /\ members' \in [Nodes -> SUBSET Sockets]
  <2>1. members \in [Nodes -> SUBSET Sockets] /\ Membership
    BY <1>2 DEF StreamInv, StreamShape
  <2>2. \A t \in Sockets : sockets[t] = "out" => heard'[t] = {}
    <3>1. \A t \in Sockets : sockets[t] = "out" => t # s /\ heard[t] = {}
      BY <1>7, <2>1 DEF Membership
    <3> QED BY <1>6, <3>1
  <2> QED BY <1>1, <2>1, <2>2 DEF Membership
<1>12. /\ \/ Alert \in stored /\ stored' = stored \cup {Alert} /\ relayed' = relayed
          \/ stored' = stored /\ relayed' = relayed \cup {Alert}
       /\ failed \subseteq failed' /\ told \subseteq told'
       /\ task'.phase # "create" /\ task'.phase # "refresh"
       /\ heard' \in [Sockets -> SUBSET Known']
  BY <1>1, <1>3, <1>4, <1>6 DEF Known
<1> QED BY <1>1, <1>2, <1>3, <1>4, <1>9, <1>10, <1>11, <1>12, TaskMoves

\* The dead are taken from the set; the others have been told.
LEMMA EndBroadcastStep ==
  ASSUME StreamInv, EndBroadcast
  PROVE  StreamInv'
<1> DEFINE r == [alert |-> Alert, node |-> bound, audience |-> task.audience]
<1>1. /\ UNCHANGED <<todo, autoAck, up, bound, message, adrift, deliveries, inbox, suspects, stored,
                     relayed, failed, sockets, at, heard>>
      /\ task.phase = "send" /\ task.targets = {}
      /\ members' = [members EXCEPT ![bound] = @ \ task.dead]
      /\ told' = told \cup {r} /\ task' = NextItem
  BY DEF EndBroadcast, Discard, contentVars, busVars
<1>2. StreamShape /\ Busy /\ bound \in Nodes
  BY <1>1, TaskFacts DEF StreamInv, Busy, Binding, StreamShape
<1>3. r.alert = Alert /\ r.node = bound /\ r.audience = task.audience
  OBVIOUS
<1> HIDE DEF r
<1>4. Alert \in Known /\ Alert.batch = task.batch /\ Alert.item = task.item
  BY <1>1 DEF StreamInv, Numbered, Alert
<1>5. /\ members' \in [Nodes -> SUBSET Sockets]
      /\ \A n \in Nodes : members'[n] = IF n = bound THEN members[n] \ task.dead ELSE members[n]
  BY <1>1, <1>2 DEF StreamShape
<1>6. /\ \A t \in task.dead : sockets[t] = "closed"
      /\ \A t \in task.audience \cap members[bound] : t \in task.dead \/ Alert \in heard[t]
      /\ \A t \in task.audience : sockets[t] # "out"
  BY <1>1, <1>2 DEF StreamInv, Broadcast
<1>7. Membership'
  BY <1>1, <1>2, <1>5, <1>6 DEF StreamInv, Membership
<1>8. Told'
  <2>1. task.audience \subseteq Sockets
    BY <1>2, TaskFacts
  <2>2. /\ r.alert \in Known /\ r.node \in Nodes /\ r.audience \subseteq Sockets
        /\ \A s \in r.audience : /\ sockets[s] # "out"
                                 /\ s \in members'[r.node] => r.alert \in heard[s]
    BY <1>2, <1>3, <1>4, <1>5, <1>6, <2>1
  <2>3. \A x \in told : \A s \in x.audience : s \in members'[x.node] => s \in members[x.node]
    BY <1>5 DEF StreamInv, Told
  <2> QED BY <1>1, <2>2, <2>3 DEF StreamInv, Told, Known
<1>9. Broadcast'
  <2>1. \A x \in told' : x.alert \in Known
    BY <1>1, <1>3, <1>4 DEF StreamInv, Told
  <2> QED BY <1>1, <1>2, <2>1, NextIsNew
<1>10. \E b \in Batches, i \in Nat : b = task.batch /\ i = task.item /\ Dealt(b, i)'
  BY <1>1, <1>2, <1>3, <1>4, TaskFacts DEF Dealt
<1>11. /\ task' \in Tasks /\ task'.batch = task.batch /\ task'.nth = task.nth
       /\ heard' \in [Sockets -> SUBSET Known']
  BY <1>1, <1>2, NextItemFacts DEF StreamShape, Known
<1> QED BY <1>1, <1>2, <1>5, <1>7, <1>8, <1>9, <1>10, <1>11, TaskMoves

\* The handler returns, and an acknowledgement is tried; or it raises.
LEMMA TaskEnds ==
  ASSUME StreamInv, Finish \/ Raise
  PROVE  StreamInv'
<1>1. /\ UNCHANGED <<todo, autoAck, up, bound, deliveries, inbox, suspects, stored, relayed, failed,
                     told, sockets, at, members, heard>>
      /\ task.phase = "create" /\ task' = NoTask
  BY DEF Finish, Raise, More, ItemIs, contentVars, logVars, socketVars
<1>2. StreamShape /\ Busy
  BY <1>1 DEF StreamInv, Busy
<1>3. /\ task.batch \in Batches /\ task.item \in Nat /\ task.item > 0
      /\ \A i \in DOMAIN todo[task.batch] : i < task.item => Dealt(task.batch, i)
  BY <1>2, TaskFacts DEF StreamInv, Numbered, Progress
<1>4. Len(todo[task.batch]) \in Nat /\ DOMAIN todo[task.batch] = 1 .. Len(todo[task.batch])
  BY <1>2, <1>3, TodoFacts
<1>5. \/ Acknowledge(task.batch) /\ Settled(task.batch)
      \/ message' = message /\ adrift' = adrift /\ Raises(task.batch)
  <2>1. CASE Finish
    <3>1. Acknowledge(task.batch) /\ task.item > Len(todo[task.batch])
      BY <2>1 DEF Finish, Handled
    <3>2. \A i \in DOMAIN todo[task.batch] : i < task.item
      BY <1>3, <1>4, <3>1
    <3> QED BY <1>3, <3>1, <3>2 DEF Settled
  <2>2. CASE Raise
    <3>1. /\ task.item \in DOMAIN todo[task.batch] /\ todo[task.batch][task.item] = "raise"
          /\ IF autoAck THEN Acknowledge(task.batch) ELSE UNCHANGED <<message, adrift>>
      BY <1>3, <1>4, <2>2 DEF Raise, More, ItemIs
    <3>2. \A i \in DOMAIN todo[task.batch] : i < task.item \/ task.item \in 1 .. i
      BY <1>3, <1>4
    <3>3. CASE autoAck
      BY <1>3, <3>1, <3>2, <3>3 DEF Settled
    <3>4. CASE ~autoAck
      BY <3>1, <3>4 DEF Raises
    <3> QED BY <3>3, <3>4
  <2> QED BY <2>1, <2>2
<1>6. /\ message' \in [Batches -> {"new", "sent", "acked"}] /\ adrift' \subseteq Batches
      /\ adrift \subseteq adrift' /\ adrift' \subseteq adrift \cup {task.batch}
      /\ \A b \in Batches : b # task.batch => message'[b] = message[b]
      /\ Acknowledge(task.batch) =>
           message'[task.batch] = "acked" \/ task.batch \in adrift'
  <2>1. message \in [Batches -> {"new", "sent", "acked"}] /\ adrift \subseteq Batches
    BY <1>2 DEF StreamShape
  <2>2. CASE message' = message
    <3>1. adrift' = adrift \/ adrift' = adrift \cup {task.batch}
      BY <1>5 DEF Acknowledge
    <3>2. message = Acked(task.batch) => message[task.batch] = "acked"
      BY <1>3, <2>1 DEF Acked
    <3> QED BY <1>3, <2>1, <2>2, <3>1, <3>2 DEF Acknowledge
  <2>3. CASE message' = Acked(task.batch) /\ adrift' = adrift
    BY <1>3, <2>1, <2>3 DEF Acked
  <2> QED BY <1>5, <2>2, <2>3 DEF Acknowledge
<1>7. ~Busy' /\ task'.phase = "idle" /\ Waiting' = Waiting
  BY <1>1 DEF Busy, NoTask, Waiting
<1>8. StreamShape'
  BY <1>1, <1>2, <1>6 DEF StreamShape, Known
<1>9. Binding' /\ Membership' /\ Told'
  BY <1>1 DEF StreamInv, Binding, Membership, Told, Known
<1>10. Numbered' /\ Fresh' /\ Broadcast'
  BY <1>1, <1>7 DEF StreamInv, Numbered, Fresh, Broadcast, Known
<1>11. Progress'
  <2> SUFFICES ASSUME NEW b \in Batches, message'[b] = "acked" \/ b \in adrift'
               PROVE  Settled(b)
    BY <1>1, <1>7 DEF Progress, Settled, Dealt
  <2>1. CASE message[b] = "acked" \/ b \in adrift
    BY <2>1 DEF StreamInv, Progress
  <2>2. CASE message[b] # "acked" /\ b \notin adrift
    <3>1. b = task.batch /\ (message' # message \/ adrift' # adrift)
      BY <1>6, <2>2
    <3> QED BY <1>5, <3>1
  <2> QED BY <2>1, <2>2
<1>12. Redelivered'
  <2>1. InHand \subseteq InHand' \cup {task.batch}
    BY <1>1, <1>2 DEF InHand
  <2> SUFFICES ASSUME NEW b \in Batches, b \notin suspects \cup adrift', ~Raises(b)
               PROVE  /\ deliveries[b] <= 1
                      /\ deliveries[b] = 1 /\ message'[b] # "acked" => b \in InHand'
    BY <1>1 DEF Redelivered, Raises
  <2>2. /\ deliveries[b] <= 1
        /\ deliveries[b] = 1 /\ message[b] # "acked" => b \in InHand
    BY <1>6 DEF StreamInv, Redelivered
  <2>3. CASE b = task.batch
    BY <1>5, <1>6, <2>2, <2>3
  <2>4. CASE b # task.batch
    BY <1>6, <2>1, <2>2, <2>4
  <2> QED BY <2>3, <2>4
<1> QED BY <1>8, <1>9, <1>10, <1>11, <1>12 DEF StreamInv

\* An acknowledgement that was under way arrives.
LEMMA AckArrivesStep ==
  ASSUME StreamInv, NEW b \in Batches, AckArrives(b)
  PROVE  StreamInv'
<1>1. /\ UNCHANGED <<todo, autoAck, up, bound, adrift, deliveries, inbox, suspects, task, stored,
                     relayed, failed, told, sockets, at, members, heard>>
      /\ b \in adrift /\ message' = Acked(b)
  BY DEF AckArrives, contentVars, logVars, socketVars
<1>2. /\ message' \in [Batches -> {"new", "sent", "acked"}]
      /\ \A c \in Batches : c # b => message'[c] = message[c]
  BY <1>1 DEF StreamInv, StreamShape, Acked
<1>3. StreamShape'
  BY <1>1, <1>2 DEF StreamInv, StreamShape, Known
<1>4. Binding' /\ Membership' /\ Numbered' /\ Fresh' /\ Broadcast' /\ Told'
  BY <1>1
  DEF StreamInv, Binding, Membership, Numbered, Fresh, Broadcast, Told, Known, Waiting, Busy,
      Current, Alert
<1>5. Progress'
  <2>1. \A c \in Batches : Settled(c) => Settled(c)'
    BY <1>1 DEF Settled, Dealt
  <2>2. Busy => \A i \in DOMAIN todo[task.batch] : i < task.item => Dealt(task.batch, i)
    BY DEF StreamInv, Progress
  <2>3. \A c \in Batches : message'[c] = "acked" \/ c \in adrift => Settled(c)
    BY <1>1, <1>2 DEF StreamInv, Progress
  <2> QED BY <1>1, <2>1, <2>2, <2>3 DEF Progress, Busy, Dealt
<1>6. Redelivered'
  BY <1>1, <1>2 DEF StreamInv, Redelivered, Raises, InHand
<1> QED BY <1>3, <1>4, <1>5, <1>6 DEF StreamInv

-----------------------------------------------------------------------------
(* The theorems.                                                            *)

\* Every step of the stream keeps the invariant.
LEMMA StreamStep ==
  ASSUME StreamInv, StreamNext
  PROVE  StreamInv'
<1>1. ASSUME NEW n \in Nodes, Start(n) \/ End(n) PROVE StreamInv'
  BY <1>1, StartStep, EndStep
<1>2. CASE Release
  BY <1>2, StartStep
<1>3. ASSUME NEW b \in Batches, Deliver(b) \/ AckArrives(b) PROVE StreamInv'
  BY <1>3, DeliverStep, AckArrivesStep
<1>4. CASE Begin
  BY <1>4, BeginStep
<1>5. CASE CreateFails
  BY <1>5, CreateFailsStep
<1>6. CASE Create
  BY <1>6, CreateStep
<1>7. CASE ReadBack \/ Relay
  BY <1>7, ReadBackStep, RelayStep
<1>8. CASE EndBroadcast
  BY <1>8, EndBroadcastStep
<1>9. CASE Finish \/ Raise
  BY <1>9, TaskEnds
<1>10. ASSUME NEW s \in Sockets, Send(s) PROVE StreamInv'
  BY <1>10, SendStep
<1>11. ASSUME NEW s \in Sockets,
              \/ \E n \in Nodes : Connect(s, n)
              \/ ClientCloses(s) \/ Disconnect(s) \/ LoopRaises(s)
       PROVE  StreamInv'
  BY <1>11, SocketStep
<1> QED
  BY <1>1, <1>2, <1>3, <1>4, <1>5, <1>6, <1>7, <1>8, <1>9, <1>10, <1>11 DEF StreamNext

\* Such a step leaves each variable alone.
LEMMA StreamUnchanged ==
  ASSUME UNCHANGED streamVars
  PROVE  UNCHANGED <<todo, autoAck, up, bound, message, adrift, deliveries, inbox, suspects, task,
                     stored, relayed, failed, told, sockets, at, members, heard>>
BY DEF streamVars, contentVars, busVars, logVars, socketVars

\* A step that leaves the stream alone keeps the invariant.
LEMMA StreamStutters ==
  ASSUME StreamInv, UNCHANGED streamVars
  PROVE  StreamInv'
<1>1. StreamShape' /\ Binding' /\ Membership' /\ Told'
  BY StreamUnchanged DEF StreamInv, StreamShape, Binding, Membership, Told, Known
<1>2. Numbered' /\ Fresh' /\ Broadcast'
  BY StreamUnchanged
  DEF StreamInv, Numbered, Fresh, Broadcast, Waiting, Busy, Current, Alert, Known
<1>3. Progress' /\ Redelivered'
  BY StreamUnchanged DEF StreamInv, Progress, Settled, Dealt, Redelivered, Raises, InHand, Busy
<1> QED BY <1>1, <1>2, <1>3 DEF StreamInv

\* In every behaviour of the workers the stream's invariant holds.
LEMMA StreamInvariant == Spec => []StreamInv
<1>1. Init => StreamInv
  <2> SUFFICES ASSUME Init PROVE StreamInv
    OBVIOUS
  <2> QED BY StreamInitial DEF Init
<1>2. StreamInv /\ [Next]_vars => StreamInv'
  <2> SUFFICES ASSUME StreamInv, [Next]_vars PROVE StreamInv'
    OBVIOUS
  <2>1. StreamNext \/ UNCHANGED streamVars
    BY DEF Next, vars
  <2> QED BY <2>1, StreamStep, StreamStutters
<1> QED BY <1>1, <1>2, PTL DEF Spec

\* A message is acknowledged only when each of its alerts has been stored or
\* has failed, when its status has been broadcast, or because the client library
\* acknowledges a batch that raises.
THEOREM AcknowledgedIsHandled == Spec => []AckedIsHandled
<1>1. StreamInv => AckedIsHandled
  BY DEF StreamInv, Progress, Settled, Dealt, AckedIsHandled
<1> QED BY <1>1, StreamInvariant, PTL

\* An alert is stored twice only if the message was slow, its process ended, its
\* acknowledgement went astray, or its batch raises each time.
THEOREM DuplicatesExplained == Spec => []DuplicateExplained
<1>1. StreamInv => DuplicateExplained
  <2> SUFFICES ASSUME StreamInv, NEW a \in stored, NEW c \in stored,
                      a.batch = c.batch, a.nth # c.nth, a.batch \notin suspects \cup adrift
               PROVE  Raises(a.batch)
    BY DEF DuplicateExplained, Raises
  <2>1. /\ a.batch \in Batches /\ a.nth \in Nat \ {0} /\ c.nth \in Nat \ {0}
        /\ deliveries[a.batch] \in Nat
    BY DEF StreamInv, StreamShape, AlertId
  <2>2. a.nth <= deliveries[a.batch] /\ c.nth <= deliveries[a.batch]
    BY DEF StreamInv, Numbered, Known
  <2>3. ~(deliveries[a.batch] <= 1)
    BY <2>1, <2>2
  <2> QED BY <2>1, <2>3 DEF StreamInv, Redelivered
<1> QED BY <1>1, StreamInvariant, PTL

\* When the broadcast of an alert or a status has ended, the clients of the
\* process that handled it have been sent it, whatever other sockets did.
THEOREM ClientsAreTold == Spec => []ClientsHear
<1>1. StreamInv => ClientsHear
  <2> SUFFICES ASSUME StreamInv PROVE ClientsHear
    OBVIOUS
  <2>1. \A s \in Sockets : heard[s] \subseteq stored \cup relayed
    BY DEF StreamInv, StreamShape, Known
  <2>2. ASSUME NEW x \in told, NEW s \in x.audience, sockets[s] = "in", at[s] = x.node
        PROVE  x.alert \in heard[s]
    <3>1. s \in Sockets /\ (s \in members[x.node] => x.alert \in heard[s])
      BY DEF StreamInv, Told
    <3>2. s \in members[at[s]]
      BY <2>2, <3>1 DEF StreamInv, Membership
    <3> QED BY <2>2, <3>1, <3>2
  <2> QED BY <2>1, <2>2 DEF ClientsHear
<1> QED BY <1>1, StreamInvariant, PTL

\* A socket that a broadcast could not reach is no longer in the set.
THEOREM DeadSocketsDropped == Spec => []DeadAreDropped
<1>1. StreamInv => DeadAreDropped
  BY DEF StreamInv, Told, DeadAreDropped
<1> QED BY <1>1, StreamInvariant, PTL

\* The states of all four parts have their types, whatever the constants.
THEOREM TypeCorrect == Spec => []TypeOK
<1>1. StreamInv => StreamTypeOK
  <2> SUFFICES ASSUME StreamInv PROVE StreamTypeOK
    OBVIOUS
  <2>1. bound \in Nodes \cup {"nobody", "ghost"} /\ up \subseteq Nodes
    BY DEF StreamInv, StreamShape
  <2>2. (bound \in Nodes => bound \in up) /\ (task # NoTask => bound \in Nodes)
    BY DEF StreamInv, Binding
  <2>3. \A n \in Nodes : \A s \in members[n] : at[s] = n
    BY DEF StreamInv, Membership
  <2>4. ASSUME NEW a \in stored
        PROVE  todo[a.batch][a.item] \in Severe /\ a.nth <= deliveries[a.batch]
    <3>1. /\ a.nth <= deliveries[a.batch] /\ a.item \in DOMAIN todo[a.batch]
          /\ todo[a.batch][a.item] \notin {"raise", "status"}
      BY DEF StreamInv, Numbered, Known
    <3>2. todo[a.batch] \in Seq(Severe \cup {"raise", "status"})
      BY DEF StreamInv, StreamShape, AlertId
    <3>3. todo[a.batch][a.item] \in Severe \cup {"raise", "status"}
      BY <3>1, <3>2
    <3> QED BY <3>1, <3>3
  <2> QED BY <2>1, <2>2, <2>3, <2>4 DEF StreamTypeOK
<1>2. WorkersInv => SessionsTypeOK /\ UpdateTypeOK /\ LimiterTypeOK
  BY DEF WorkersInv, SessionsInv, UpdateInv
<1>3. StreamInv /\ WorkersInv => TypeOK
  BY <1>1, <1>2 DEF TypeOK
<1> QED BY <1>3, StreamInvariant, WorkersInvariant, PTL
=============================================================================
