---------------------------- MODULE AlertStream ----------------------------
(***************************************************************************)
(* Telemetry from the JetStream stream to the alerts clients see:          *)
(* event_bus.subscribe hands each message to the pipeline, which creates   *)
(* alerts one after the other; each is committed, broadcast to the sockets *)
(* of this process, and published; then the message is acknowledged.       *)
(* (services/event_bus.py, alert_pipeline.py, api/v1/websocket.py, and the *)
(* lifespan in main.py.)                                                   *)
(*                                                                         *)
(* The durable consumer is bound to one subscriber: the other processes'   *)
(* subscribe raises, which main catches, and none of them tries again.     *)
(* Messages of a subscription are handled one at a time.  The subscription *)
(* to device status has a stream and a channel of its own: a behaviour     *)
(* looks at one of the two.                                                *)
(***************************************************************************)
EXTENDS Detection, FiniteSets

CONSTANTS
  Nodes,           \* the worker processes
  Batches,         \* messages of the stream
  Payloads,        \* bound: the lists of events a message may hold
  Sockets,         \* clients of /ws/alerts, or of /ws/devices
  ColumnSets,      \* the columns of Alert: as in the source, or as the pipeline takes them to be
  MaxDeliveries,   \* bound: deliveries of one message
  MaxStarts        \* bound: starts of processes

AlertColumns == {"id", "device_id", "severity", "category", "title", "description",
                 "evidence", "status", "acknowledged_by", "source", "mitre_tactic",
                 "mitre_technique", "created_at", "resolved_at"}

Given == {"device_id", "title", "description", "severity", "alert_type", "source", "details"}

Severe == {"critical", "high", "medium"}

ASSUME AlertStreamAssumption ==
  /\ MaxDeliveries \in Nat /\ MaxStarts \in Nat /\ AlertColumns \in ColumnSets
  /\ {"nobody", "ghost"} \cap Nodes = {}
  /\ Payloads \subseteq Seq(Events)

VARIABLES
  todo,        \* what each message makes the pipeline do: create alerts, or relay a status
  columns,     \* the columns of Alert
  autoAck,     \* does the client library acknowledge when the callback returns?
  bound,       \* the process bound to the consumer, "nobody", or "ghost": a dead one
  up,          \* processes that run
  starts,      \* how many have been started
  message,     \* each message: "new", "sent" or "acked"
  adrift,      \* messages whose acknowledgement failed, was lost, or is still under way
  deliveries,  \* how often each was delivered
  inbox,       \* deliveries the bound process has not begun
  task,        \* what it is doing
  stored,      \* alerts committed: message, place, and the delivery that did it
  relayed,     \* device statuses whose broadcast has begun
  failed,      \* alerts whose creation failed, and what failed
  sockets,     \* each client's socket: out, in, closed
  at,          \* the process it is connected to
  watched,     \* sockets whose receive loop runs
  members,     \* _connections["alerts"] of each process
  heard,       \* the alerts, or statuses, each client was sent
  told,        \* broadcasts that ended: the alert, the process, and all who were in
  suspects     \* messages redelivered because they were slow, or a process died

contentVars == <<todo, columns, autoAck>>
busVars     == <<bound, starts, message, adrift, deliveries, inbox, suspects>>
logVars     == <<stored, relayed, failed, told>>
socketVars  == <<sockets, at, watched, members, heard>>
streamVars  == <<contentVars, up, busVars, task, logVars, socketVars>>

NoTask == [phase |-> "idle"]

Alert == [batch |-> task.batch, item |-> task.item, nth |-> task.nth]

-----------------------------------------------------------------------------
(* The processes and the consumer.                                          *)

\* lifespan: connecting may fail, and then nothing is ever subscribed.
Start(n) ==
  /\ n \notin up /\ starts < MaxStarts
  /\ up' = up \cup {n} /\ starts' = starts + 1
  /\ bound' \in IF bound = "nobody" THEN {n, "nobody"} ELSE {bound}
  /\ UNCHANGED <<contentVars, message, adrift, deliveries, inbox, task, suspects, logVars,
                 socketVars>>

\* What a process that ends had in hand or waiting.
InHand == {inbox[i].batch : i \in DOMAIN inbox}
          \cup (IF task = NoTask THEN {} ELSE {task.batch})

Disconnected(n) ==
  /\ sockets' = [s \in Sockets |-> IF at[s] = n THEN "closed" ELSE sockets[s]]
  /\ watched' = {s \in watched : at[s] # n}
  /\ members' = [members EXCEPT ![n] = {}]
  /\ UNCHANGED <<at, heard>>

\* The lifespan's end closes the connection and the running handler with it;
\* of a process that is killed the server learns later (Release).
End(n) ==
  /\ n \in up /\ up' = up \ {n}
  /\ IF bound = n
     THEN bound' \in {"nobody", "ghost"} /\ inbox' = <<>> /\ task' = NoTask
          /\ suspects' = suspects \cup InHand
     ELSE UNCHANGED <<bound, inbox, task, suspects>>
  /\ Disconnected(n)
  /\ UNCHANGED <<contentVars, starts, message, adrift, deliveries, logVars>>

Release ==
  /\ bound = "ghost" /\ bound' = "nobody"
  /\ UNCHANGED <<contentVars, up, starts, message, adrift, deliveries, inbox, task, suspects,
                 logVars, socketVars>>

\* The server delivers a message, again if its acknowledgement is overdue.
Deliver(b) ==
  /\ bound \in Nodes /\ message[b] # "acked" /\ deliveries[b] < MaxDeliveries
  /\ message' = [message EXCEPT ![b] = "sent"]
  /\ deliveries' = [deliveries EXCEPT ![b] = @ + 1]
  /\ inbox' = Append(inbox, [batch |-> b, nth |-> deliveries[b] + 1])
  /\ suspects' = IF b \in InHand THEN suspects \cup {b} ELSE suspects
  /\ UNCHANGED <<contentVars, bound, up, starts, adrift, task, logVars, socketVars>>

-----------------------------------------------------------------------------
(* The handler.                                                             *)

Acked(b) == [message EXCEPT ![b] = "acked"]

\* An acknowledgement reaches the server, or it does not, or not yet: sending
\* it may raise, which is logged, and nobody confirms that it has arrived.
Acknowledge(b) ==
  \/ message' = Acked(b) /\ UNCHANGED adrift
  \/ adrift' = adrift \cup {b} /\ UNCHANGED message

AckArrives(b) ==
  /\ b \in adrift /\ message[b] # "acked"
  /\ message' = Acked(b)
  /\ UNCHANGED <<contentVars, up, bound, starts, adrift, deliveries, inbox, suspects, task, logVars,
                 socketVars>>

CreateAt(b, nth, item) ==
  [phase |-> "create", batch |-> b, nth |-> nth, item |-> item,
   targets |-> {}, dead |-> {}, audience |-> {}]

\* A change of AckFirst: the message is acknowledged before it is handled.
AckAtOnce(b) == Acked(b)

AckFirst(b) == message

Begin ==
  /\ task = NoTask /\ inbox # <<>>
  /\ task' = CreateAt(inbox[1].batch, inbox[1].nth, 1)
  /\ inbox' = Tail(inbox)
  /\ message' = AckFirst(inbox[1].batch)
  /\ UNCHANGED <<contentVars, bound, up, starts, adrift, deliveries, suspects, logVars, socketVars>>

More == task.phase = "create" /\ task.item <= Len(todo[task.batch])
ItemIs(kind) == More /\ todo[task.batch][task.item] = kind
NextItem == CreateAt(task.batch, task.nth, task.item + 1)

\* Every keyword is a column, and the category, which has no default and must
\* not be null, is none.
Accepted == Given \subseteq columns /\ "category" \notin columns
Failure(cause) == [batch |-> task.batch, item |-> task.item, cause |-> cause]

\* Those who have joined, whichever process they are connected to.
Everyone == UNION {members[n] : n \in Nodes}

\* Alert(...) raises TypeError for a keyword that is no column, the insert or
\* the commit may fail: caught, and the batch goes on.
CreateFails ==
  /\ More /\ ~ItemIs("raise") /\ ~ItemIs("status")
  /\ failed' = failed \cup {Failure(IF Accepted THEN "database" ELSE "keyword")}
  /\ task' = NextItem
  /\ UNCHANGED <<contentVars, up, stored, relayed, told, busVars, socketVars>>

Create ==
  /\ More /\ ~ItemIs("raise") /\ ~ItemIs("status")
  /\ Accepted
  /\ stored' = stored \cup {Alert}
  /\ task' = [task EXCEPT !.phase = "refresh", !.audience = Everyone]
  /\ UNCHANGED <<contentVars, up, relayed, failed, told, busVars, socketVars>>

\* The row is read back, which may fail, and then the sockets are copied.
ReadBack ==
  /\ task.phase = "refresh"
  /\ \/ /\ task' = [task EXCEPT !.phase = "send", !.targets = members[bound]]
        /\ UNCHANGED failed
     \/ /\ task' = NextItem
        /\ failed' = failed \cup {Failure("database")}
  /\ UNCHANGED <<contentVars, up, stored, relayed, told, busVars, socketVars>>

\* A device's status is not stored, only broadcast.
Relay ==
  /\ ItemIs("status")
  /\ relayed' = relayed \cup {Alert}
  /\ task' = [task EXCEPT !.phase = "send", !.targets = members[bound], !.audience = Everyone]
  /\ UNCHANGED <<contentVars, up, stored, failed, told, busVars, socketVars>>

\* A change of AfterDead: the first failure ends the broadcast.
AfterDeadStops(s) == [task EXCEPT !.targets = {}, !.dead = @ \cup {s}]

AfterDead(s) == [task EXCEPT !.targets = @ \ {s}, !.dead = @ \cup {s}]

\* A send to a socket that is closed raises, unless nobody has noticed yet.
Send(s) ==
  /\ task.phase = "send" /\ s \in task.targets
  /\ \/ /\ sockets[s] = "in"
        /\ heard' = [heard EXCEPT ![s] = @ \cup {Alert}]
        /\ task' = [task EXCEPT !.targets = @ \ {s}]
     \/ /\ sockets[s] = "closed"
        /\ task' = AfterDead(s)
        /\ UNCHANGED heard
  /\ UNCHANGED <<contentVars, up, logVars, busVars, sockets, at, watched, members>>

\* A change of Discard: the dead are taken from the copy.
DiscardNone(dead) == members

Discard(dead) == [members EXCEPT ![bound] = @ \ dead]

\* Then an alert is published to the bus; if that fails, it is logged only.
EndBroadcast ==
  /\ task.phase = "send" /\ task.targets = {}
  /\ members' = Discard(task.dead)
  /\ told' = told \cup {[alert |-> Alert, node |-> bound, audience |-> task.audience]}
  /\ task' = NextItem
  /\ UNCHANGED <<contentVars, up, stored, relayed, failed, busVars, sockets, at, watched, heard>>

\* A change of Handled: the handler forgets to acknowledge.
HandledOnly(b) == UNCHANGED <<message, adrift>>

Handled(b) == Acknowledge(b)

Finish ==
  /\ task.phase = "create" /\ task.item > Len(todo[task.batch])
  /\ Handled(task.batch)
  /\ task' = NoTask
  /\ UNCHANGED <<contentVars, bound, up, starts, deliveries, inbox, suspects, logVars, socketVars>>

\* The exception is logged: no acknowledgement, unless the library sends one.
Raise ==
  /\ ItemIs("raise")
  /\ IF autoAck THEN Acknowledge(task.batch) ELSE UNCHANGED <<message, adrift>>
  /\ task' = NoTask
  /\ UNCHANGED <<contentVars, bound, up, starts, deliveries, inbox, suspects, logVars, socketVars>>

-----------------------------------------------------------------------------
(* The sockets.                                                             *)

OnlySockets == UNCHANGED <<contentVars, up, busVars, task, logVars>>

Connect(s, n) ==
  /\ sockets[s] = "out" /\ n \in up
  /\ sockets' = [sockets EXCEPT ![s] = "in"] /\ at' = [at EXCEPT ![s] = n]
  /\ members' = [members EXCEPT ![n] = @ \cup {s}] /\ watched' = watched \cup {s}
  /\ OnlySockets /\ UNCHANGED heard

ClientCloses(s) ==
  /\ sockets[s] = "in"
  /\ sockets' = [sockets EXCEPT ![s] = "closed"]
  /\ OnlySockets /\ UNCHANGED <<at, watched, members, heard>>

\* receive_text raises WebSocketDisconnect.
Disconnect(s) ==
  /\ s \in watched /\ sockets[s] = "closed"
  /\ members' = [members EXCEPT ![at[s]] = @ \ {s}] /\ watched' = watched \ {s}
  /\ OnlySockets /\ UNCHANGED <<sockets, at, heard>>

\* A text that is JSON and no object, or a frame that is no text: the loop ends
\* with another exception, and the server closes the socket.
LoopRaises(s) ==
  /\ s \in watched /\ sockets[s] = "in"
  /\ sockets' = [sockets EXCEPT ![s] = "closed"] /\ watched' = watched \ {s}
  /\ OnlySockets /\ UNCHANGED <<at, members, heard>>

StreamInit ==
  /\ todo \in [Batches -> {ProcessTelemetryBatch(p) : p \in Payloads}]
              \cup [Batches -> {<<"status">>, <<"raise">>}]
  /\ columns \in ColumnSets
  /\ autoAck \in IF \E b \in Batches : \E j \in DOMAIN todo[b] : todo[b][j] = "raise"
                 THEN BOOLEAN ELSE {TRUE}     \* it makes no difference where none raises
  /\ bound = "nobody" /\ up = {} /\ starts = 0
  /\ message = [b \in Batches |-> "new"] /\ adrift = {} /\ deliveries = [b \in Batches |-> 0]
  /\ inbox = <<>> /\ task = NoTask
  /\ stored = {} /\ relayed = {} /\ failed = {} /\ told = {} /\ suspects = {}
  /\ sockets = [s \in Sockets |-> "out"] /\ at = [s \in Sockets |-> "nobody"]
  /\ watched = {} /\ members = [n \in Nodes |-> {}]
  /\ heard = [s \in Sockets |-> {}]

StreamNext ==
  \/ \E n \in Nodes : Start(n) \/ End(n)
  \/ Release
  \/ \E b \in Batches : Deliver(b) \/ AckArrives(b)
  \/ Begin \/ CreateFails \/ Create \/ ReadBack \/ Relay \/ EndBroadcast \/ Finish \/ Raise
  \/ \E s \in Sockets :
       \/ Send(s) \/ ClientCloses(s) \/ Disconnect(s) \/ LoopRaises(s)
       \/ \E n \in Nodes : Connect(s, n)

-----------------------------------------------------------------------------
\* Alerts are of events that do not raise, and of deliveries there were.
StreamTypeOK ==
  /\ bound \in Nodes \cup {"nobody", "ghost"} /\ up \subseteq Nodes
  /\ bound \in Nodes => bound \in up
  /\ task # NoTask => bound \in Nodes
  /\ \A a \in stored : todo[a.batch][a.item] \in Severe /\ a.nth <= deliveries[a.batch]
  /\ \A n \in Nodes : \A s \in members[n] : at[s] = n

\* A message is acknowledged only when each of its alerts has been stored or
\* its creation has failed, or when its status has been broadcast to the end;
\* of a malformed batch, those before the bad event, and then only because the
\* client library acknowledges by itself.
AckedIsHandled ==
  \A b \in Batches : message[b] = "acked" =>
    \A i \in DOMAIN todo[b] :
      \/ \E a \in stored : a.batch = b /\ a.item = i
      \/ \E f \in failed : f.batch = b /\ f.item = i
      \/ \E x \in told : x.alert.batch = b /\ x.alert.item = i
      \/ autoAck /\ \E j \in 1 .. i : todo[b][j] = "raise"

\* An alert is in the table twice only if a process was stopped or killed with
\* the message in hand, if handling it took longer than the server waits, if
\* its acknowledgement failed, was lost or came late, or if its batch ends in an
\* event that raises each time.
DuplicateExplained ==
  \A a, c \in stored :
    (a.batch = c.batch /\ a.item = c.item /\ a.nth # c.nth) =>
      \/ a.batch \in suspects \cup adrift
      \/ ~autoAck /\ \E j \in DOMAIN todo[a.batch] : todo[a.batch][j] = "raise"

\* When the broadcast of an alert or a status has ended, each client of the
\* process that handles the stream that had joined when it was committed, or its
\* relay began, and is still there has been sent it, other sockets' failures
\* notwithstanding; and nobody is sent what is not in the table or relayed.
ClientsHear ==
  /\ \A x \in told : \A s \in x.audience :
       sockets[s] = "in" /\ at[s] = x.node => x.alert \in heard[s]
  /\ \A s \in Sockets : heard[s] \subseteq stored \cup relayed

\* "Server broadcasts events to all connected clients": each client that had
\* joined and is still there has been sent it, whichever process it reached.
AllClientsHear ==
  \A x \in told : \A s \in x.audience : sockets[s] = "in" => x.alert \in heard[s]

\* A broadcast removes the sockets it could not reach: one that is still in
\* the set after being closed has its receive loop to remove it, or has been
\* sent every alert since it joined (it was closed after the last one).
DeadAreDropped ==
  \A n \in Nodes, s \in Sockets :
    (s \in members[n] /\ sockets[s] = "closed" /\ s \notin watched) =>
      \A x \in told : (x.node = n /\ s \in x.audience) => x.alert \in heard[s]
=============================================================================
