# GuardianPI: models, checks and proofs

TLA+ specifications of GuardianPI (agents that collect security events on
devices, a server that ingests them), TLC configurations for small instances,
and TLAPS proofs for all instances. The source, not the documentation, is what
is modelled. Paths below are relative to the repository.

## 1. The system

| Part | State it keeps | Operations | Interacts with | Hard behaviour | What makes it correct |
|---|---|---|---|---|---|
| Edge agent, sender and lifecycle (`edge-agent/cmd/agent/main.go`, `internal/transport`) | the channel of 500 events, the current batch, the context, the device id | collect, batch, post, queue on failure, drain on a ticker, flush and stop on a signal | collectors (channel), disk queue (calls), server (HTTP) | bounded channel, random `select`, lost replies, crashes, shutdown order | no event lost unaccounted for, none held twice, no needless resend, the process stops |
| Edge agent, disk queue (`internal/queue`) | one file per body, named by the clock | `Enqueue`, `Dequeue`, `enforceLimit`, `listFiles` | sender, file system, wall clock | kill between file operations, full disk, two names alike, clock set back | first-in first-out, bounded, whole bodies |
| Edge agent, collectors and detection (`internal/collector`, `internal/detector`) | known PIDs and addresses, file baseline, alerted rule/PID pairs | periodic scans, file watcher | channel | blocking sends, reused PIDs, PIDs that share a key, changes between hash and watch | each change or process is reported once, or a named cause explains why not |
| Python agent, telemetry path (`agent/guardian_agent.py`, `agent/telemetry/sender.py`) | a list of at most 100 events, in memory | `queue_event`, `flush`, `stop` | monitor loops (one asyncio thread), server | events queued during the await of a post, cancellation | as for the edge agent's sender |
| Python agent, monitors (`agent/monitors`) | file baseline on disk, known devices, PIDs, addresses | `check`, `scan`, `detect_anomalies` | telemetry path | baseline saved before its event is delivered | no change is forgotten |
| Python agent, remediation (`agent/remediation`) | quarantined PIDs, blocked addresses | quarantine, release, block, unblock | operating system | PID reuse, rules that do not match | what is recorded is what is in force |
| Backend, ingestion and transactions (`backend/app/api/v1/telemetry.py`, `core/database.py`) | tables | one transaction per request, committed before the reply | both agents | all-or-nothing batches, rejected bodies | a body is committed whole or not at all |
| Backend, record handlers (`api/v1/alerts.py`, `devices.py`, `investigations.py`, `policies.py`, `remediation.py`, `auth.py`, `metrics.py`, `compliance.py`) | rows | create, update, close, assign, roll back | console | concurrent read-modify-write, status sequences | an update is lost, or two mix, only where requests overlap; a failed request leaves nothing |
| Backend, alert stream (`services/alert_pipeline.py`, `event_bus.py`, `api/v1/websocket.py`) | durable subscriptions, sets of sockets | detect, create alert, broadcast, publish | NATS, database, sockets | redelivery, failure between commit and publish, sockets that come and go | every alert reaches the connected clients, none is made twice |
| Backend, scoring (`services/detection_service.py`, `threat_service.py`, `compliance_service.py`, `_check_compatibility`) | none | pure functions | pipeline, handlers | thresholds, boundaries | agree with their reference definition |
| Backend, rate limiter (`core/redis.py`) | a counter with an expiry per key | `check_rate_limit` | Redis | window renewed at each hit | at most N per window, and service resumes |
| Backend, tokens (`api/v1/auth.py`, `api/deps.py`, `core/security.py`, `core/config.py`) | a signing key per worker process, users' rows | login, refresh, use | workers, restarts | keys drawn at start, users that change | a token is good at every worker; it carries no rights of its own |
| Backend, agent versions (`api/v1/agent_update.py`) | a dictionary per worker process | publish, check | agents | uploads that overlap, restarts | no agent is taken back without a reason |
| Local server (`run_local.py`) | SQLite tables | the backend's operations, reduced | agents, console | answers 200 where the agent expects 202 | as the backend |

The other parts (cryptography wrappers, configuration, host probes, console, mobile app, legacy Flask application, deployment files) hold
no state that evolves over several steps; `PROJECT.json` lists each with the
reason it is left out, and lists every hazard found in the code at its line.

## 2. Modules

| Module | What it is |
|---|---|
| `OfflineQueue` | the values the disk queue holds and what its operations do to them in one step |
| `DiskQueue`, `MCDiskQueue` | `queue.go` file operation by file operation, with kills, write errors and the clock |
| `Fifo` | abstract: a queue of files that leave in the order they came |
| `EdgeAgent`, `MCEdgeAgent` | the edge agent process, its channel, sender, queue and shutdown, and the server and network at the other end |
| `TelemetrySender`, `MCTelemetrySender` | the Python agent's telemetry path against three kinds of server |
| `Delivery` | abstract: what both agents promise about an event |
| `Records`, `MCRecords`, `RecordsProofs` | the rows behind the console and the agents' endpoints, under concurrent requests, on the backend and on `run_local.py` |
| `Sessions` | tokens over several worker processes, and on `run_local.py` |
| `AgentUpdates` | the registries of agent versions |
| `RateLimiter` | `check_rate_limit` for one key |
| `Detection` | the detection engine and what the pipeline makes of a batch, as functions |
| `AlertStream` | the pipeline from the message bus to the sockets |
| `Workers`, `MCWorkers` | composes the four: what worker processes keep outside the database |
| `Monitors` | the Python agent's file baseline and removable media |
| `Processes` | the host's processes; the Python agent's process monitor and quarantine |
| `Firewall` | the Python agent's rules in the host's firewall |
| `EdgeMonitors` | the edge agent's detection keys, process monitor and file watcher, on the files of `Monitors` and the processes of `Processes` |
| `Host`, `MCHost` | composes the four: what the agents remember of their host |
| `OfflineQueueProofs`, `DiskQueueProofs`, `EdgeAgentProofs`, `TelemetrySenderProofs`, `HostProofs`, `WorkersProofs`, `StreamProofs` | the proofs |

`EdgeAgent` extends `OfflineQueue` and uses each queue operation as one step,
which is what the other goroutines see, since only the sender calls the queue.
`DiskQueue` extends the same module and takes the operations apart; its
invariant `StepsAddUp` says that the pieces add up to `OfflineQueue`'s
operators, also when a kill cuts them short, so that the two models agree
through operators and not by assertion.

`Workers` and `Host` compose parts that do not read each other's variables: a
behaviour moves one of them, `part`, which costs the sum of their states where
a product would add no behaviour that a property could tell apart. The parts
of `Host` that share the host (`processes`, `engine` and `visits`; `files` and
`watches`) use the same actions for its moves.

### EdgeAgent and the code

Events are numbered as they enter the channel. The channel is FIFO and the
batch takes from its head, so channel and batch are intervals and three
counters (`produced`, `taken`, `flushed`) represent both: `eventCh` and `batch`
are defined from them.

| Model | Code |
|---|---|
| `CollectorTick`, `CollectorSend`, `CollectorStop` | the loops of `collector.go` and `detector.go`: `select` on `ctx.Done` and the ticker, then plain sends. `todo[c]` is what a scan still has to send; while it is positive the goroutine does not look at `ctx` |
| `TakeEvent`, `TakeEventAndSend`, `Tick`, `SenderStop` | the cases of `runSender`'s `select` (`main.go` 171-197) |
| `pc`, `caller`, `body` | where the sender's goroutine is, which call it is in, and the body it posts or enqueues |
| `PostOk`, `PostRejected`, `PostUnanswered` | `transport.Post` (67-95) with the handler and its transaction. `live` is whether the context was still good when the call began: with a cancelled one nothing is sent |
| `Accepts` | `ingest_telemetry`: plaintext in development only; a bare array or a torn file fails validation; `UUID(device_id)` is evaluated for severe events only |
| `adrift`, `LateIngest`, `RequestVanishes` | a request the client gave up on, which the server may process at any later time or never |
| `Save`, `SaveFails`, `SaveOver` | `Enqueue`, successful, failing (its error is ignored), or onto the file of the same name |
| `DrainTake`, `DrainEnd` | `drainQueue`'s loop: `Dequeue` reads and removes before the post |
| `Signal`, `Exit` | the signal, `cancel`, `wg.Wait` |
| `Crash`, `Start` | a kill at any step, during an `Enqueue` at any of its file operations; the restart finds the queue directory only |

`lost` is a history variable: it collects the events the code lets go of by a
crash, by the size limit, by overwriting or failing to write a file, or at
exit. `unsure` collects the events of every request that ever went unanswered
although the server may process it. Neither is read by an action.

### TelemetrySender and the code

The monitor loops and the flush loop are tasks of one thread; the only await
that lets them interleave is the post inside `flush`, so `Flush` (take all,
clear, start the post) and the three outcomes are the steps, and `QueueEvent`
runs between them. `server` chooses the other end: the backend in production
(rejects, since the agent passes no encryption key), in development (accepts,
but fails on severe events, since `device_id` is `"self"`), or `run_local.py`
(commits and answers 200, which `flush` takes for a failure). `Stop` covers
both the cancellation of the tasks and a kill: neither puts the snapshot back
nor flushes the queue.

### Delivery

An event is created, arrives, or is given up; the sender holds it until one of
the two has happened. Neither order nor a single arrival is promised, because
neither agent provides it. Both agents implement it: `EdgeAgent` with
`held` = memory and disk, `TelemetrySender` with `held` = queue and flight.

### Records and the code

`req[r]` is a request with its session: `Receive` is the beginning of a handler
up to and including the row it loads (or its 404), and one action per handler
is the rest: what it assigns, the flush, the response and the commit of
`get_db`. Between the two other requests commit. `Flushed` is SQLAlchemy's
`UPDATE` of the columns that differ from the loaded ones; that is why two
closings of a case can mix, and why a status equal to the loaded one is not
written over a newer one. `Respond` is the order in `get_db`: the response
model is built before the commit, so that a refusal rolls back. `server` is
`strict` where pydantic refuses the UUID that `id: str` is declared for,
`lenient` where it does not, `local` for `run_local.py`. `missed` is a history
of the commits that fell into a session. Reading handlers take one statement
at a time (`seen`), since at read committed each sees its own state.
`Operator` stands for the statuses no handler sets, `Cut` for a worker that
dies. A database that fails under a session is a `Cut`, or the answer "none" of
`Commit`: the client gets nothing, or a 500, and of either cannot tell whether
there was a commit.

Ids that a handler writes without looking them up are arguments: `DeviceIds`,
`UserIds` and `AlertIds` hold those in the tables and one that is in none, for
which a foreign key fails at the flush (`Unknown`; the assignee of a case, the
alert and the device of a remediation action, the device of an alert). `Bad`
stands for what a schema lets through and the handler or a column refuses
(`Unchecked` lists the handlers it can reach: an id that is no UUID, an explicit
null for a column without, since `update_policy` sets whatever was sent, a text
that is too long or holds a NUL); `Refuse` is the 500 that follows. Devices,
alerts and users are never deleted by a handler, so that an id once found stays
good.

### Workers and the code

| Model | Code |
|---|---|
| `Login`, `Refresh`, `Request` | `auth.py`, `deps.py`: `get_current_user`, `require_role` |
| `NewKey` | `config.py` 36: the key is drawn when settings are made, unless the environment has it |
| `LocalLogin`, `LocalRequest` | `run_local.py`: its tokens have types that nothing reads |
| `StartUpload`, `FinishUpload`, `CheckForUpdate` | `agent_update.py`: the entry is written after the upload has been read |
| `CheckRateLimit`, `TimePasses` | `redis.py`: `INCR` and `EXPIRE` in one `MULTI` |
| `Start`, `End`, `Release`, `Deliver` | the lifespan of `main.py`, `event_bus.subscribe`, and JetStream's delivery to a durable consumer |
| `Begin`, `Create`, `CreateFails`, `ReadBack`, `Relay`, `Send`, `EndBroadcast`, `Finish`, `Raise` | `_handler` of `event_bus.py` with `process_telemetry_batch`, `_create_alert`, `_handle_device_status` and `broadcast` |
| `Acknowledge`, `AckArrives` | `msg.ack()`: an unconfirmed publish that may raise, be lost or be late |
| `Connect`, `ClientCloses`, `Disconnect`, `LoopRaises` | `websocket.py`: the receive loop removes a socket on `WebSocketDisconnect` only |

`todo` is what `ProcessTelemetryBatch` makes of a message: rules, scores and
thresholds are evaluated in `Detection` on real events. `columns` is the set of
columns of `Alert`, either as in the source, where each creation raises (see
the end of section 4), or as the pipeline takes them to be, so that what comes
after creation is checked too. A message of the device channel is `"status"`: it
is broadcast and not stored (`relayed`). `autoAck` leaves open whether the client
library acknowledges when a callback has raised; it is TRUE where no message
raises, since it then makes no difference.

`Acknowledge` ends the handler in one of two ways: the server has the
acknowledgement, or it has not, or not yet, and the message is `adrift`. The
second covers an `ack` that raises (the exception is logged, and the message
is out of the process's hands), one that is lost with the connection or a kill,
and one that arrives after the message has been delivered again
(`AckArrives`). A connection that breaks under a process that goes on is not
a step of its own; what it does to a message is `adrift`, or a `suspects`
redelivery.

`suspects`, `adrift` but for `AckArrives`, `told`, `heard`, `crossed`,
`published`, `log` and `reply` are histories.

### Host and the code

| Model | Code |
|---|---|
| `InitializeBaseline`, `CheckFiles`, `Save` | `file_integrity.py`: a check compares, then saves, then returns its events to the sender |
| `FlushEvents`, `Restart`, `CheckCut` | the events leave with a later flush; what is in memory dies with the process, also in the middle of a check, when the file may be torn |
| `CheckUsb` | `usb_monitor.py`: names of devices only |
| `Scan` | `process_monitor.py`: a PID is examined once |
| `QuarantineProcess`, `ReleaseProcess` | `quarantine.py` |
| `BlockIp`, `UnblockIp`, and their time-outs | `firewall_manager.py` against `iptables`, `netsh` and `pfctl` |
| `ListForEngine`, `Match` | `RunDetectionEngine`: the list of PIDs, then each in turn, while processes come and go |
| `ListForVisits`, `ReadName`, `CountConnections` | `RunProcessMonitor`: a send that may block lies between the name and the connections |
| `Hash`, `AddWatch`, `Notice` | `RunFileIntegrity`; `Touched` is what inotify does with a watch when a file is written, deleted or replaced |

Properties of `Host` say what the agents' memory and the host agree on, and
name each cause of a difference: a lost baseline, an event that died with the
process, a reused PID, a command that timed out, a file without a watch.
`told`, `observed`, `seen`, `matched`, `met`, `heardOf`, `unseen` and the
like are histories that no action reads, except that a first baseline is told
once.

What these properties do not measure: `told` is set when an event is in the
sender's list, which is in memory, so that a kill after a check and before the
flush is not a difference `HostReported` sees (`TelemetrySender` accounts for
the event as given up). `baselineLost` speaks of the whole baseline and is never
reset: once a save has failed, nothing more is asked of any file. `ProcessesAccounted` relates quarantine's list to what
is suspended; that `release_process` resumes whatever has the PID, quarantined
or not, is `ReleaseProcess`, and no property speaks against it. `Present`
filters removable media as `check` does (`usb_monitor.py` 23-26);
`_initialize` (15) filters by the options alone, and the two differ only
for options that psutil does not report.

## 3. Runs

| Run | Result | What it shows |
|---|---|---|
| `edge_safety` | passes, 1.8 million states | `NoSilentLoss`, `HeldOnce`, `DuplicateNeedsLostReply`, `ResendsOnlyUnsure`, `QueueBound`, the refinement `KeepsPromise` |
| `edge_liveness` | passes | `SenderReturns`, `StopsWhileRoom`, `NoStarvation` |
| `edge_hang` | violates `StopsGracefully` | finding 1 |
| `edge_flush` | violates `FlushedEventsArrive` | finding 2 |
| `disk_queue` | passes | `StepsAddUp`, and the refinement `KeepsOrder` while the clock does not step back |
| `disk_queue_clock` | violates `KeepsOrder` | finding 3 |
| `python_sender` | passes | `HeldOnce`, `DuplicateNeedsLostReply`, `KeepsPromise`, `NoStarvation` |
| `python_trim` | violates `OldestDropped` | finding 4 |
| `records` | passes, 0.9 million states | `FailedLeavesNoTrace`, `FailuresExplained`, `EntriesKept`, `FindingsAgree`, `CountsExplained`, `ReopenNeedsEntry`, `StatusAsAsked`, `HeartbeatKeepsStatus` |
| `workers` | passes, 5.0 million states | `TokensHonoured`, `RightsAreCurrent`, `DowngradeExplained`, `SlidingLimit`, `AckedIsHandled`, `DuplicateExplained`, `ClientsHear`, `DeadAreDropped` |
| `all_clients` | violates `AllClientsHear` | finding 5 |
| `host` | passes, 0.3 million states | `HostReported`, `ProcessesAccounted`, `BlockedMatchesRules` |

Each passing run also checks its module's `TypeOK`.

### Bounds

* `edge_safety`: one collector, three events, one of them severe, a channel of
  two, batches of two, two process lives, one adrift request, a queue limit of
  two units (a body weighs one plus its events), bursts of two, coarse clock
  and disk faults on. Three events give a full and a partial batch in hand, on
  disk and in the channel at once. The limit is as tight as it is so that
  three events suffice for `enforceLimit` to evict one file, to evict several,
  and to evict a single file that is too large by itself. Two lives are enough
  for every kind of leftover (payload with and without device id, raw array,
  torn file) to meet the next drain. One collector suffices because `eventCh`
  orders the events and safety does not depend on who sent them; more
  collectors are covered by the proofs.
* `edge_liveness`: two collectors, one life, no faults: the two collectors
  fill a channel of two together. `MaxAdrift = 0`, because a late commit only
  helps delivery.
* `edge_hang`: one collector whose scan emits three events, a channel of two.
* `edge_flush`: one event, two lives.
* `disk_queue`: two bodies of different weight, five clock readings, a limit
  that holds two files. The readings are two-digit numbers: `UnixNano` has 19
  digits from 2001 to 2286, and only equal lengths sort as numbers, so equal
  lengths are what the agent meets. `Digits` and `SortsFirst` still compare
  the decimal strings, as the code does.
* `python_sender`, `python_trim`: a queue limit of two for 100 and four
  events, enough for a re-queued pair to be longer than the limit together
  with a new pair; two lives.

* `records`: three requests at a time, so that two may commit in a third's
  session. The operations are grouped into seven mixes by the tables they
  touch: requests on different tables do not meet. One row of each table from
  before stands for those that need not be created first, and each id without a
  look-up is also asked for with one that is in no table; two names make a
  `UNIQUE` constraint bite; the two hosts are one on the thresholds of its
  system and one just below.
* `workers`: two processes, which is enough for a token, an upload or a socket
  to be at another process than the one that matters. `sessions`: a clock of
  three ticks, in which both kinds of token expire (after one and two) with a
  restart in between, four tokens.
  `updates`: five uploads of up to four versions, so that three can overlap.
  `limiter`: a limit of two in a window of three over nine ticks, which is two
  windows from every first request. `stream`: one message, delivered twice,
  with no event, three events that take the three ways through the pipeline,
  one that raises after one that is stored, or a device's status; two sockets;
  two starts. Two deliveries are what a lost acknowledgement needs to store an
  alert twice.
* `all_clients`: the same, the stream only, with the columns of the source.
* `host`: two paths with two contents, and two media for one device, so that a
  swap can look like no change; three starts, so that a crash can follow a
  recovery. Three PIDs for three processes: a PID can be reused while another
  is not, and two of them are no code point and share a key. One process is
  protected, the rule matches the others. Two addresses, each with a rule and
  an equal one. `Symmetry` permutes paths, contents and those two PIDs, which
  nothing else tells apart.

`MaxEvents`, `MaxStarts`, `MaxAdrift`, `Requests`, `MaxTime`, `MaxRestarts`,
`MaxTokens`, `MaxVersion`, `MaxUploads`, `MaxAsked`, `MaxClock`, `MaxDeliveries`,
`MaxRuns`, `MaxAgents`, `MaxManagers` and `MaxRules` bound counters that are
unbounded in the code; everything else is a parameter of the code made small.
Runs other than `host` do not check for deadlock, because those systems may
stop: the agent exits, the last start has been used, each request has been
answered, the clock stands at its last reading.

### Fairness

`EdgeAgent`: weak fairness for a step a goroutine can always take once it is
there (a send into a channel with room, the next drain step, the end of a post,
which the client's 30 s timeout guarantees, the end of an `Enqueue`, `Exit`),
strong fairness for the cases of a `select`, since Go picks at random among
the ready cases and a case that is ready again and again is picked eventually.
Signals, crashes, restarts, new events and the network are not fair.
`TelemetrySender`: weak fairness of the flush loop and of the end of a post.
`NoStarvation` further assumes, in its premise, that from some time on the
agent runs and the server answers.

The specifications of `Records`, `Workers` and `Host` state no fairness and are
checked for safety only: a request may be cut at any time, redelivery has no
bound that the code sets, and a host moves as it likes.

## 4. Findings

1. **The edge agent can hang at shutdown** (`edge_hang`). After the signal
   `runSender` returns, and nothing receives from the channel. A collector in
   the middle of a scan keeps sending without looking at the context
   (`collector.go` 124 and the like, `detector.go` 188); once the channel is
   full it blocks, and `wg.Wait` (`main.go` 140) with it. `StopsWhileRoom`
   shows that this is the only way.
2. **The batch flushed at shutdown never arrives** (`edge_flush`). `main.go`
   176 writes the bare array of events, not the payload `sendBatch` builds; the
   server rejects the file, and `drainQueue` puts it back each time.
3. **The disk queue is FIFO by the wall clock only** (`disk_queue_clock`).
   `queue.go` 14 promises a FIFO queue; after the clock is set back it is not.
4. **The Python agent drops newer events before older ones** (`python_trim`).
   `sender.py` 35 says the oldest are dropped; a failed flush appends the older
   ones at the end, and the trim keeps the end.
5. **Clients of other workers are told nothing** (`all_clients`).
   `WEBSOCKET_EVENTS.md` 84 says that the "server broadcasts events to all
   connected clients", and `websocket.py` 113 that an alert goes "to all
   connected WebSocket clients". `ws_manager` is a global of its process,
   `backend/Dockerfile` 17 starts four, the durable consumer gives the stream to
   one, and nothing passes an event on. In the counterexample a device's status
   is relayed by one worker while a client has joined at the other. `ClientsHear`
   shows what does hold: the clients of the worker that handles the stream are
   told, whatever other sockets do.

Met on the way, and part of the models:

* Where pydantic refuses a UUID for `id: str`, every handler that answers with
  a row fails with 500 and, since `get_db` rolls back, has no effect
  (`server = "strict"`); that is safe, but nothing works.
* No alert is ever created from the stream: `alert_pipeline.py` 117 calls
  `Alert(alert_type=..., details=...)`, the model has neither column
  (`models/alert.py` 18-53: `category`, `evidence`), SQLAlchemy raises `TypeError`
  for each, `_create_alert` logs it, and the batch is acknowledged. It is
  `Accepted` in `AlertStream`: with the columns of the source `Create` is never
  taken, and every severe event ends in `CreateFails` with the cause `keyword`.
  The alerts that `telemetry.py` creates itself are not affected.
* `agent_update.py` imports `verify_agent_api_key` from `api/deps.py`, which does
  not define it, so that the module cannot be loaded as it is. It is modelled as
  if it were there.
* `check_rate_limit`, `threat_service`, `create_audit_entry`, `publish_telemetry`,
  `publish_device_status`, `QuarantineManager` and `FirewallManager` have no caller in the repository.
* `run_local.py` takes refresh tokens for access tokens, and serves users that
  have been disabled.
* A client that keeps asking is refused for ever: each refused request renews
  the window (`SlidingLimit`, second conjunct).
* An agent is offered whatever a process's registry holds if it differs, also
  an older version (`DowngradeExplained`).
* A second worker's subscription raises and is not tried again: after the bound
  worker dies, the stream stands still until a process starts.
* The Python file monitor repeats a deletion at each check and never says that
  the file is back as it was; a torn baseline file is replaced in silence.
* On Linux `unblock_ip` deletes a rule without the comment `block_ip` added:
  somebody else's, or none; on macOS it does nothing and reports success
  (`BlockedMatchesRules`).
* The edge agent's detection key is `string(rune(pid))`: PIDs that are no code
  point (55296 to 57343, and above 1114111) share a key with 65533, and the
  first of them to match hides the others; keys are never dropped, so that a
  reused PID is hidden too (`MatchesReported`).
* The edge agent watches files, not their directory: a file that is replaced,
  as editors do, loses its watch with that event, and later changes raise none
  (`WatchesReport`).

## 5. Proofs

`OfflineQueueProofs` proves what the queue's operators return, preserve and
bound: `Limit` is a suffix, `Put`, `PutOver` and taking the head neither invent
nor duplicate events, and what disappears is what `lost` is told. It also holds
the two facts that every induction over data rests on: a set of naturals that
is not empty has a least element, and a set of naturals that contains 0 and the
successor of each of its members contains all. The library states induction
for an arbitrary formula, which the provers cannot instantiate; here the
formula is a set, comprehended where it is needed. From these come the sums:
that a total over a finite set exists and does not depend on the order in which
it is taken, what a body at either end of a queue adds to its weight, and that
`Excess` is the least number of files whose removal brings the rest within the
limit.

The theorems hold for all values of the constants that satisfy the assumptions
named in the modules: `QueueAssumption`, `AgentAssumption`, `SenderAssumption`
(positive sizes, natural bounds), `DiskQueueAssumption` (a body has finitely
many events), `MonitorsAssumption`, `ProcessesAssumption`,
`FirewallAssumption`, `EdgeMonitorsAssumption` (nothing that stands for
absence is a value), `SessionsAssumption`, `AgentUpdatesAssumption`,
`RateLimiterAssumption`, `AlertStreamAssumption` and `RecordsAssumption`.

| Module | Theorem | States |
|---|---|---|
| `EdgeAgentProofs` | `TypeCorrect`, `NothingLostSilently`, `HeldInOnePlace`, `ResendsNeedLostReply`, `DuplicatesNeedLostReply` | `TypeOK`, `NoSilentLoss`, `HeldOnce`, `ResendsOnlyUnsure`, `DuplicateNeedsLostReply` |
| | `QueueIsBounded` | `QueueBound` |
| | `AgentKeepsPromise` | `Spec => KeepsPromise` |
| `DiskQueueProofs` | `TypeCorrect`, `TotalsAreRight` | `TypeOK`, and its invariant `DiskInv` |
| | `OperationsAddUp`, `OrderIsKept`, under `SameWidth` and `~StepsBack` | `StepsAddUp`, `Spec => KeepsOrder` |
| `TelemetrySenderProofs` | `TypeCorrect`, `HeldInOnePlace`, `DuplicatesNeedLostReply` | `TypeOK`, `HeldOnce`, `DuplicateNeedsLostReply` |
| | `PythonAgentKeepsPromise` | `Spec => KeepsPromise` |
| `RecordsProofs` | `TypeCorrect`, `NoTraceOfFailures`, `FailuresHaveReasons`, `EntriesAreKept`, `FindingsAgreed` | `TypeOK`, `FailedLeavesNoTrace`, `FailuresExplained`, `EntriesKept`, `FindingsAgree` |
| | `CountsHaveReasons` | `CountsExplained` |
| | `ReopenedByEntries`, `UpdatedAsAsked`, `QuarantineHolds` | `ReopenNeedsEntry`, `StatusAsAsked`, `HeartbeatKeepsStatus` |
| `WorkersProofs` | `TokensAreHonoured`, `RightsAlwaysCurrent`, `DowngradesExplained`, `LimitSlides` | `TokensHonoured`, `RightsAreCurrent`, `DowngradeExplained`, `SlidingLimit` |
| `StreamProofs` | `TypeCorrect`, `AcknowledgedIsHandled`, `DuplicatesExplained`, `ClientsAreTold`, `DeadSocketsDropped` | `TypeOK` of `Workers`, `AckedIsHandled`, `DuplicateExplained`, `ClientsHear`, `DeadAreDropped` |
| | `NoMinorAlerts` | what the pipeline makes of any batch: alerts of medium severity or above, or "raise" |
| `HostProofs` | `TypeCorrect`, `HostIsReported`, `ProcessesAreAccounted`, `BlockedAgreesWithRules` | `TypeOK`, `HostReported`, `ProcessesAccounted`, `BlockedMatchesRules` |

How they go:

* **Edge agent.** None of the four safety properties is inductive alone.
  `NoSilentLoss` breaks at an acknowledged post unless the body's events are
  known to be in one place; `DuplicateNeedsLostReply` needs to know, when a
  body is committed, that what the server already has of it was unsure before,
  which is `ResendsOnlyUnsure`; and that in turn needs `HeldOnce`, or a requeue
  could bring back events of another, acknowledged body. Their conjunction
  `Accounted`, with `TypeOK`, is inductive. The refinement maps each action to
  `Create`, `Arrive`, `GiveUp` or a stutter of `Delivery`. For `QueueBound`,
  `SizesInv` adds that the batch is short of `BatchSize`, that the body in hand
  and every file hold at most `BatchSize` events, and that the files together
  weigh at most the limit and one body: `enforceLimit` runs before the write,
  not after it.
* **Disk queue.** `DiskInv` holds whatever the clock does: the directory is a
  finite set of names with whole or torn bodies, and while `enforceLimit` runs,
  its list and its total are those of the directory. The names are sorted by
  their digits, as `sort.Strings` does. That this is a strict total order, in
  which names of the same length stand in the order of their numbers, is
  proved by induction over the digits. `Sorted` is defined by rank, the number
  of names that sort before: the sorting operator of TLC's module is evaluated
  by Java and says nothing to a prover. Taking the first name, or adding one
  behind all others, then shortens or extends the sorted sequence at its end
  (`FirstLeaves`, `LastJoins`). `OrderInv` adds that no file is younger than
  the clock and that the one being written is the last; from it follow
  `StepsAddUp` and the refinement of `Fifo`. It needs two hypotheses.
  `SameWidth`: all readings of the clock have equally many digits, which is
  true of nanoseconds since 1970 from September 2001 to April 2286. `~StepsBack`:
  the clock is not set back, without which `disk_queue_clock` shows the order
  lost.
* **Python agent's sender.** The same shape, `SenderInv`, with the list in
  memory and the batch in flight for the queue on disk.
* **Records.** Every handler is first shown to be one of five steps (`AnyStep`):
  it begins, looks, answers without a commit, commits a row, or leaves all as it
  is; `Writes` says what each handler's commit writes. `Base` then relates the
  row each open session loaded to the table: it is of the same kind, it is the
  same row unless a commit is in `missed`, and nobody has a mark of a request
  that may still commit or has failed (`Untouched`). The last is
  `FailedLeavesNoTrace`, and it is also why a new date or assignee differs from
  what was loaded and so is written. `Kept` adds that an entry is in the row and
  in the memory of every writer who has not missed it, `FindingsKnown` that a
  session's findings are the table's unless it missed a closing, and `Named`
  where each policy's name came from. `CountsInv` is for the reads, one
  statement at a time: while one is open, the rows a total counted are still
  there, alerts with the severity they had, and what is there beyond them is in
  `missed`; a part is then of its total, or missed. Where statuses are compared
  it says less, since those change: without a commit in between, what was
  counted is what is there.
* **Tokens.** `SessionsInv`: with the key configured every worker's key and
  every token's key is 0, and the last reply, if it was a refusal, was given
  for one of the reasons; it needs no history.
* **Registries.** `UpdateInv`: of two uploads that run together the older one's
  version is in `crossed`, as is that of an upload older than something already
  published, and that of a registry that is behind what its process published.
* **Rate limiter.** The last `current` entries of the log are a run, each
  within a window of the one before, the first a window after all before it,
  and the first `MaxRequests` of it were allowed. Two allowed requests in one
  window are then in the same run, of which `MaxRequests` are.
* **Stream.** `StreamInv` has a part for what the handler has behind it at each
  phase (`Progress`: also that a message that is acknowledged, or whose
  acknowledgement is adrift, is `Settled`, since it may arrive at any later
  time), for deliveries (`Redelivered`: a message that is neither in `suspects`
  nor in `adrift`, and whose batch does not raise, was delivered at most once and
  is then in hand or acknowledged), and for sockets (`Broadcast`: of the clients
  that had joined when the alert was committed, or the relay began, one that is
  still in the set is yet to be sent it, is found dead, or has heard). `Known`,
  what is stored or relayed, bounds what anybody has heard.
* **Host.** Each part has its invariant. `ToldAgrees` relates what was told to
  the baseline, not to the last check, since a deletion leaves its entry; the
  process monitors' need that a known PID is one something was seen under; the
  engine's that a reported process is under the key of its one PID, which is
  where `repeated = {}` comes from, and that a process that starts is none of
  those it has looked at. `MovesKeep` carries the two over each other's and
  the host's steps.

`NoMinorAlerts` is a fact about `Detection` alone: for every sequence of events,
by induction over its length, since `ProcessTelemetryBatch` appends what each
event gives. `AlertStreamAssumption` says only that payloads are sequences of
events, and `ClientsHear` and the rest hold for all of them, and any number of
processes, messages, sockets and deliveries.

Every safety property that a run checks is proved. Only model-checked: the
liveness properties `SenderReturns`, `StopsWhileRoom` and `NoStarvation`, since
fairness and `ENABLED` are outside the prover's reach; and the five violations,
which are counterexamples.

## 6. What is left out

* **Durability below the file system.** `WriteFile` does not sync; a power
  failure may lose or tear a file that was written long before. `Crash` is the
  death of the process.
* **A failing `os.Remove`**, files in the queue directory that are not the
  queue's own (which `enforceLimit` weighs but does not remove), and a
  directory that cannot be listed.
* **The heartbeat loop**, which shares the HTTP client and nothing else, and
  the limit of five connections per host, which one sender does not reach.
* **Collectors that return early** (no monitored paths, no file watcher): they
  send nothing, and are a smaller set `Collectors`.
* **Time.** "The server answers" means it answers within the client's timeout;
  a slow answer is an unanswered request. The coarse clock is an
  overapproximation: any two consecutive `Enqueue`s may collide.
* **Encrypted bodies**: no agent sends any; in production every plaintext body
  is rejected, which `Development = FALSE` and `server = "production"` model.
* **Contents of events**: `EdgeAgent` and `TelemetrySender` tell severe events
  from others; `Records` and `AlertStream` model the alerts made of them, with
  the kinds of event that `Detection` tells apart. Regular expressions are
  named patterns.
* **Several events in one monitor pass** of the Python agent are several
  `QueueEvent` steps; no flush step can fall in between in the code, so the
  model has more interleavings than the code, never fewer.
* **Events that repeat with every scan** (metrics, suspicious names, CPU shares,
  suspicious ports, in both agents) and the network monitors: they compare one
  list of connections with thresholds, and keep a count and a set of addresses
  from which a burst is computed, that nothing else reads.
* **An overflow of inotify's queue**, and time-outs of `psutil` and `gopsutil`.
* **Pages and texts** of the record handlers: a page holds every row; a title or
  a note is the request that wrote it.
* **The telemetry channel** of the WebSocket gateway, to which nothing
  broadcasts. The device channel and its stream are in `AlertStream` as messages
  of their own; a behaviour looks at one of the two channels.
* **Functions without a caller and without state**: `scan_file_content`,
  `calculate_device_risk_score`, `create_audit_entry`, the AWS clients, the
  cache wrappers; and the audit table, which no handler writes.
* **A second registration of a device** is a second row; nothing in the code
  relates the two, and no property of the models does.
* **Cryptography**: passwords, API keys, signatures and AES-GCM are calls into
  libraries. A token decodes where its key is the process's.
* **Console, mobile app, legacy application, deployment**: they hold no state
  the rest relies on.

## 7. Plan

Built: the path of an event from a device to the server, the records and their
requests, what worker processes keep outside the database, the alert stream,
and what the agents remember of their host. Next:

1. Liveness of the alert stream: that a message is handled after a process has
   started, under fairness of `Deliver` and of the handler, with a premise that
   no process ends.
2. A failing `os.Remove` in `DiskQueue`, with a bound on the files a drain
   takes.
3. The network monitors, should their memory ever be read by a decision.
