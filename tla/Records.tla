------------------------------ MODULE Records ------------------------------
(***************************************************************************)
(* The rows behind the console and the agents' endpoints: investigations,  *)
(* alerts, devices, policies, users and remediation actions, read and      *)
(* written by concurrent requests (src/backend/app/api/v1, and the same    *)
(* handlers over SQLite in src/run_local.py).                              *)
(*                                                                         *)
(* Each request runs in one session (get_db) at read committed.  A handler *)
(* that changes a row loads it, assigns attributes in memory, flushes, and *)
(* builds its response; get_db then commits, or rolls back if anything was *)
(* raised, the response model included, and the answer leaves after that.  *)
(* The flush takes the row's lock until the commit, and nobody sees what   *)
(* it wrote before, so that flush to commit is one step; between the load  *)
(* and that step other requests commit.                                    *)
(*                                                                         *)
(* A row is named by the request that inserted it; rows that were there    *)
(* before (restored, or inserted with SQL) have names of their own.        *)
(***************************************************************************)
EXTENDS Integers, Sequences, FiniteSets

CONSTANTS
  Requests,                \* bound: the requests of a behaviour
  Mixes,                   \* bound: sets of operations asked for together
  OldCase, OldAlert, OldDevice, OldPolicy, OldAction, OldUser,   \* rows from before
  Names,                   \* names of policies, and addresses of users
  OldName,                 \* the name of OldPolicy, and OldUser's address
  Bad,                     \* what a schema lets through and the handler or a column refuses
  Texts,                   \* findings of an analyst, metrics of a heartbeat
  Hosts                    \* what a device says of itself

Old  == {OldCase, OldAlert, OldDevice, OldPolicy, OldAction, OldUser}
Keys == Requests \cup Old
Null == "null"

ASSUME RecordsAssumption ==
  /\ Cardinality(Old) = 6 /\ Requests \cap Old = {} /\ OldName \in Names
  /\ Null \notin Requests
  /\ \A h \in Hosts : h.ram \in Nat /\ h.storage \in Nat

VARIABLES
  server,   \* "strict", "lenient" (the backend) or "local" (run_local.py)
  mix,      \* what the requests of this behaviour ask for
  table,    \* the committed rows, by name
  req       \* the requests

vars == <<server, mix, table, req>>

Missing == [kind |-> "none"]

Rows(kind) == {k \in Keys : table[k].kind = kind}
Having(kind, column, value) == {k \in Rows(kind) : table[k][column] = value}

-----------------------------------------------------------------------------
(* Rows as the handlers insert them.                                        *)

NewCase(entries) ==
  [kind |-> "case", status |-> "open", timeline |-> entries,
   findings |-> Null, closed_at |-> Null, assignee |-> Null]

NewAlert(device, severity) ==
  [kind |-> "alert", device |-> device, severity |-> severity,
   status |-> "open", resolved_at |-> Null]

NewDevice(r, compatible) ==
  [kind |-> "device", status |-> "online", last_heartbeat |-> r,
   metrics |-> Null, compatible |-> compatible]

NewPolicy(name) == [kind |-> "policy", name |-> name]
NewUser(email)  == [kind |-> "user", name |-> email]
NewAction(device) == [kind |-> "action", device |-> device, status |-> "pending"]

\* MINIMUM_REQUIREMENTS, in MB and GB.
MinimumRequirements ==
  [windows     |-> [ram |-> 2048, storage |-> 5, archs |-> {"x86_64", "arm64"}],
   linux       |-> [ram |-> 512, storage |-> 2, archs |-> {"x86_64", "arm64", "armv7l"}],
   macos       |-> [ram |-> 4096, storage |-> 5, archs |-> {"x86_64", "arm64"}],
   raspberrypi |-> [ram |-> 256, storage |-> 2, archs |-> {"armv7l", "arm64"}],
   android     |-> [ram |-> 2048, storage |-> 1, archs |-> {"arm64", "armv7l"}],
   ios         |-> [ram |-> 2048, storage |-> 1, archs |-> {"arm64"}]]

CheckCompatibility(host) ==
  /\ host.os \in DOMAIN MinimumRequirements
  /\ LET reqs == MinimumRequirements[host.os]
     IN  host.arch \in reqs.archs /\ host.ram >= reqs.ram /\ host.storage >= reqs.storage

-----------------------------------------------------------------------------
(* What a request can ask for.                                              *)

\* The statuses AlertUpdateRequest takes.
AlertStatuses == {"acknowledged", "resolved", "false_positive"}

\* Handlers that load a row by its id first, and of which table.
Loads == [get_investigation |-> "case", add_timeline_entry |-> "case",
          assign_investigation |-> "case", close_investigation |-> "case",
          update_alert |-> "alert", ack_alert |-> "alert",
          get_device |-> "device", local_get_device |-> "device",
          device_heartbeat |-> "device",
          get_policy |-> "policy", update_policy |-> "policy",
          delete_policy |-> "policy",
          rollback_action |-> "action"]

\* The statements of the handlers that only read: the rows each one counts or
\* returns.  Pages are not modelled: one page holds every row.
ListInvestigations == <<Rows("case")>>
ListPolicies       == <<Rows("policy")>>
Filtered(severity) == IF severity = Null THEN Rows("alert")
                      ELSE Having("alert", "severity", severity)
\* A change of ListAlerts: the count forgets the filter.
ListAlertsAll(severity) == <<Rows("alert"), Filtered(severity)>>
ListAlerts(severity) == <<Filtered(severity), Filtered(severity)>>
ListDevices == <<Rows("device"), Rows("device")>>
GetAlertStats ==
  <<Rows("alert")>>
  \o [i \in 1..5 |-> Having("alert", "severity",
                            <<"critical", "high", "medium", "low", "info">>[i])]
  \o <<Having("alert", "status", "open"), Having("alert", "status", "resolved")>>
OpenCritical == Having("alert", "severity", "critical") \cap Having("alert", "status", "open")
GetSecurityPosture ==
  <<Rows("device"), Having("device", "status", "online"),
    Having("device", "status", "compromised"), OpenCritical>>
PrometheusMetrics ==
  <<Rows("device"), Having("device", "status", "online"), Rows("alert"),
    Having("alert", "status", "open"), OpenCritical>>
GdprExport(d) == <<Rows("device") \cap {d}, Having("alert", "device", d)>>
LocalDevices == <<Rows("device")>>
LocalAlerts(severity) == <<Filtered(severity)>>
LocalPolicies == <<Rows("policy")>>
LocalInvestigations == <<Rows("case")>>
LocalMetrics ==
  <<Rows("device"), Having("device", "status", "online"), Rows("alert"),
    Having("alert", "status", "open")>>

Statements(q) ==
  CASE q.op = "list_investigations"  -> ListInvestigations
    [] q.op = "list_policies"        -> ListPolicies
    [] q.op = "list_alerts"          -> ListAlerts(q.arg)
    [] q.op = "list_devices"         -> ListDevices
    [] q.op = "get_alert_stats"      -> GetAlertStats
    [] q.op = "get_security_posture" -> GetSecurityPosture
    [] q.op = "prometheus_metrics"   -> PrometheusMetrics
    [] q.op = "gdpr_export"          -> GdprExport(q.arg)
    [] q.op = "local_devices"        -> LocalDevices
    [] q.op = "local_alerts"         -> LocalAlerts(q.arg)
    [] q.op = "local_policies"       -> LocalPolicies
    [] q.op = "local_investigations" -> LocalInvestigations
    [] q.op = "local_metrics"        -> LocalMetrics

LocalReads == {"local_devices", "local_alerts", "local_policies",
               "local_investigations", "local_metrics"}
Reads == LocalReads \cup
  {"list_investigations", "list_policies", "list_alerts", "list_devices",
   "get_alert_stats", "get_security_posture", "prometheus_metrics", "gdpr_export"}
LocalOps == LocalReads \cup {"local_get_device", "local_create", "local_ingest", "ack_alert"}

Asked == IF server = "local" THEN mix \cap LocalOps ELSE mix \ LocalOps

\* Its own name as an id stands for an id that is in no table.
Ids(r, op) == IF op \in DOMAIN Loads THEN Rows(Loads[op]) \cup {r}
              ELSE IF op = "operator" THEN Rows("device") \cup Rows("action")
              ELSE {r}

\* Ids that a handler writes to a column without looking them up.
DeviceIds(r) == Rows("device") \cup {r}
UserIds(r)   == Rows("user") \cup {r}
AlertIds(r)  == Rows("alert") \cup {r, Null}

\* Arguments that the schema of the request and the tables have no quarrel with,
\* unless a row they name is missing or a name is taken.
Proper(r, op) ==
  CASE op = "update_alert" -> AlertStatuses
    [] op \in {"close_investigation", "device_heartbeat"} -> Texts
    [] op \in {"create_policy", "update_policy", "create_user"} -> Names
    [] op \in {"create_alert", "ingest_telemetry", "local_ingest", "gdpr_export"} -> DeviceIds(r)
    [] op = "assign_investigation" -> UserIds(r)
    [] op = "create_remediation" -> [device : DeviceIds(r), alert : AlertIds(r)]
    [] op \in {"list_alerts", "local_alerts"} -> {Null, "critical"}
    [] op = "register_device" -> Hosts
    [] OTHER -> {Null}

\* Handlers that take more than the tables do: an id that is a string and no
\* UUID (create_alert, ingest_telemetry, create_remediation, list_alerts), null
\* for a column that has none (update_policy sets whatever was sent), a text
\* that is too long or holds a NUL, a number out of range, a metric that is no
\* number; on run_local any body at all.
Unchecked ==
  {"create_investigation", "add_timeline_entry", "close_investigation", "list_investigations",
   "create_alert", "ingest_telemetry", "list_alerts", "register_device", "device_heartbeat",
   "list_devices", "create_policy", "update_policy", "create_user", "create_remediation",
   "rollback_action", "local_create", "local_ingest"}

Args(r, op) == Proper(r, op) \cup (IF op \in Unchecked THEN {Bad} ELSE {})

\* Handlers whose answer is made by a response model with from_attributes.
\* Its id is declared str and the column holds a UUID: whether that passes is
\* up to pydantic, and its version 2 raises ("strict").  run_local's ids are
\* strings and its answers plain dictionaries.
RespondsWithRow ==
  {"create_investigation", "get_investigation", "add_timeline_entry", "create_alert",
   "update_alert", "register_device", "get_device", "create_policy", "get_policy",
   "update_policy", "create_user", "create_remediation", "rollback_action"}
RespondsWithRows == {"list_investigations", "list_policies", "list_alerts", "list_devices"}

-----------------------------------------------------------------------------
(* Sessions.                                                                *)

Running(r, op) == req[r].pc = "open" /\ req[r].op = op

\* A change of Finished: the session keeps the row.
FinishedOpen(r, code) == [req[r] EXCEPT !.pc = "done", !.answer = code]

Finished(r, code) == [req[r] EXCEPT !.pc = "done", !.answer = code, !.loaded = Missing]

\* Nothing is written: an exception was raised, or there was nothing to write.
Answer(r, code) == req' = [req EXCEPT ![r] = Finished(r, code)] /\ UNCHANGED table

\* A commit of r to the row k falls between the statements of x.
Passes(x, r, k) ==
  /\ req[x].pc = "open"
  /\ req[x].op \notin DOMAIN Loads \/ req[x].key = k \/ req[x].op = "update_policy"

\* get_db commits, and then the answer is sent.  The answer "none" is one that
\* never came, or the 500 of a database that failed under the session: of
\* either the client cannot tell whether there was a commit.
Commit(r, k, row) ==
  /\ table' = [table EXCEPT ![k] = row]
  /\ \E code \in {"ok", "none"} :
       req' = [x \in Requests |->
         IF x = r THEN Finished(r, code)
         ELSE IF Passes(x, r, k) THEN [req[x] EXCEPT !.missed = @ \cup {r}]
         ELSE req[x]]

\* A change of Respond: the row is committed before the response is built.
RespondLate(r, k, row) ==
  IF server = "strict" /\ req[r].op \in RespondsWithRow
  THEN table' = [table EXCEPT ![k] = row] /\ req' = [req EXCEPT ![r] = Finished(r, "500")]
  ELSE Commit(r, k, row)

Respond(r, k, row) ==
  IF server = "strict" /\ req[r].op \in RespondsWithRow
  THEN Answer(r, "500")
  ELSE Commit(r, k, row)

\* A change of Flushed: every column is written.
FlushedAll(row, loaded, new) == new

\* UPDATE ... SET the columns whose value differs from the one loaded.
Flushed(row, loaded, new) ==
  [f \in DOMAIN row |-> IF new[f] # loaded[f] THEN new[f] ELSE row[f]]

\* A row deleted since it was loaded cannot be updated: StaleDataError.
Update(r, new) ==
  LET k == req[r].key
  IN  IF table[k] = Missing THEN Answer(r, "500")
      ELSE Respond(r, k, Flushed(table[k], req[r].loaded, new))

Insert(r, row) == Respond(r, r, row)

\* The columns with a UNIQUE constraint, and the foreign keys.
Taken(r, kind, name) == \E k \in Rows(kind) \ {req[r].key} : table[k].name = name
Unknown(kind, id) == id \notin Rows(kind)

-----------------------------------------------------------------------------
(* The handlers, from what they loaded to the end of the session.           *)

CreateInvestigation(r) ==
  /\ Running(r, "create_investigation")
  /\ Insert(r, NewCase(<<r>>))

LocalCreate(r) ==
  /\ Running(r, "local_create")
  /\ Insert(r, NewCase(<<>>))

AddTimelineEntry(r) ==
  /\ Running(r, "add_timeline_entry")
  /\ Update(r, [req[r].loaded EXCEPT !.timeline = Append(@, r), !.status = "in_progress"])

\* A change of AssignInvestigation: the assignment starts the work.
AssignStarts(r) ==
  /\ Running(r, "assign_investigation")
  /\ IF Unknown("user", req[r].arg) THEN Answer(r, "500")
     ELSE Update(r, [req[r].loaded EXCEPT !.assignee = req[r].arg, !.status = "in_progress"])

\* The assignee is not looked up: the foreign key fails at the flush.
AssignInvestigation(r) ==
  /\ Running(r, "assign_investigation")
  /\ IF Unknown("user", req[r].arg) THEN Answer(r, "500")
     ELSE Update(r, [req[r].loaded EXCEPT !.assignee = req[r].arg])

\* A change of CloseInvestigation: a case is dated when it is closed first.
CloseOnce(r) ==
  /\ Running(r, "close_investigation")
  /\ Update(r, [req[r].loaded EXCEPT
       !.status = "closed", !.findings = req[r].arg,
       !.closed_at = IF @ = Null THEN r ELSE @, !.timeline = Append(@, r)])

CloseInvestigation(r) ==
  /\ Running(r, "close_investigation")
  /\ Update(r, [req[r].loaded EXCEPT
       !.status = "closed", !.findings = req[r].arg, !.closed_at = r,
       !.timeline = Append(@, r)])

CreateAlert(r) ==
  /\ Running(r, "create_alert")
  /\ IF Unknown("device", req[r].arg) THEN Answer(r, "500")
     ELSE \E severity \in {"critical", "info"} : Insert(r, NewAlert(req[r].arg, severity))

\* Of a batch with one severe event.
IngestTelemetry(r) ==
  /\ Running(r, "ingest_telemetry")
  /\ IF Unknown("device", req[r].arg) THEN Answer(r, "500")
     ELSE Insert(r, NewAlert(req[r].arg, "critical"))

\* run_local has no foreign key.
LocalIngest(r) ==
  /\ Running(r, "local_ingest")
  /\ Insert(r, NewAlert(req[r].arg, "critical"))

\* A change of UpdateAlert: an alert is dated when it is resolved first.
UpdateAlertOnce(r) ==
  /\ Running(r, "update_alert")
  /\ Update(r, [req[r].loaded EXCEPT
       !.status = req[r].arg,
       !.resolved_at = IF req[r].arg = "resolved" /\ @ = Null THEN r ELSE @])

UpdateAlert(r) ==
  /\ Running(r, "update_alert")
  /\ Update(r, [req[r].loaded EXCEPT
       !.status = req[r].arg,
       !.resolved_at = IF req[r].arg = "resolved" THEN r ELSE @])

AckAlert(r) ==
  /\ Running(r, "ack_alert")
  /\ Update(r, [req[r].loaded EXCEPT !.status = "acknowledged"])

RegisterDevice(r) ==
  /\ Running(r, "register_device")
  /\ Insert(r, NewDevice(r, CheckCompatibility(req[r].arg)))

DeviceHeartbeat(r) ==
  /\ Running(r, "device_heartbeat")
  /\ Update(r, [req[r].loaded EXCEPT
       !.last_heartbeat = r, !.status = "online", !.metrics = req[r].arg])

CreatePolicy(r) ==
  /\ Running(r, "create_policy")
  /\ IF Taken(r, "policy", req[r].arg) THEN Answer(r, "500")
     ELSE Insert(r, NewPolicy(req[r].arg))

UpdatePolicy(r) ==
  /\ Running(r, "update_policy")
  /\ IF Taken(r, "policy", req[r].arg) /\ req[r].loaded.name # req[r].arg
     THEN Answer(r, "500")
     ELSE Update(r, [req[r].loaded EXCEPT !.name = req[r].arg])

\* Deleting what is already gone is no error.
DeletePolicy(r) ==
  /\ Running(r, "delete_policy")
  /\ Commit(r, req[r].key, Missing)

CreateUser(r) ==
  /\ Running(r, "create_user")
  /\ IF Taken(r, "user", req[r].arg) THEN Answer(r, "500")
     ELSE Insert(r, NewUser(req[r].arg))

\* alert_id is optional.
CreateRemediation(r) ==
  /\ Running(r, "create_remediation")
  /\ LET asked == req[r].arg
     IN  IF Unknown("device", asked.device) \/ (asked.alert # Null /\ Unknown("alert", asked.alert))
         THEN Answer(r, "500")
         ELSE Insert(r, NewAction(asked.device))

RollbackAction(r) ==
  /\ Running(r, "rollback_action")
  /\ IF req[r].loaded.status # "completed" THEN Answer(r, "400")
     ELSE Update(r, [req[r].loaded EXCEPT !.status = "rolled_back"])

\* Statuses no handler sets: an operator's SQL.
Operator(r) ==
  /\ Running(r, "operator")
  /\ LET k == req[r].key
     IN  \E status \in IF table[k].kind = "device" THEN {"quarantined", "compromised"}
                       ELSE {"completed"} :
           Commit(r, k, [table[k] EXCEPT !.status = status])

GetRow(r) ==
  /\ Running(r, "get_investigation") \/ Running(r, "get_device") \/ Running(r, "get_policy")
  /\ Answer(r, IF server = "strict" THEN "500" ELSE "ok")

LocalGetDevice(r) == Running(r, "local_get_device") /\ Answer(r, "ok")

\* The next statement of a handler that only reads, or its answer.
Read(r) ==
  /\ req[r].pc = "open" /\ req[r].op \in Reads
  /\ LET all == Statements(req[r])
         seen == req[r].seen
         ended == Len(seen) = Len(all)
                  \/ (req[r].op = "gdpr_export" /\ Len(seen) = 1 /\ seen[1] = {})
     IN  IF ~ended
         THEN req' = [req EXCEPT ![r].seen = Append(@, all[Len(@) + 1])] /\ UNCHANGED table
         ELSE Answer(r, IF /\ server = "strict" /\ req[r].op \in RespondsWithRows
                           /\ seen[Len(seen)] # {}
                        THEN "500" ELSE "ok")

\* A change of Registered: the address is not looked up.
RegisteredUnknown(email) == FALSE

Registered(email) == \E k \in Rows("user") : table[k].name = email

\* The handler begins: it loads the row it is about, or finds none.
Receive(r, op, key, arg) ==
  LET found == op \in DOMAIN Loads => table[key].kind = Loads[op]
      begun == [req[r] EXCEPT !.op = op, !.key = key, !.arg = arg]
  IN  /\ req[r].pc = "new"
      /\ req' = [req EXCEPT ![r] =
           IF ~found THEN [begun EXCEPT !.pc = "done", !.answer = "404"]
           ELSE IF op = "create_user" /\ Registered(arg)
           THEN [begun EXCEPT !.pc = "done", !.answer = "409"]
           ELSE [begun EXCEPT !.pc = "open",
                   !.loaded = IF op \in DOMAIN Loads THEN table[key] ELSE @]]
      /\ UNCHANGED table

\* The handler raises, or the flush, or the answer cannot be built: 500.  A
\* rollback looks at the action's status first.
Refuse(r) ==
  /\ req[r].pc = "open" /\ req[r].arg = Bad
  /\ Answer(r, IF req[r].op = "rollback_action" /\ req[r].loaded.status # "completed"
               THEN "400" ELSE "500")

\* The worker dies, or its database connection: nothing was committed.
Cut(r) == req[r].pc = "open" /\ Answer(r, "none")

Restored ==
  [k \in Keys |->
     CASE k = OldCase   -> NewCase(<<>>)
       [] k = OldAlert  -> NewAlert(OldDevice, "critical")
       [] k = OldDevice -> NewDevice(Null, TRUE)
       [] k = OldPolicy -> NewPolicy(OldName)
       [] k = OldAction -> NewAction(OldDevice)
       [] k = OldUser   -> NewUser(OldName)
       [] OTHER -> Missing]

\* run_local fills an empty database once: one of each kind stands for all.
SeedData == [Restored EXCEPT ![OldCase] = Missing, ![OldAction] = Missing]

Init ==
  /\ server \in {"strict", "lenient", "local"}
  /\ mix \in Mixes
  /\ table = IF server = "local" THEN SeedData ELSE Restored
  /\ req = [r \in Requests |->
       [pc |-> "new", op |-> "none", key |-> r, arg |-> Null, loaded |-> Missing,
        missed |-> {}, seen |-> <<>>, answer |-> "none"]]

Handle(r) ==
  /\ req[r].arg # Bad
  /\ \/ CreateInvestigation(r) \/ LocalCreate(r) \/ AddTimelineEntry(r)
     \/ AssignInvestigation(r) \/ CloseInvestigation(r)
     \/ CreateAlert(r) \/ IngestTelemetry(r) \/ LocalIngest(r) \/ UpdateAlert(r) \/ AckAlert(r)
     \/ RegisterDevice(r) \/ DeviceHeartbeat(r)
     \/ CreatePolicy(r) \/ UpdatePolicy(r) \/ DeletePolicy(r)
     \/ CreateUser(r) \/ CreateRemediation(r) \/ RollbackAction(r)
     \/ Operator(r) \/ GetRow(r) \/ LocalGetDevice(r) \/ Read(r)

Next ==
  /\ \E r \in Requests :
       \/ \E op \in Asked : \E key \in Ids(r, op), arg \in Args(r, op) : Receive(r, op, key, arg)
       \/ Handle(r)
       \/ Refuse(r)
       \/ Cut(r)
  /\ UNCHANGED <<server, mix>>

Spec == Init /\ [][Next]_vars

-----------------------------------------------------------------------------
(* Properties.                                                              *)

Done(r, op) == req[r].pc = "done" /\ req[r].op = op

\* Rows and requests have their forms, and a session holds a row, of the
\* table its handler reads, only while it is open.
TypeOK ==
  /\ \A k \in Keys :
       table[k].kind \in {"none", "case", "alert", "device", "policy", "user", "action"}
  /\ \A r \in Requests :
       /\ req[r].pc \in {"new", "open", "done"}
       /\ req[r].missed \subseteq Requests \ {r}
       /\ req[r].key \in Keys
       /\ req[r].answer \in {"none", "ok", "400", "404", "409", "500"}
       /\ req[r].loaded.kind =
            IF req[r].pc = "open" /\ req[r].op \in DOMAIN Loads THEN Loads[req[r].op] ELSE "none"

\* Mentions(k, r): something in the row k was written by r.
Mentions(k, r) ==
  \/ k = r /\ table[k] # Missing
  \/ /\ table[k].kind = "case"
     /\ r \in {table[k].closed_at, table[k].assignee}
        \/ \E i \in DOMAIN table[k].timeline : table[k].timeline[i] = r
  \/ table[k].kind = "alert" /\ table[k].resolved_at = r
  \/ table[k].kind = "device" /\ table[k].last_heartbeat = r

\* A request that was answered with an error has left nothing behind (get_db
\* rolls back for whatever is raised, building the response included), so that
\* a client may repeat it.
FailedLeavesNoTrace ==
  \A r \in Requests :
    req[r].answer \in {"400", "404", "409", "500"} => \A k \in Keys : ~Mentions(k, r)

\* The ids of r's argument that a foreign key looks at.
References(r) ==
  CASE req[r].op \in {"create_alert", "ingest_telemetry", "assign_investigation"} -> {req[r].arg}
    [] req[r].op = "create_remediation" -> {req[r].arg.device, req[r].arg.alert}
    [] OTHER -> {}

\* A handler answers 500 only where the response model refuses ids, where what
\* it was sent is refused by the handler or a column whatever the tables hold,
\* where it names a device, an alert or a user that does not exist or a
\* policy's name that is in use, or because of a request that committed during
\* its session (a user's address taken after the check, a policy deleted or
\* its name taken).
FailuresExplained ==
  \A r \in Requests : req[r].answer = "500" =>
    \/ server = "strict" /\ req[r].op \in RespondsWithRow \cup RespondsWithRows
    \/ req[r].arg = Bad
    \/ r \in References(r)
    \/ /\ req[r].op \in {"create_policy", "update_policy"}
       /\ \/ req[r].arg = OldName
          \/ \E x \in Requests \ {r} :
               /\ Done(x, "create_policy") \/ Done(x, "update_policy")
               /\ req[x].arg = req[r].arg
    \/ req[r].missed # {}

TimelineWriters == {"add_timeline_entry", "close_investigation"}

\* An entry of a timeline whose writer was told it was stored disappears only
\* if another writer of the same timeline had loaded it before that entry was
\* committed and wrote it back after (timeline is rewritten as a whole).
EntriesKept ==
  \A r \in Requests :
    (req[r].answer = "ok" /\ req[r].op \in TimelineWriters) =>
      LET k == req[r].key
      IN  \/ \E i \in DOMAIN table[k].timeline : table[k].timeline[i] = r
          \/ \E x \in Requests : /\ req[x].pc = "done" /\ req[x].op \in TimelineWriters
                                 /\ req[x].key = k /\ r \in req[x].missed

\* What a closed case says it found is what the request that dated it found,
\* unless another request closed it during that request's session: unchanged
\* columns are not written, so that two closings can mix.
FindingsAgree ==
  \A k \in Rows("case") : table[k].closed_at # Null =>
    LET c == table[k].closed_at
    IN  \/ table[k].findings = req[c].arg
        \/ \E x \in req[c].missed : req[x].op = "close_investigation" /\ req[x].key = k

\* A closed case is opened again only by a timeline entry, and not by one that
\* found the case in progress; the findings and the date of closing stay.
ReopenNeedsEntry ==
  [][\A k \in Rows("case") :
       (table[k].status = "closed" /\ table'[k].status # "closed") =>
         /\ \E r \in Requests : /\ Running(r, "add_timeline_entry") /\ req'[r].pc = "done"
                                /\ req[r].key = k /\ req[r].loaded.status # "in_progress"
         /\ table'[k].findings = table[k].findings
         /\ table'[k].closed_at = table[k].closed_at]_vars

\* When an alert's update commits, the alert has the status that was asked
\* for, unless another update was committed in between (a status that equals
\* the one loaded is not written); a resolution dates the alert in any case.
StatusAsAsked ==
  [][\A r \in Requests :
       (Running(r, "update_alert") /\ table' # table /\ req'[r].pc = "done") =>
         /\ table'[req[r].key].status = req[r].arg \/ req[r].missed # {}
         /\ req[r].arg = "resolved" => table'[req[r].key].resolved_at = r]_vars

\* A heartbeat takes a device out of quarantine only if the device was in it
\* when the heartbeat's handler loaded the row: one that was already under way
\* when the operator acted does not undo it.
HeartbeatKeepsStatus ==
  [][\A k \in Rows("device") :
       (table[k].status # "online" /\ table'[k].status = "online") =>
         \E r \in Requests : /\ Running(r, "device_heartbeat") /\ req'[r].pc = "done"
                             /\ req[r].key = k /\ req[r].loaded.status # "online"]_vars

\* Counts made by several statements differ only by what was committed between
\* them: the page of a list and its total, each part of the statistics and
\* their total, the devices online and all devices; no device counts as online
\* and compromised, and an export with alerts has its device.
CountsExplained ==
  \A r \in Requests : (req[r].pc = "done" /\ req[r].op \in Reads /\ req[r].answer = "ok") =>
    LET s == req[r].seen
        Within(part, total) == part \subseteq total \cup req[r].missed
    IN  /\ req[r].op \in {"list_alerts", "list_devices"} =>
             Within(s[2], s[1]) /\ s[1] \subseteq s[2]
        /\ req[r].op = "get_alert_stats" =>
             /\ \A i \in 2..8 : Within(s[i], s[1])
             /\ s[1] \subseteq UNION {s[i] : i \in 2..6}
             /\ s[7] \cap s[8] # {} => req[r].missed # {}
        /\ req[r].op \in {"get_security_posture", "prometheus_metrics", "local_metrics"} =>
             Within(s[2], s[1])
        /\ req[r].op = "get_security_posture" => (s[2] \cap s[3] # {} => req[r].missed # {})
        /\ req[r].op \in {"prometheus_metrics", "local_metrics"} => Within(s[4], s[3])
        /\ (req[r].op = "gdpr_export" /\ Len(s) = 1) => s[1] = {}
=============================================================================
