---------------------------- MODULE RecordsProofs ----------------------------
(***************************************************************************)
(* Proofs about Records: what a failed request leaves behind, why one      *)
(* fails, and what overlapping requests may lose or mix.                   *)
(***************************************************************************)
EXTENDS Records, SequenceTheorems, TLAPS

-----------------------------------------------------------------------------
(* Rows and requests.                                                       *)

Writer == Requests \cup {Null}

CaseRow ==
  [kind : {"case"}, status : {"open", "in_progress", "closed"}, timeline : Seq(Requests),
   findings : Texts \cup {Null}, closed_at : Writer, assignee : Keys \cup {Null}]
AlertRow ==
  [kind : {"alert"}, device : Keys, severity : {"critical", "info"},
   status : AlertStatuses \cup {"open"}, resolved_at : Writer]
DeviceRow ==
  [kind : {"device"}, status : {"online", "quarantined", "compromised"},
   last_heartbeat : Writer, metrics : Texts \cup {Null}, compatible : BOOLEAN]
PolicyRow == [kind : {"policy"}, name : Names]
UserRow   == [kind : {"user"}, name : Names]
ActionRow == [kind : {"action"}, device : Keys, status : {"pending", "completed", "rolled_back"}]

Row == CaseRow \cup AlertRow \cup DeviceRow \cup PolicyRow \cup UserRow \cup ActionRow
       \cup {Missing}

Arguments == AlertStatuses \cup Texts \cup Names \cup Keys \cup {Null, "critical", Bad} \cup Hosts
             \cup [device : Keys, alert : Keys \cup {Null}]

Errors == {"400", "404", "409", "500"}

Operations == (UNION Mixes) \cup {"none"}

Request ==
  [pc : {"new", "open", "done"}, op : Operations, key : Keys, arg : Arguments,
   loaded : Row, missed : SUBSET Requests, seen : Seq(SUBSET Keys),
   answer : Errors \cup {"none", "ok"}]

Shape == table \in [Keys -> Row] /\ req \in [Requests -> Request]

Loading(x) == req[x].pc = "open" /\ req[x].op \in DOMAIN Loads

\* What a row is, by its kind.
LEMMA RowKinds ==
  ASSUME NEW row \in Row
  PROVE  /\ row.kind = "case" <=> row \in CaseRow
         /\ row.kind = "alert" <=> row \in AlertRow
         /\ row.kind = "device" <=> row \in DeviceRow
         /\ row.kind = "policy" <=> row \in PolicyRow
         /\ row.kind = "user" <=> row \in UserRow
         /\ row.kind = "action" <=> row \in ActionRow
         /\ row.kind = "none" <=> row = Missing
         /\ row.kind \in {"none", "case", "alert", "device", "policy", "user", "action"}
BY DEF Row, CaseRow, AlertRow, DeviceRow, PolicyRow, UserRow, ActionRow, Missing

\* The handlers that load a row, and its kind.
LEMMA LoadedKinds ==
  /\ DOMAIN Loads =
       {"get_investigation", "add_timeline_entry", "assign_investigation", "close_investigation",
        "update_alert", "ack_alert", "get_device", "local_get_device", "device_heartbeat",
        "get_policy", "update_policy", "delete_policy", "rollback_action"}
  /\ \A op \in {"get_investigation", "add_timeline_entry", "assign_investigation",
                "close_investigation"} : Loads[op] = "case"
  /\ \A op \in {"update_alert", "ack_alert"} : Loads[op] = "alert"
  /\ \A op \in {"get_device", "local_get_device", "device_heartbeat"} : Loads[op] = "device"
  /\ \A op \in {"get_policy", "update_policy", "delete_policy"} : Loads[op] = "policy"
  /\ Loads["rollback_action"] = "action"
  /\ \A op \in DOMAIN Loads : Loads[op] # "none"
BY DEF Loads

-----------------------------------------------------------------------------
(* Flushing: was is what a handler loaded, old what is there now, and a     *)
(* column is written where the new value differs from was.                  *)

Put(new, was, old) == IF new # was THEN new ELSE old

\* A row of a case keeps its form, and each column is the new or the old value.
LEMMA FlushedCase ==
  ASSUME NEW row \in CaseRow, NEW loaded \in CaseRow, NEW new \in CaseRow
  PROVE  LET f == Flushed(row, loaded, new)
         IN  /\ f \in CaseRow
             /\ f.status = Put(new.status, loaded.status, row.status)
             /\ f.timeline = Put(new.timeline, loaded.timeline, row.timeline)
             /\ f.findings = Put(new.findings, loaded.findings, row.findings)
             /\ f.closed_at = Put(new.closed_at, loaded.closed_at, row.closed_at)
             /\ f.assignee = Put(new.assignee, loaded.assignee, row.assignee)
BY DEF Flushed, Put, CaseRow

\* The same for an alert.
LEMMA FlushedAlert ==
  ASSUME NEW row \in AlertRow, NEW loaded \in AlertRow, NEW new \in AlertRow
  PROVE  LET f == Flushed(row, loaded, new)
         IN  /\ f \in AlertRow
             /\ f.severity = Put(new.severity, loaded.severity, row.severity)
             /\ f.status = Put(new.status, loaded.status, row.status)
             /\ f.resolved_at = Put(new.resolved_at, loaded.resolved_at, row.resolved_at)
BY DEF Flushed, Put, AlertRow

\* The same for a device.
LEMMA FlushedDevice ==
  ASSUME NEW row \in DeviceRow, NEW loaded \in DeviceRow, NEW new \in DeviceRow
  PROVE  LET f == Flushed(row, loaded, new)
         IN  /\ f \in DeviceRow
             /\ f.status = Put(new.status, loaded.status, row.status)
             /\ f.last_heartbeat = Put(new.last_heartbeat, loaded.last_heartbeat, row.last_heartbeat)
BY DEF Flushed, Put, DeviceRow

\* The same for a policy.
LEMMA FlushedPolicy ==
  ASSUME NEW row \in PolicyRow, NEW loaded \in PolicyRow, NEW new \in PolicyRow
  PROVE  LET f == Flushed(row, loaded, new)
         IN  /\ f \in PolicyRow
             /\ f.name = Put(new.name, loaded.name, row.name)
BY DEF Flushed, Put, PolicyRow

\* The same for a remediation action.
LEMMA FlushedAction ==
  ASSUME NEW row \in ActionRow, NEW loaded \in ActionRow, NEW new \in ActionRow
  PROVE  LET f == Flushed(row, loaded, new)
         IN  f \in ActionRow
BY DEF Flushed, Put, ActionRow

-----------------------------------------------------------------------------
(* What a step changes.                                                     *)

\* A request that another one's step leaves alone, or tells of a commit.
Steady(x) ==
  /\ req'[x].pc = req[x].pc /\ req'[x].op = req[x].op /\ req'[x].key = req[x].key
  /\ req'[x].arg = req[x].arg /\ req'[x].loaded = req[x].loaded
  /\ req'[x].answer = req[x].answer /\ req'[x].seen = req[x].seen
  /\ req[x].missed \subseteq req'[x].missed

\* A request that ends.
Ends(r, codes) ==
  /\ req'[r].pc = "done" /\ req'[r].answer \in codes /\ req'[r].loaded = Missing
  /\ req'[r].op = req[r].op /\ req'[r].key = req[r].key /\ req'[r].arg = req[r].arg
  /\ req'[r].missed = req[r].missed /\ req'[r].seen = req[r].seen

\* The fields of a request that ends.
LEMMA FinishedFacts ==
  ASSUME Shape, NEW r \in Requests, NEW code \in Errors \cup {"none", "ok"}
  PROVE  LET q == Finished(r, code)
         IN  /\ q \in Request
             /\ q.pc = "done" /\ q.answer = code /\ q.loaded = Missing
             /\ q.op = req[r].op /\ q.key = req[r].key /\ q.arg = req[r].arg
             /\ q.missed = req[r].missed /\ q.seen = req[r].seen
<1>1. req[r] \in Request /\ Missing \in Row
  BY DEF Shape, Row
<1> QED BY <1>1 DEF Finished, Request

\* An answer without a commit.
LEMMA AnswerFacts ==
  ASSUME Shape, NEW r \in Requests, NEW code \in Errors \cup {"none", "ok"}, Answer(r, code)
  PROVE  /\ Shape' /\ table' = table /\ Ends(r, {code})
         /\ \A x \in Requests \ {r} : req'[x] = req[x] /\ Steady(x)
<1>1. req' = [req EXCEPT ![r] = Finished(r, code)] /\ table' = table
  BY DEF Answer
<1>2. req'[r] = Finished(r, code) /\ \A x \in Requests \ {r} : req'[x] = req[x]
  BY <1>1 DEF Shape
<1>3. Ends(r, {code}) /\ \A x \in Requests \ {r} : Steady(x)
  BY <1>2, FinishedFacts DEF Ends, Steady
<1>4. Shape'
  BY <1>1, FinishedFacts DEF Shape
<1> QED BY <1>1, <1>2, <1>3, <1>4

\* A commit of a row.
LEMMA CommitFacts ==
  ASSUME Shape, NEW r \in Requests, NEW k \in Keys, NEW row \in Row, Commit(r, k, row)
  PROVE  /\ Shape' /\ table'[k] = row /\ \A j \in Keys \ {k} : table'[j] = table[j]
         /\ Ends(r, {"ok", "none"})
         /\ \A x \in Requests \ {r} :
              Steady(x) /\ req'[x].missed = req[x].missed \cup IF Passes(x, r, k) THEN {r} ELSE {}
<1>1. table' \in [Keys -> Row] /\ table'[k] = row /\ \A j \in Keys \ {k} : table'[j] = table[j]
  BY DEF Commit, Shape
<1>2. PICK code \in {"ok", "none"} :
        req' = [x \in Requests |->
          IF x = r THEN Finished(r, code)
          ELSE IF Passes(x, r, k) THEN [req[x] EXCEPT !.missed = @ \cup {r}]
          ELSE req[x]]
  BY DEF Commit
<1>3. req'[r] \in Request /\ Ends(r, {"ok", "none"})
  BY <1>2, FinishedFacts DEF Ends
<1>4. ASSUME NEW x \in Requests \ {r}
      PROVE  /\ req'[x] \in Request /\ Steady(x)
             /\ req'[x].missed = req[x].missed \cup IF Passes(x, r, k) THEN {r} ELSE {}
  <2>1. req[x] \in Request
    BY DEF Shape
  <2>2. CASE Passes(x, r, k)
    <3>1. req'[x] = [req[x] EXCEPT !.missed = @ \cup {r}]
      BY <1>2, <2>2
    <3> QED BY <2>1, <2>2, <3>1 DEF Request, Steady
  <2>3. CASE ~Passes(x, r, k)
    <3>1. req'[x] = req[x]
      BY <1>2, <2>3
    <3> QED BY <2>1, <2>3, <3>1 DEF Steady
  <2> QED BY <2>2, <2>3
<1>5. req' \in [Requests -> Request]
  BY <1>2, <1>3, <1>4
<1> QED BY <1>1, <1>3, <1>4, <1>5 DEF Shape

\* What a request can be asked for.
LEMMA AskedFacts ==
  ASSUME Shape, NEW r \in Requests, NEW op \in Asked, NEW key \in Ids(r, op),
         NEW arg \in Args(r, op), mix \in Mixes
  PROVE  /\ op \in Operations /\ key \in Keys /\ arg \in Arguments
         /\ op = "operator" => table[key].kind \in {"device", "action"}
<1>1. op \in Operations
  BY DEF Asked, Operations
<1>2. key \in Keys
  BY DEF Ids, Rows, Keys
<1>3. op = "operator" => table[key].kind \in {"device", "action"}
  BY LoadedKinds DEF Ids, Rows
<1>4. DeviceIds(r) \subseteq Keys /\ UserIds(r) \subseteq Keys /\ AlertIds(r) \subseteq Keys \cup {Null}
  BY DEF DeviceIds, UserIds, AlertIds, Rows, Keys
<1>5. [device : DeviceIds(r), alert : AlertIds(r)] \subseteq [device : Keys, alert : Keys \cup {Null}]
  BY <1>4
<1>6. Proper(r, op) \subseteq Arguments
  BY <1>4, <1>5 DEF Proper, Arguments
<1>7. arg \in Arguments
  BY <1>6 DEF Args, Arguments
<1> QED BY <1>1, <1>2, <1>3, <1>7

\* The beginning of a handler.
LEMMA ReceiveFacts ==
  ASSUME Shape, NEW r \in Requests, NEW op \in Operations, NEW key \in Keys, NEW arg \in Arguments,
         Receive(r, op, key, arg)
  PROVE  /\ Shape' /\ table' = table
         /\ \A x \in Requests \ {r} : req'[x] = req[x]
         /\ req[r].pc = "new" /\ req'[r].op = op /\ req'[r].key = key /\ req'[r].arg = arg
         /\ req'[r].missed = req[r].missed /\ req'[r].seen = req[r].seen
         /\ \/ /\ req'[r].pc = "done" /\ req'[r].answer \in {"404", "409"}
               /\ req'[r].loaded = req[r].loaded
               /\ op \in DOMAIN Loads \cup {"create_user"}
            \/ /\ req'[r].pc = "open" /\ req'[r].answer = req[r].answer
               /\ op \in DOMAIN Loads =>
                    table[key].kind = Loads[op] /\ req'[r].loaded = table[key]
               /\ op \notin DOMAIN Loads => req'[r].loaded = req[r].loaded
               /\ op = "create_user" => ~Registered(arg)
<1> DEFINE found == op \in DOMAIN Loads => table[key].kind = Loads[op]
           begun == [req[r] EXCEPT !.op = op, !.key = key, !.arg = arg]
<1>1. /\ req[r].pc = "new" /\ table' = table
      /\ req' = [req EXCEPT ![r] =
           IF ~found THEN [begun EXCEPT !.pc = "done", !.answer = "404"]
           ELSE IF op = "create_user" /\ Registered(arg)
                THEN [begun EXCEPT !.pc = "done", !.answer = "409"]
           ELSE [begun EXCEPT !.pc = "open",
                   !.loaded = IF op \in DOMAIN Loads THEN table[key] ELSE @]]
  BY DEF Receive
<1>2. req[r] \in Request /\ table[key] \in Row /\ \A x \in Requests \ {r} : req'[x] = req[x]
  BY <1>1 DEF Shape
<1>3. /\ begun \in Request /\ begun.op = op /\ begun.key = key /\ begun.arg = arg
      /\ begun.missed = req[r].missed /\ begun.seen = req[r].seen
      /\ begun.loaded = req[r].loaded /\ begun.answer = req[r].answer
  BY <1>2 DEF Request
<1> HIDE DEF begun, found
<1>4. CASE ~found
  <2>1. req'[r] = [begun EXCEPT !.pc = "done", !.answer = "404"]
    BY <1>1, <1>4 DEF Shape
  <2>2. req'[r] \in Request
    BY <1>3, <2>1 DEF Request, Errors
  <2>3. /\ req'[r].pc = "done" /\ req'[r].answer = "404" /\ req'[r].loaded = begun.loaded
        /\ req'[r].op = begun.op /\ req'[r].key = begun.key /\ req'[r].arg = begun.arg
        /\ req'[r].missed = begun.missed /\ req'[r].seen = begun.seen
    BY <1>3, <2>1 DEF Request
  <2>4. Shape'
    BY <1>1, <2>2 DEF Shape
  <2> QED BY <1>1, <1>2, <1>3, <1>4, <2>3, <2>4 DEF found
<1>5. CASE found /\ op = "create_user" /\ Registered(arg)
  <2>1. req'[r] = [begun EXCEPT !.pc = "done", !.answer = "409"]
    BY <1>1, <1>5 DEF Shape
  <2>2. req'[r] \in Request
    BY <1>3, <2>1 DEF Request, Errors
  <2>3. /\ req'[r].pc = "done" /\ req'[r].answer = "409" /\ req'[r].loaded = begun.loaded
        /\ req'[r].op = begun.op /\ req'[r].key = begun.key /\ req'[r].arg = begun.arg
        /\ req'[r].missed = begun.missed /\ req'[r].seen = begun.seen
    BY <1>3, <2>1 DEF Request
  <2>4. Shape'
    BY <1>1, <2>2 DEF Shape
  <2> QED BY <1>1, <1>2, <1>3, <1>5, <2>3, <2>4
<1>6. CASE found /\ ~(op = "create_user" /\ Registered(arg))
  <2>1. req'[r] = [begun EXCEPT !.pc = "open",
                     !.loaded = IF op \in DOMAIN Loads THEN table[key] ELSE @]
    BY <1>1, <1>6 DEF Shape
  <2>2. req'[r] \in Request
    BY <1>2, <1>3, <2>1 DEF Request
  <2> QED BY <1>1, <1>2, <1>3, <1>6, <2>1, <2>2 DEF Shape, Request, found
<1> QED BY <1>4, <1>5, <1>6

-----------------------------------------------------------------------------
(* The statements of the handlers that only read.                           *)

\* How many statements each of them executes.
Parts ==
  [list_investigations |-> 1, list_policies |-> 1, list_alerts |-> 2, list_devices |-> 2,
   get_alert_stats |-> 8, get_security_posture |-> 4, prometheus_metrics |-> 5, gdpr_export |-> 2,
   local_devices |-> 1, local_alerts |-> 1, local_policies |-> 1, local_investigations |-> 1,
   local_metrics |-> 4]

\* Both parts of a list of statements are statements.
LEMMA Together ==
  ASSUME NEW s \in Seq(SUBSET Keys), NEW t \in Seq(SUBSET Keys)
  PROVE  s \o t \in Seq(SUBSET Keys) /\ Len(s \o t) = Len(s) + Len(t)
OBVIOUS

\* The statements by handler.
LEMMA StatementsOf ==
  ASSUME NEW q
  PROVE  /\ q.op = "list_investigations" => Statements(q) = ListInvestigations
         /\ q.op = "list_policies" => Statements(q) = ListPolicies
         /\ q.op = "list_alerts" => Statements(q) = ListAlerts(q.arg)
         /\ q.op = "list_devices" => Statements(q) = ListDevices
         /\ q.op = "get_alert_stats" => Statements(q) = GetAlertStats
         /\ q.op = "get_security_posture" => Statements(q) = GetSecurityPosture
         /\ q.op = "prometheus_metrics" => Statements(q) = PrometheusMetrics
         /\ q.op = "gdpr_export" => Statements(q) = GdprExport(q.arg)
         /\ q.op = "local_devices" => Statements(q) = LocalDevices
         /\ q.op = "local_alerts" => Statements(q) = LocalAlerts(q.arg)
         /\ q.op = "local_policies" => Statements(q) = LocalPolicies
         /\ q.op = "local_investigations" => Statements(q) = LocalInvestigations
         /\ q.op = "local_metrics" => Statements(q) = LocalMetrics
BY Zenon DEF Statements

\* Sets of rows, n of them.
Gives(s, n) == s \in Seq(SUBSET Keys) /\ Len(s) = n

\* Both parts of a list of statements are executed.
LEMMA GivesTogether ==
  ASSUME NEW s, NEW t, NEW m \in Nat, NEW n \in Nat, Gives(s, m), Gives(t, n)
  PROVE  Gives(s \o t, m + n)
<1>1. s \o t \in Seq(SUBSET Keys) /\ Len(s \o t) = Len(s) + Len(t)
  BY Together, Zenon DEF Gives
<1> QED BY <1>1 DEF Gives

\* Each statement of a read gives a set of rows, and Parts counts them.
LEMMA StatementFacts ==
  ASSUME NEW q, q.op \in Reads
  PROVE  Gives(Statements(q), Parts[q.op])
<1>1. \A kind : Rows(kind) \subseteq Keys
  BY DEF Rows
<1>2. \A kind, column, value : Having(kind, column, value) \subseteq Keys
  BY <1>1 DEF Having
<1>3. \A severity : Filtered(severity) \subseteq Keys
  BY <1>1, <1>2 DEF Filtered
<1>4. OpenCritical \subseteq Keys
  BY <1>2 DEF OpenCritical
<1>5. /\ Gives(ListInvestigations, 1) /\ Gives(ListPolicies, 1)
      /\ Gives(ListAlerts(q.arg), 2) /\ Gives(ListDevices, 2)
  BY <1>1, <1>3 DEF Gives, ListInvestigations, ListPolicies, ListAlerts, ListDevices
<1>6. Gives(GetSecurityPosture, 4) /\ Gives(PrometheusMetrics, 5) /\ Gives(GdprExport(q.arg), 2)
  BY <1>1, <1>2, <1>4 DEF Gives, GetSecurityPosture, PrometheusMetrics, GdprExport
<1>7. /\ Gives(LocalDevices, 1) /\ Gives(LocalAlerts(q.arg), 1) /\ Gives(LocalPolicies, 1)
      /\ Gives(LocalInvestigations, 1) /\ Gives(LocalMetrics, 4)
  BY <1>1, <1>2, <1>3
     DEF Gives, LocalDevices, LocalAlerts, LocalPolicies, LocalInvestigations, LocalMetrics
<1>8. Gives(GetAlertStats, 8)
  <2> DEFINE all == <<Rows("alert")>>
             severities == [i \in 1..5 |-> Having("alert", "severity",
                                <<"critical", "high", "medium", "low", "info">>[i])]
             statuses ==
               <<Having("alert", "status", "open"), Having("alert", "status", "resolved")>>
  <2>1. Gives(all, 1) /\ Gives(severities, 5) /\ Gives(statuses, 2)
    BY <1>1, <1>2 DEF Gives
  <2>2. GetAlertStats = (all \o severities) \o statuses
    BY DEF GetAlertStats
  <2> HIDE DEF all, severities, statuses
  <2>3. Gives(all \o severities, 1 + 5)
    BY <2>1, GivesTogether
  <2>4. Gives((all \o severities) \o statuses, (1 + 5) + 2)
    BY <2>1, <2>3, GivesTogether
  <2> QED BY <2>2, <2>4
<1>9. /\ \A op \in {"list_investigations", "list_policies", "local_devices", "local_alerts",
                  "local_policies", "local_investigations"} : Parts[op] = 1
      /\ \A op \in {"list_alerts", "list_devices", "gdpr_export"} : Parts[op] = 2
      /\ \A op \in {"get_security_posture", "local_metrics"} : Parts[op] = 4
      /\ Parts["prometheus_metrics"] = 5 /\ Parts["get_alert_stats"] = 8
  BY DEF Parts
<1> QED BY <1>5, <1>6, <1>7, <1>8, <1>9, StatementsOf DEF Reads, LocalReads

\* The statements have been executed that the answer is made of.
Ended(x) ==
  \/ Len(req[x].seen) = Parts[req[x].op]
  \/ req[x].op = "gdpr_export" /\ Len(req[x].seen) = 1 /\ req[x].seen[1] = {}

\* Handlers that load, insert or answer with a row do not only read.
LEMMA ReadsApart ==
  Reads \cap (DOMAIN Loads \cup RespondsWithRow \cup TimelineWriters
              \cup {"operator", "local_create", "ingest_telemetry", "local_ingest"}) = {}
BY LoadedKinds DEF Reads, LocalReads, RespondsWithRow, TimelineWriters

-----------------------------------------------------------------------------
(* The invariant.  A request whose answer is not yet settled, or is an      *)
(* error, is in no row and in nobody's memory; what an open session loaded  *)
(* differs from the table only by what it has missed.                       *)

\* q has written in this row.
Marks(q, row) ==
  \/ /\ row.kind = "case"
     /\ row.closed_at = q \/ row.assignee = q \/ \E i \in DOMAIN row.timeline : row.timeline[i] = q
  \/ row.kind = "alert" /\ row.resolved_at = q
  \/ row.kind = "device" /\ row.last_heartbeat = q

Session(x) ==
  /\ x \notin req[x].missed
  /\ req[x].loaded.kind = IF Loading(x) THEN Loads[req[x].op] ELSE "none"
  /\ req[x].pc = "new" => req[x].op = "none" /\ req[x].seen = <<>>
  /\ req[x].pc # "done" => req[x].answer = "none"
  /\ (req[x].pc = "open" /\ req[x].op \in Reads) => Len(req[x].seen) =< Parts[req[x].op]

\* The row of an open session: still of its kind, unless a policy was deleted.
Held(x) ==
  /\ Loading(x) =>
       /\ \/ table[req[x].key].kind = req[x].loaded.kind
          \/ table[req[x].key] = Missing /\ req[x].loaded.kind = "policy"
       /\ table[req[x].key] = req[x].loaded \/ req[x].missed # {}
  /\ Running(x, "operator") => table[req[x].key].kind \in {"device", "action"}

\* An id of a row of a kind, or the one that stands for none.
Refers(id, x, kind) == id \in Keys /\ (id = x \/ table[id].kind = kind)

ArgumentOf(op, x, arg) ==
  \/ arg = Bad
  \/ /\ op = "update_alert" => arg \in AlertStatuses
     /\ op \in {"close_investigation", "device_heartbeat"} => arg \in Texts
     /\ op \in {"create_policy", "update_policy", "create_user"} => arg \in Names
     /\ op \in {"create_alert", "ingest_telemetry", "local_ingest"} => Refers(arg, x, "device")
     /\ op = "assign_investigation" => Refers(arg, x, "user")
     /\ op = "create_remediation" => /\ Refers(arg.device, x, "device")
                                     /\ arg.alert = Null \/ Refers(arg.alert, x, "alert")

Argument(x) == req[x].pc = "open" => ArgumentOf(req[x].op, x, req[x].arg)

\* q may still commit, or has been told that it failed.
Fresh(q) == req[q].pc # "done" \/ req[q].answer \in Errors

Untouched(q) ==
  Fresh(q) =>
    /\ table[q] = Missing
    /\ \A k \in Keys : ~Marks(q, table[k])
    /\ \A x \in Requests : /\ ~Marks(q, req[x].loaded)
                           /\ (Loading(x) \/ Running(x, "operator")) => req[x].key # q

Base ==
  /\ Shape /\ mix \in Mixes
  /\ \A x \in Requests : Session(x) /\ Held(x) /\ Argument(x) /\ Untouched(x)

\* Why a request fails with 500.
Reason(r) ==
  \/ server = "strict" /\ req[r].op \in RespondsWithRow \cup RespondsWithRows
  \/ req[r].arg = Bad
  \/ r \in References(r)
  \/ /\ req[r].op \in {"create_policy", "update_policy"}
     /\ \/ req[r].arg = OldName
        \/ \E x \in Requests \ {r} :
             /\ Done(x, "create_policy") \/ Done(x, "update_policy")
             /\ req[x].arg = req[r].arg
  \/ req[r].missed # {}

\* Names in use, of policies and of users.
Named ==
  /\ \A k \in Rows("policy") :
       \/ table[k].name = OldName
       \/ \E x \in Requests : /\ Done(x, "create_policy") \/ Done(x, "update_policy")
                              /\ req[x].arg = table[k].name
  /\ \A x \in Requests : Running(x, "create_user") => ~Registered(req[x].arg) \/ req[x].missed # {}

ClosedBy(x, k) == req[x].op = "close_investigation" /\ req[x].key = k

\* What a session knows of a case's findings is what the case has, or a
\* closing was missed.
FindingsKnown ==
  \A x \in Requests : (Loading(x) /\ req[x].loaded.kind = "case") =>
    \/ req[x].loaded.findings = table[req[x].key].findings
    \/ \E y \in req[x].missed : ClosedBy(y, req[x].key)

Stored(r, row) == \E i \in DOMAIN row.timeline : row.timeline[i] = r

\* A writer of the same timeline has overwritten the entry of r.
Lost(r) ==
  \E x \in Requests : /\ req[x].pc = "done" /\ req[x].op \in TimelineWriters
                      /\ req[x].key = req[r].key /\ r \in req[x].missed

\* The entry of r is in the row, and in the memory of every writer who could
\* still write the row back without having missed it.
Kept(r) ==
  (req[r].answer = "ok" /\ req[r].op \in TimelineWriters) =>
    /\ table[req[r].key].kind = "case"
    /\ \/ Lost(r)
       \/ /\ Stored(r, table[req[r].key])
          /\ \A x \in Requests :
               (Loading(x) /\ req[x].op \in TimelineWriters /\ req[x].key = req[r].key) =>
                 Stored(r, req[x].loaded) \/ r \in req[x].missed

RecordsInv ==
  Base /\ Named /\ FailuresExplained /\ FindingsKnown /\ FindingsAgree
  /\ \A r \in Requests : Kept(r)

-----------------------------------------------------------------------------
(* What a handler's commit writes.                                          *)

Inserts(r, row) ==
  /\ req[r].op \notin DOMAIN Loads \cup {"operator"} \cup Reads
  /\ row.kind # "none"
  /\ row.kind = "case" => /\ row.findings = Null /\ row.closed_at = Null /\ row.assignee = Null
                          /\ \A i \in DOMAIN row.timeline : row.timeline[i] = r
  /\ row.kind = "alert" => row.resolved_at = Null
  /\ row.kind = "device" => row.last_heartbeat = r
  /\ row.kind = "policy" => req[r].op = "create_policy" /\ row.name = req[r].arg

WritesCase(r, was, old, row) ==
  \/ /\ req[r].op = "add_timeline_entry"
     /\ row.status = Put("in_progress", was.status, old.status)
     /\ row.timeline = Append(was.timeline, r)
     /\ row.findings = old.findings /\ row.closed_at = old.closed_at
     /\ row.assignee = old.assignee
  \/ /\ req[r].op = "assign_investigation"
     /\ row.status = old.status /\ row.timeline = old.timeline
     /\ row.findings = old.findings /\ row.closed_at = old.closed_at
     /\ row.assignee = Put(req[r].arg, was.assignee, old.assignee)
     /\ table[req[r].arg].kind = "user"
  \/ /\ req[r].op = "close_investigation"
     /\ row.status = Put("closed", was.status, old.status)
     /\ row.timeline = Append(was.timeline, r)
     /\ row.findings = Put(req[r].arg, was.findings, old.findings) /\ row.closed_at = r
     /\ row.assignee = old.assignee

WritesAlert(r, was, old, row) ==
  /\ row.severity = old.severity
  /\ \/ /\ req[r].op = "update_alert"
        /\ row.status = Put(req[r].arg, was.status, old.status)
        /\ row.resolved_at = IF req[r].arg = "resolved" THEN r ELSE old.resolved_at
     \/ req[r].op = "ack_alert" /\ row.resolved_at = old.resolved_at

WritesDevice(r, was, old, row) ==
  /\ req[r].op = "device_heartbeat"
  /\ row.status = Put("online", was.status, old.status) /\ row.last_heartbeat = r

WritesPolicy(r, was, old, row) ==
  req[r].op = "update_policy" /\ row.name = Put(req[r].arg, was.name, old.name)

Updates(r, was, old, row) ==
  /\ Loading(r) /\ old.kind = was.kind /\ row.kind = was.kind
  /\ \/ row.kind = "case" /\ WritesCase(r, was, old, row)
     \/ row.kind = "alert" /\ WritesAlert(r, was, old, row)
     \/ row.kind = "device" /\ WritesDevice(r, was, old, row)
     \/ row.kind = "policy" /\ WritesPolicy(r, was, old, row)
     \/ row.kind = "action" /\ req[r].op = "rollback_action"

\* An operator's statement on a device or an action.
Operates(r, old, row) ==
  /\ req[r].op = "operator" /\ row.kind = old.kind /\ row.kind \in {"device", "action"}
  /\ row.kind = "device" => row.status # "online" /\ row.last_heartbeat = old.last_heartbeat

Writes(r, k, row) ==
  \/ k = r /\ Inserts(r, row)
  \/ /\ k = req[r].key
     /\ \/ Updates(r, req[r].loaded, table[k], row)
        \/ req[r].op = "delete_policy" /\ row = Missing
        \/ Operates(r, table[k], row)

-----------------------------------------------------------------------------
(* The steps.                                                               *)

Rest(r) == \A x \in Requests \ {r} : req'[x] = req[x]

Begins(r) ==
  /\ table' = table /\ Rest(r)
  /\ req[r].pc = "new" /\ req'[r].missed = req[r].missed /\ req'[r].seen = req[r].seen
  /\ \/ /\ req'[r].pc = "done" /\ req'[r].answer \in {"404", "409"}
        /\ req'[r].loaded = req[r].loaded /\ req'[r].op \notin Reads
     \/ /\ req'[r].pc = "open" /\ req'[r].answer = req[r].answer
        /\ req'[r].op \in DOMAIN Loads =>
             /\ table[req'[r].key].kind = Loads[req'[r].op]
             /\ req'[r].loaded = table[req'[r].key]
        /\ req'[r].op \notin DOMAIN Loads => req'[r].loaded = req[r].loaded
        /\ req'[r].op = "create_user" => ~Registered(req'[r].arg)
        /\ req'[r].op = "operator" => table[req'[r].key].kind \in {"device", "action"}
        /\ ArgumentOf(req'[r].op, r, req'[r].arg)

Answers(r) ==
  /\ table' = table /\ Rest(r) /\ req[r].pc = "open"
  /\ \E code \in Errors \cup {"none", "ok"} :
       /\ Ends(r, {code})
       /\ code = "500" => Reason(r)
       /\ code = "ok" => req[r].op \notin TimelineWriters
       /\ (code = "ok" /\ req[r].op \in Reads) => Ended(r)

Looks(r) ==
  /\ table' = table /\ Rest(r) /\ req[r].pc = "open" /\ req[r].op \in Reads
  /\ req'[r].pc = req[r].pc /\ req'[r].op = req[r].op /\ req'[r].key = req[r].key
  /\ req'[r].arg = req[r].arg /\ req'[r].loaded = req[r].loaded
  /\ req'[r].answer = req[r].answer /\ req'[r].missed = req[r].missed
  /\ Len(req'[r].seen) =< Parts[req[r].op]
  /\ req'[r].seen = Append(req[r].seen, Statements(req[r])[Len(req[r].seen) + 1])

Commits(r, k, row) ==
  /\ req[r].pc = "open" /\ row \in Row /\ Writes(r, k, row)
  /\ table'[k] = row /\ \A j \in Keys \ {k} : table'[j] = table[j]
  /\ Ends(r, {"ok", "none"})
  /\ \A x \in Requests \ {r} :
       Steady(x) /\ req'[x].missed = req[x].missed \cup IF Passes(x, r, k) THEN {r} ELSE {}

\* What a step can be.
Step ==
  /\ Shape' /\ mix' = mix /\ server' = server
  /\ \/ table' = table /\ req' = req
     \/ \E r \in Requests :
          Begins(r) \/ Answers(r) \/ Looks(r) \/ \E k \in Keys, row \in Row : Commits(r, k, row)

\* What a request is sent has its form.
LEMMA ArgumentAsked ==
  ASSUME NEW r \in Requests, NEW op, NEW arg \in Args(r, op)
  PROVE  ArgumentOf(op, r, arg)
<1>1. /\ \A id \in DeviceIds(r) : Refers(id, r, "device")
      /\ \A id \in UserIds(r) : Refers(id, r, "user")
      /\ \A id \in AlertIds(r) : id = Null \/ Refers(id, r, "alert")
  BY DEF Refers, DeviceIds, UserIds, AlertIds, Rows, Keys
<1>2. CASE op = "create_remediation" /\ arg # Bad
  <2>1. arg \in [device : DeviceIds(r), alert : AlertIds(r)]
    BY <1>2 DEF Args, Proper
  <2> QED BY <1>1, <1>2, <2>1 DEF ArgumentOf
<1>3. CASE op # "create_remediation" /\ arg # Bad
  BY <1>1, <1>3 DEF Args, Proper, ArgumentOf
<1> QED BY <1>2, <1>3 DEF ArgumentOf

\* A request that comes in.
LEMMA BeginsStep ==
  ASSUME Base, NEW r \in Requests, NEW op \in Asked, NEW key \in Ids(r, op),
         NEW arg \in Args(r, op), Receive(r, op, key, arg)
  PROVE  Shape' /\ Begins(r)
<1>1. Shape /\ mix \in Mixes
  BY DEF Base
<1>2. op \in Operations /\ key \in Keys /\ arg \in Arguments
  BY <1>1, AskedFacts
<1>3. ArgumentOf(op, r, arg)
  BY ArgumentAsked
<1>4. op = "operator" => table[key].kind \in {"device", "action"}
  BY <1>1, AskedFacts
<1>5. op \in DOMAIN Loads \cup {"create_user"} => op \notin Reads
  BY ReadsApart DEF RespondsWithRow
<1> QED BY <1>1, <1>2, <1>3, <1>4, <1>5, ReceiveFacts DEF Begins, Rest

\* A request that ends without a commit.
LEMMA AnswersStep ==
  ASSUME Base, NEW r \in Requests, NEW code \in Errors \cup {"none", "ok"}, Answer(r, code),
         req[r].pc = "open", code = "500" => Reason(r),
         code = "ok" => req[r].op \notin TimelineWriters,
         (code = "ok" /\ req[r].op \in Reads) => Ended(r)
  PROVE  Shape' /\ Answers(r)
<1>1. Shape
  BY DEF Base
<1> QED BY <1>1, AnswerFacts DEF Answers, Rest

\* A request that commits.
LEMMA CommitsStep ==
  ASSUME Base, NEW r \in Requests, NEW k \in Keys, NEW row \in Row, Commit(r, k, row),
         req[r].pc = "open", Writes(r, k, row)
  PROVE  Shape' /\ Commits(r, k, row)
<1>1. Shape
  BY DEF Base
<1> QED BY <1>1, CommitFacts DEF Commits

-----------------------------------------------------------------------------
(* The handlers.                                                            *)

\* What an open request's step can be.
Moves(r) == Shape' /\ (Answers(r) \/ Looks(r) \/ \E k \in Keys, row \in Row : Commits(r, k, row))

\* A response model that refuses the row takes the commit back.
LEMMA RespondStep ==
  ASSUME Base, NEW r \in Requests, NEW k \in Keys, NEW row \in Row, Respond(r, k, row),
         req[r].pc = "open", Writes(r, k, row)
  PROVE  Moves(r)
<1>1. CASE server = "strict" /\ req[r].op \in RespondsWithRow
  <2>1. Answer(r, "500") /\ Reason(r) /\ req[r].op \notin Reads
    BY <1>1, ReadsApart DEF Respond, Reason
  <2> QED BY <2>1, AnswersStep DEF Moves, Errors
<1>2. CASE ~(server = "strict" /\ req[r].op \in RespondsWithRow)
  <2>1. Commit(r, k, row)
    BY <1>2 DEF Respond
  <2> QED BY <2>1, CommitsStep DEF Moves
<1> QED BY <1>1, <1>2

\* A handler that inserts.
LEMMA InsertStep ==
  ASSUME Base, NEW r \in Requests, NEW row \in Row, Insert(r, row), req[r].pc = "open",
         Inserts(r, row)
  PROVE  Moves(r)
<1>1. r \in Keys /\ Respond(r, r, row) /\ Writes(r, r, row)
  BY DEF Keys, Insert, Writes
<1> QED BY <1>1, RespondStep

\* A handler that loads a row and writes it: a row that is gone was deleted
\* by a request it has missed.
LEMMA UpdateStep ==
  ASSUME Base, NEW r \in Requests, NEW new, Update(r, new), Loading(r),
         LET old == table[req[r].key]
             row == Flushed(old, req[r].loaded, new)
         IN  old.kind = req[r].loaded.kind => row \in Row /\ Updates(r, req[r].loaded, old, row)
  PROVE  Moves(r)
<1> DEFINE k == req[r].key
           row == Flushed(table[k], req[r].loaded, new)
<1>1. Shape /\ req[r].pc = "open" /\ Session(r) /\ Held(r)
  BY DEF Base, Loading
<1>2. k \in Keys /\ table[k] \in Row /\ req[r].loaded.kind = Loads[req[r].op]
  BY <1>1 DEF Shape, Request, Session
<1>3. req[r].loaded.kind # "none" /\ Missing.kind = "none"
  BY <1>2, LoadedKinds DEF Loading, Missing
<1>4. CASE table[k] = Missing
  <2>1. req[r].missed # {}
    BY <1>1, <1>3, <1>4 DEF Held
  <2>2. Answer(r, "500") /\ Reason(r) /\ req[r].op \notin Reads
    BY <1>4, <2>1, ReadsApart DEF Update, Reason, Loading
  <2> QED BY <1>1, <2>2, AnswersStep DEF Moves, Errors
<1>5. CASE table[k] # Missing
  <2>1. table[k].kind = req[r].loaded.kind
    BY <1>1, <1>5 DEF Held
  <2>2. row \in Row /\ Updates(r, req[r].loaded, table[k], row)
    BY <2>1
  <2>3. Writes(r, k, row)
    BY <2>2 DEF Writes
  <2>4. Respond(r, k, row)
    BY <1>5 DEF Update
  <2> QED BY <1>1, <1>2, <2>2, <2>3, <2>4, RespondStep
<1> QED BY <1>4, <1>5

\* A row that is written as it was loaded, of a kind.
LEMMA HeldRow ==
  ASSUME Base, NEW r \in Requests, Loading(r)
  PROVE  /\ req[r].loaded \in Row /\ table[req[r].key] \in Row
         /\ req[r].loaded.kind = Loads[req[r].op]
         /\ req[r].arg \in Arguments /\ Argument(r) /\ req[r].pc = "open"
         /\ r \in Writer /\ ~Marks(r, req[r].loaded)
<1>1. Shape /\ Session(r) /\ Argument(r) /\ Untouched(r)
  BY DEF Base
<1>2. req[r] \in Request /\ table[req[r].key] \in Row
  BY <1>1 DEF Shape, Request
<1>3. Fresh(r)
  BY DEF Fresh, Loading
<1> QED BY <1>1, <1>2, <1>3 DEF Request, Session, Loading, Writer, Untouched

\* An appended entry makes another timeline.
LEMMA AppendDiffers ==
  ASSUME NEW s \in Seq(Requests), NEW r \in Requests
  PROVE  Append(s, r) \in Seq(Requests) /\ Append(s, r) # s
<1>1. Append(s, r) \in Seq(Requests) /\ Len(Append(s, r)) = Len(s) + 1 /\ Len(s) \in Nat
  OBVIOUS
<1> QED BY <1>1

\* The handlers of a case that is there.
LEMMA CaseStep ==
  ASSUME Base, NEW r \in Requests, req[r].arg # Bad,
         AddTimelineEntry(r) \/ AssignInvestigation(r) \/ CloseInvestigation(r)
  PROVE  Moves(r)
<1> DEFINE was == req[r].loaded
           old == table[req[r].key]
<1>1. Loading(r) /\ Loads[req[r].op] = "case"
  BY LoadedKinds
     DEF Loading, Running, AddTimelineEntry, AssignInvestigation, CloseInvestigation
<1>2. /\ was \in CaseRow /\ r \in Writer /\ was.closed_at # r
      /\ req[r].op = "close_investigation" => req[r].arg \in Texts
      /\ req[r].op = "assign_investigation" => Refers(req[r].arg, r, "user")
      /\ old.kind = was.kind => old \in CaseRow
      /\ was.kind = "case"
  BY <1>1, HeldRow, RowKinds DEF Marks, Argument, ArgumentOf
<1>3. Append(was.timeline, r) \in Seq(Requests) /\ Append(was.timeline, r) # was.timeline
  BY <1>2, AppendDiffers DEF CaseRow
<1>4. CASE AddTimelineEntry(r)
  <2> DEFINE new == [was EXCEPT !.timeline = Append(@, r), !.status = "in_progress"]
  <2>1. Update(r, new) /\ req[r].op = "add_timeline_entry"
    BY <1>4 DEF AddTimelineEntry, Running
  <2>2. /\ new \in CaseRow /\ new.status = "in_progress" /\ new.timeline = Append(was.timeline, r)
        /\ new.findings = was.findings /\ new.closed_at = was.closed_at
        /\ new.assignee = was.assignee
    BY <1>2, <1>3 DEF CaseRow
  <2> HIDE DEF new
  <2>3. ASSUME old.kind = was.kind
        PROVE  Flushed(old, was, new) \in Row /\ Updates(r, was, old, Flushed(old, was, new))
    <3>1. old \in CaseRow
      BY <1>2, <2>3
    <3> DEFINE f == Flushed(old, was, new)
    <3>2. /\ f \in CaseRow
          /\ f.status = Put(new.status, was.status, old.status)
          /\ f.timeline = Put(new.timeline, was.timeline, old.timeline)
          /\ f.findings = Put(new.findings, was.findings, old.findings)
          /\ f.closed_at = Put(new.closed_at, was.closed_at, old.closed_at)
          /\ f.assignee = Put(new.assignee, was.assignee, old.assignee)
      BY <1>2, <2>2, <3>1, FlushedCase
    <3> HIDE DEF f
    <3>3. /\ f.timeline = Append(was.timeline, r) /\ f.findings = old.findings
          /\ f.closed_at = old.closed_at /\ f.assignee = old.assignee
      BY <1>2, <1>3, <2>2, <3>2 DEF Put
    <3>4. WritesCase(r, was, old, f)
      BY <2>1, <2>2, <3>2, <3>3 DEF WritesCase
    <3>5. f \in Row /\ f.kind = "case"
      BY <3>2 DEF Row, CaseRow
    <3> QED BY <1>1, <1>2, <2>3, <3>4, <3>5 DEF Updates, f
  <2> QED BY <1>1, <2>1, <2>3, UpdateStep
<1>5. CASE AssignInvestigation(r) /\ Unknown("user", req[r].arg)
  <2>1. Answer(r, "500") /\ req[r].op = "assign_investigation" /\ req[r].op \notin Reads
    BY <1>1, <1>5, ReadsApart DEF AssignInvestigation, Running, Loading
  <2>2. req[r].arg = r
    BY <1>2, <1>5, <2>1 DEF Refers, Unknown, Rows
  <2>3. Reason(r)
    BY <2>1, <2>2 DEF Reason, References
  <2> QED BY <1>1, <2>1, <2>3, AnswersStep DEF Moves, Errors, Loading
<1>6. CASE AssignInvestigation(r) /\ ~Unknown("user", req[r].arg)
  <2> DEFINE user == req[r].arg
             new == [was EXCEPT !.assignee = user]
  <2>1. Update(r, new) /\ req[r].op = "assign_investigation" /\ table[user].kind = "user"
    BY <1>6 DEF AssignInvestigation, Running, Unknown, Rows
  <2>2. /\ new \in CaseRow /\ new.status = was.status /\ new.timeline = was.timeline
        /\ new.findings = was.findings /\ new.closed_at = was.closed_at /\ new.assignee = user
    BY <1>2, <2>1 DEF CaseRow, Refers
  <2> HIDE DEF new
  <2>3. ASSUME old.kind = was.kind
        PROVE  Flushed(old, was, new) \in Row /\ Updates(r, was, old, Flushed(old, was, new))
    <3>1. old \in CaseRow
      BY <1>2, <2>3
    <3> DEFINE f == Flushed(old, was, new)
    <3>2. /\ f \in CaseRow
          /\ f.status = Put(new.status, was.status, old.status)
          /\ f.timeline = Put(new.timeline, was.timeline, old.timeline)
          /\ f.findings = Put(new.findings, was.findings, old.findings)
          /\ f.closed_at = Put(new.closed_at, was.closed_at, old.closed_at)
          /\ f.assignee = Put(new.assignee, was.assignee, old.assignee)
      BY <1>2, <2>2, <3>1, FlushedCase
    <3> HIDE DEF f
    <3>3. /\ f.status = old.status /\ f.timeline = old.timeline /\ f.findings = old.findings
          /\ f.closed_at = old.closed_at /\ f.assignee = Put(user, was.assignee, old.assignee)
      BY <2>2, <3>2 DEF Put
    <3>4. WritesCase(r, was, old, f)
      BY <2>1, <3>3 DEF WritesCase
    <3>5. f \in Row /\ f.kind = "case"
      BY <3>2 DEF Row, CaseRow
    <3> QED BY <1>1, <1>2, <2>3, <3>4, <3>5 DEF Updates, f
  <2> QED BY <1>1, <2>1, <2>3, UpdateStep
<1>7. CASE CloseInvestigation(r)
  <2> DEFINE new == [was EXCEPT !.status = "closed", !.findings = req[r].arg,
                       !.closed_at = r, !.timeline = Append(@, r)]
  <2>1. Update(r, new) /\ req[r].op = "close_investigation"
    BY <1>7 DEF CloseInvestigation, Running
  <2>2. /\ new \in CaseRow /\ new.status = "closed" /\ new.timeline = Append(was.timeline, r)
        /\ new.findings = req[r].arg /\ new.closed_at = r /\ new.assignee = was.assignee
    BY <1>2, <1>3, <2>1 DEF CaseRow
  <2> HIDE DEF new
  <2>3. ASSUME old.kind = was.kind
        PROVE  Flushed(old, was, new) \in Row /\ Updates(r, was, old, Flushed(old, was, new))
    <3>1. old \in CaseRow
      BY <1>2, <2>3
    <3> DEFINE f == Flushed(old, was, new)
    <3>2. /\ f \in CaseRow
          /\ f.status = Put(new.status, was.status, old.status)
          /\ f.timeline = Put(new.timeline, was.timeline, old.timeline)
          /\ f.findings = Put(new.findings, was.findings, old.findings)
          /\ f.closed_at = Put(new.closed_at, was.closed_at, old.closed_at)
          /\ f.assignee = Put(new.assignee, was.assignee, old.assignee)
      BY <1>2, <2>2, <3>1, FlushedCase
    <3> HIDE DEF f
    <3>3. /\ f.timeline = Append(was.timeline, r) /\ f.closed_at = r /\ f.assignee = old.assignee
      BY <1>2, <1>3, <2>2, <3>2 DEF Put
    <3>4. WritesCase(r, was, old, f)
      BY <2>1, <2>2, <3>2, <3>3 DEF WritesCase
    <3>5. f \in Row /\ f.kind = "case"
      BY <3>2 DEF Row, CaseRow
    <3> QED BY <1>1, <1>2, <2>3, <3>4, <3>5 DEF Updates, f
  <2> QED BY <1>1, <2>1, <2>3, UpdateStep
<1> QED BY <1>4, <1>5, <1>6, <1>7

\* The handlers of an alert that is there.
LEMMA AlertStep ==
  ASSUME Base, NEW r \in Requests, req[r].arg # Bad, UpdateAlert(r) \/ AckAlert(r)
  PROVE  Moves(r)
<1> DEFINE was == req[r].loaded
           old == table[req[r].key]
<1>1. Loading(r) /\ Loads[req[r].op] = "alert"
  BY LoadedKinds DEF Loading, Running, UpdateAlert, AckAlert
<1>2. /\ was \in AlertRow /\ r \in Writer /\ was.resolved_at # r
      /\ req[r].op = "update_alert" => req[r].arg \in AlertStatuses
      /\ old.kind = was.kind => old \in AlertRow
      /\ was.kind = "alert"
  BY <1>1, HeldRow, RowKinds DEF Marks, Argument, ArgumentOf
<1>3. CASE UpdateAlert(r)
  <2> DEFINE new == [was EXCEPT !.status = req[r].arg,
                       !.resolved_at = IF req[r].arg = "resolved" THEN r ELSE @]
  <2>1. Update(r, new) /\ req[r].op = "update_alert"
    BY <1>3 DEF UpdateAlert, Running
  <2>2. /\ new \in AlertRow /\ new.status = req[r].arg /\ new.severity = was.severity
        /\ new.resolved_at = IF req[r].arg = "resolved" THEN r ELSE was.resolved_at
    BY <1>2, <2>1 DEF AlertRow
  <2> HIDE DEF new
  <2>3. ASSUME old.kind = was.kind
        PROVE  Flushed(old, was, new) \in Row /\ Updates(r, was, old, Flushed(old, was, new))
    <3>1. old \in AlertRow
      BY <1>2, <2>3
    <3> DEFINE f == Flushed(old, was, new)
    <3>2. /\ f \in AlertRow
          /\ f.severity = Put(new.severity, was.severity, old.severity)
          /\ f.status = Put(new.status, was.status, old.status)
          /\ f.resolved_at = Put(new.resolved_at, was.resolved_at, old.resolved_at)
      BY <1>2, <2>2, <3>1, FlushedAlert
    <3> HIDE DEF f
    <3>3. /\ f.resolved_at = IF req[r].arg = "resolved" THEN r ELSE old.resolved_at
          /\ f.severity = old.severity
      BY <1>2, <2>2, <3>2 DEF Put
    <3>4. WritesAlert(r, was, old, f)
      BY <2>1, <2>2, <3>2, <3>3 DEF WritesAlert
    <3>5. f \in Row /\ f.kind = "alert"
      BY <3>2 DEF Row, AlertRow
    <3> QED BY <1>1, <1>2, <2>3, <3>4, <3>5 DEF Updates, f
  <2> QED BY <1>1, <2>1, <2>3, UpdateStep
<1>4. CASE AckAlert(r)
  <2> DEFINE new == [was EXCEPT !.status = "acknowledged"]
  <2>1. Update(r, new) /\ req[r].op = "ack_alert"
    BY <1>4 DEF AckAlert, Running
  <2>2. /\ new \in AlertRow /\ new.resolved_at = was.resolved_at
        /\ new.severity = was.severity
    BY <1>2 DEF AlertRow, AlertStatuses
  <2> HIDE DEF new
  <2>3. ASSUME old.kind = was.kind
        PROVE  Flushed(old, was, new) \in Row /\ Updates(r, was, old, Flushed(old, was, new))
    <3>1. old \in AlertRow
      BY <1>2, <2>3
    <3> DEFINE f == Flushed(old, was, new)
    <3>2. /\ f \in AlertRow
          /\ f.severity = Put(new.severity, was.severity, old.severity)
          /\ f.resolved_at = Put(new.resolved_at, was.resolved_at, old.resolved_at)
      BY <1>2, <2>2, <3>1, FlushedAlert
    <3> HIDE DEF f
    <3>3. f.resolved_at = old.resolved_at /\ f.severity = old.severity
      BY <2>2, <3>2 DEF Put
    <3>4. WritesAlert(r, was, old, f)
      BY <2>1, <3>3 DEF WritesAlert
    <3>5. f \in Row /\ f.kind = "alert"
      BY <3>2 DEF Row, AlertRow
    <3> QED BY <1>1, <1>2, <2>3, <3>4, <3>5 DEF Updates, f
  <2> QED BY <1>1, <2>1, <2>3, UpdateStep
<1> QED BY <1>3, <1>4

\* A heartbeat of a device that is registered.
LEMMA DeviceStep ==
  ASSUME Base, NEW r \in Requests, req[r].arg # Bad, DeviceHeartbeat(r)
  PROVE  Moves(r)
<1> DEFINE was == req[r].loaded
           old == table[req[r].key]
           new == [was EXCEPT !.last_heartbeat = r, !.status = "online", !.metrics = req[r].arg]
<1>1. /\ Loading(r) /\ Loads[req[r].op] = "device" /\ Update(r, new)
      /\ req[r].op = "device_heartbeat"
  BY LoadedKinds DEF Loading, Running, DeviceHeartbeat
<1>2. /\ was \in DeviceRow /\ r \in Writer /\ was.last_heartbeat # r /\ req[r].arg \in Texts
      /\ old.kind = was.kind => old \in DeviceRow
      /\ was.kind = "device"
  BY <1>1, HeldRow, RowKinds DEF Marks, Argument, ArgumentOf
<1>3. new \in DeviceRow /\ new.status = "online" /\ new.last_heartbeat = r
  BY <1>2 DEF DeviceRow
<1> HIDE DEF new
<1>4. ASSUME old.kind = was.kind
      PROVE  Flushed(old, was, new) \in Row /\ Updates(r, was, old, Flushed(old, was, new))
  <2>1. old \in DeviceRow
    BY <1>2, <1>4
  <2> DEFINE f == Flushed(old, was, new)
  <2>2. /\ f \in DeviceRow
        /\ f.status = Put(new.status, was.status, old.status)
        /\ f.last_heartbeat = Put(new.last_heartbeat, was.last_heartbeat, old.last_heartbeat)
    BY <1>2, <1>3, <2>1, FlushedDevice
  <2> HIDE DEF f
  <2>3. WritesDevice(r, was, old, f)
    BY <1>1, <1>2, <1>3, <2>2 DEF WritesDevice, Put
  <2>4. f \in Row /\ f.kind = "device"
    BY <2>2 DEF Row, DeviceRow
  <2> QED BY <1>1, <1>2, <1>4, <2>3, <2>4 DEF Updates, f
<1> QED BY <1>1, <1>4, UpdateStep

\* A rollback of an action.
LEMMA ActionStep ==
  ASSUME Base, NEW r \in Requests, RollbackAction(r)
  PROVE  Moves(r)
<1> DEFINE was == req[r].loaded
           old == table[req[r].key]
           new == [was EXCEPT !.status = "rolled_back"]
<1>1. Loading(r) /\ Loads[req[r].op] = "action" /\ req[r].op = "rollback_action"
  BY LoadedKinds DEF Loading, Running, RollbackAction
<1>2. /\ was \in ActionRow /\ was.kind = "action" /\ req[r].pc = "open"
      /\ old.kind = was.kind => old \in ActionRow
  BY <1>1, HeldRow, RowKinds
<1>3. CASE was.status # "completed"
  <2>1. Answer(r, "400") /\ req[r].op \notin Reads
    BY <1>1, <1>3, ReadsApart DEF RollbackAction, Loading
  <2> QED BY <1>2, <2>1, AnswersStep DEF Moves, Errors
<1>4. CASE ~(was.status # "completed")
  <2>1. Update(r, new)
    BY <1>4 DEF RollbackAction
  <2>2. new \in ActionRow
    BY <1>2 DEF ActionRow
  <2> HIDE DEF new
  <2>3. ASSUME old.kind = was.kind
        PROVE  Flushed(old, was, new) \in Row /\ Updates(r, was, old, Flushed(old, was, new))
    <3>1. Flushed(old, was, new) \in ActionRow
      BY <1>2, <2>2, <2>3, FlushedAction
    <3> QED BY <1>1, <1>2, <2>3, <3>1, RowKinds DEF Updates, Row
  <2> QED BY <1>1, <2>1, <2>3, UpdateStep
<1> QED BY <1>3, <1>4

\* A name that is taken was there before, or was asked for by a request that
\* is done.
LEMMA TakenReason ==
  ASSUME Named, NEW r \in Requests, req[r].pc = "open",
         req[r].op \in {"create_policy", "update_policy"}, Taken(r, "policy", req[r].arg)
  PROVE  Reason(r)
<1>1. PICK k \in Rows("policy") : table[k].name = req[r].arg
  BY DEF Taken
<1>2. CASE table[k].name = OldName
  BY <1>1, <1>2 DEF Reason
<1>3. CASE \E x \in Requests : /\ Done(x, "create_policy") \/ Done(x, "update_policy")
                               /\ req[x].arg = table[k].name
  <2>1. PICK x \in Requests : /\ Done(x, "create_policy") \/ Done(x, "update_policy")
                              /\ req[x].arg = table[k].name
    BY <1>3
  <2>2. x \in Requests \ {r}
    BY <2>1 DEF Done
  <2> QED BY <1>1, <2>1, <2>2 DEF Reason
<1> QED BY <1>1, <1>2, <1>3 DEF Named

\* The handlers of a policy that is there, or was.
LEMMA PolicyStep ==
  ASSUME Base, Named, NEW r \in Requests, req[r].arg # Bad, UpdatePolicy(r) \/ DeletePolicy(r)
  PROVE  Moves(r)
<1> DEFINE was == req[r].loaded
           old == table[req[r].key]
           new == [was EXCEPT !.name = req[r].arg]
<1>1. Loading(r) /\ Loads[req[r].op] = "policy" /\ req[r].pc = "open"
  BY LoadedKinds DEF Loading, Running, UpdatePolicy, DeletePolicy
<1>2. /\ was \in PolicyRow /\ was.kind = "policy"
      /\ req[r].op = "update_policy" => req[r].arg \in Names
      /\ old.kind = was.kind => old \in PolicyRow
  BY <1>1, HeldRow, RowKinds DEF Argument, ArgumentOf
<1>3. CASE DeletePolicy(r)
  <2>1. req[r].key \in Keys /\ Missing \in Row
    BY DEF Base, Shape, Request, Row
  <2>2. Commit(r, req[r].key, Missing) /\ Writes(r, req[r].key, Missing)
    BY <1>3 DEF DeletePolicy, Running, Writes
  <2> QED BY <1>1, <2>1, <2>2, CommitsStep DEF Moves
<1>4. CASE UpdatePolicy(r) /\ Taken(r, "policy", req[r].arg) /\ was.name # req[r].arg
  <2>1. Answer(r, "500") /\ req[r].op = "update_policy"
    BY <1>4 DEF UpdatePolicy, Running
  <2>2. Reason(r) /\ req[r].op \notin Reads
    BY <1>1, <1>4, <2>1, TakenReason, ReadsApart DEF Loading
  <2> QED BY <1>1, <2>1, <2>2, AnswersStep DEF Moves, Errors
<1>5. CASE UpdatePolicy(r) /\ ~(Taken(r, "policy", req[r].arg) /\ was.name # req[r].arg)
  <2>1. Update(r, new) /\ req[r].op = "update_policy"
    BY <1>5 DEF UpdatePolicy, Running
  <2>2. new \in PolicyRow /\ new.name = req[r].arg
    BY <1>2, <2>1 DEF PolicyRow
  <2> HIDE DEF new
  <2>3. ASSUME old.kind = was.kind
        PROVE  Flushed(old, was, new) \in Row /\ Updates(r, was, old, Flushed(old, was, new))
    <3>1. old \in PolicyRow
      BY <1>2, <2>3
    <3> DEFINE f == Flushed(old, was, new)
    <3>2. f \in PolicyRow /\ f.name = Put(new.name, was.name, old.name)
      BY <1>2, <2>2, <3>1, FlushedPolicy
    <3> HIDE DEF f
    <3>3. WritesPolicy(r, was, old, f)
      BY <2>1, <2>2, <3>2 DEF WritesPolicy
    <3>4. f \in Row /\ f.kind = "policy"
      BY <3>2 DEF Row, PolicyRow
    <3> QED BY <1>1, <1>2, <2>3, <3>3, <3>4 DEF Updates, f
  <2> QED BY <1>1, <2>1, <2>3, UpdateStep
<1> QED BY <1>3, <1>4, <1>5

\* The forms of new rows.
LEMMA NewRows ==
  ASSUME NEW r \in Requests
  PROVE  /\ NewCase(<<r>>) \in CaseRow /\ NewCase(<<>>) \in CaseRow
         /\ \A device \in Keys, severity \in {"critical", "info"} :
              NewAlert(device, severity) \in AlertRow
         /\ \A compatible \in BOOLEAN : NewDevice(r, compatible) \in DeviceRow
         /\ \A name \in Names : NewPolicy(name) \in PolicyRow /\ NewUser(name) \in UserRow
         /\ \A device \in Keys : NewAction(device) \in ActionRow
<1>1. r \in Writer /\ Null \in Writer
  BY DEF Writer
<1>2. NewCase(<<r>>) \in CaseRow /\ NewCase(<<>>) \in CaseRow
  BY <1>1 DEF NewCase, CaseRow
<1>3. \A device \in Keys, severity \in {"critical", "info"} : NewAlert(device, severity) \in AlertRow
  BY <1>1 DEF NewAlert, AlertRow
<1>4. \A compatible \in BOOLEAN : NewDevice(r, compatible) \in DeviceRow
  BY <1>1 DEF NewDevice, DeviceRow
<1>5. /\ \A name \in Names : NewPolicy(name) \in PolicyRow /\ NewUser(name) \in UserRow
      /\ \A device \in Keys : NewAction(device) \in ActionRow
  BY DEF NewPolicy, PolicyRow, NewUser, UserRow, NewAction, ActionRow
<1> QED BY <1>2, <1>3, <1>4, <1>5

\* A device or an alert that does not exist, and the address of a user that is
\* taken.
LEMMA RefusedReason ==
  ASSUME Base, Named, NEW r \in Requests, req[r].pc = "open", req[r].arg # Bad
  PROVE  /\ (/\ req[r].op \in {"create_alert", "ingest_telemetry"}
             /\ Unknown("device", req[r].arg)) => Reason(r)
         /\ (/\ req[r].op = "create_remediation"
             /\ \/ Unknown("device", req[r].arg.device)
                \/ req[r].arg.alert # Null /\ Unknown("alert", req[r].arg.alert)) => Reason(r)
         /\ (req[r].op = "create_user" /\ Taken(r, "user", req[r].arg)) => Reason(r)
<1>1. Argument(r)
  BY DEF Base
<1>2. ASSUME NEW kind, NEW id, Refers(id, r, kind), Unknown(kind, id)
      PROVE  id = r
  BY <1>2 DEF Refers, Unknown, Rows
<1>3. (/\ req[r].op \in {"create_alert", "ingest_telemetry"}
       /\ Unknown("device", req[r].arg)) => Reason(r)
  BY <1>1, <1>2 DEF Argument, ArgumentOf, Reason, References
<1>4. (/\ req[r].op = "create_remediation"
       /\ \/ Unknown("device", req[r].arg.device)
          \/ req[r].arg.alert # Null /\ Unknown("alert", req[r].arg.alert)) => Reason(r)
  BY <1>1, <1>2 DEF Argument, ArgumentOf, Reason, References
<1>5. ASSUME req[r].op = "create_user", Taken(r, "user", req[r].arg)
      PROVE  Reason(r)
  <2>1. Registered(req[r].arg)
    BY <1>5 DEF Taken, Registered
  <2>2. req[r].missed # {}
    BY <1>5, <2>1 DEF Named, Running
  <2> QED BY <2>2 DEF Reason
<1> QED BY <1>3, <1>4, <1>5

\* The handlers that insert a row.
LEMMA InsertsStep ==
  ASSUME Base, Named, NEW r \in Requests, req[r].arg # Bad,
         \/ CreateInvestigation(r) \/ LocalCreate(r) \/ CreateAlert(r) \/ IngestTelemetry(r)
         \/ LocalIngest(r) \/ RegisterDevice(r) \/ CreatePolicy(r) \/ CreateUser(r)
         \/ CreateRemediation(r)
  PROVE  Moves(r)
<1>1. /\ req[r].pc = "open" /\ Argument(r)
      /\ req[r].op \notin DOMAIN Loads \cup {"operator"} \cup Reads
  BY LoadedKinds, ReadsApart
     DEF RespondsWithRow, Base, Running, CreateInvestigation, LocalCreate, CreateAlert, IngestTelemetry,
         LocalIngest, RegisterDevice, CreatePolicy, CreateUser, CreateRemediation
<1>2. ASSUME NEW row \in Row, Insert(r, row), row.kind \in {"user", "action"}
      PROVE  Moves(r)
  <2>1. Inserts(r, row)
    BY <1>1, <1>2 DEF Inserts
  <2> QED BY <1>1, <1>2, <2>1, InsertStep
<1>3. ASSUME Answer(r, "500"), Reason(r)
      PROVE  Moves(r)
  BY <1>1, <1>3, AnswersStep DEF Moves, Errors
<1>4. CASE CreateInvestigation(r) \/ LocalCreate(r)
  <2>1. PICK entries \in {<<r>>, <<>>} : Insert(r, NewCase(entries))
    BY <1>4 DEF CreateInvestigation, LocalCreate
  <2>2. NewCase(entries) \in Row
    BY <2>1, NewRows DEF Row
  <2>3. \A i \in DOMAIN entries : entries[i] = r
    BY <2>1
  <2>4. Inserts(r, NewCase(entries))
    BY <1>1, <2>3 DEF Inserts, NewCase
  <2> QED BY <1>1, <2>1, <2>2, <2>4, InsertStep
<1>5. CASE CreateAlert(r) \/ IngestTelemetry(r) \/ LocalIngest(r)
  <2>1. req[r].op \in {"create_alert", "ingest_telemetry", "local_ingest"}
    BY <1>5 DEF CreateAlert, IngestTelemetry, LocalIngest, Running
  <2>2. req[r].arg \in Keys
    BY <1>1, <2>1 DEF Argument, ArgumentOf, Refers
  <2>3. CASE Answer(r, "500") /\ Unknown("device", req[r].arg) /\ req[r].op # "local_ingest"
    BY <1>1, <1>3, <2>1, <2>3, RefusedReason
  <2>4. CASE \E severity \in {"critical", "info"} : Insert(r, NewAlert(req[r].arg, severity))
    <3>1. PICK severity \in {"critical", "info"} : Insert(r, NewAlert(req[r].arg, severity))
      BY <2>4
    <3>2. NewAlert(req[r].arg, severity) \in Row
      BY <2>2, NewRows DEF Row
    <3>3. Inserts(r, NewAlert(req[r].arg, severity))
      BY <1>1 DEF Inserts, NewAlert
    <3> QED BY <1>1, <3>1, <3>2, <3>3, InsertStep
  <2>5. \/ Answer(r, "500") /\ Unknown("device", req[r].arg) /\ req[r].op # "local_ingest"
        \/ \E severity \in {"critical", "info"} : Insert(r, NewAlert(req[r].arg, severity))
    BY <1>5 DEF CreateAlert, IngestTelemetry, LocalIngest, Running
  <2> QED BY <2>3, <2>4, <2>5
<1>6. CASE RegisterDevice(r)
  <2> DEFINE row == NewDevice(r, CheckCompatibility(req[r].arg))
  <2>1. Insert(r, row)
    BY <1>6 DEF RegisterDevice
  <2>2. CheckCompatibility(req[r].arg) \in BOOLEAN
    BY DEF CheckCompatibility
  <2>3. row \in Row
    BY <2>2, NewRows DEF Row
  <2>4. Inserts(r, row)
    BY <1>1 DEF Inserts, NewDevice
  <2> QED BY <1>1, <2>1, <2>3, <2>4, InsertStep
<1>7. CASE CreatePolicy(r)
  <2>1. req[r].op = "create_policy"
    BY <1>7 DEF CreatePolicy, Running
  <2>2. CASE Taken(r, "policy", req[r].arg)
    BY <1>1, <1>3, <1>7, <2>1, <2>2, TakenReason DEF CreatePolicy
  <2>3. CASE ~Taken(r, "policy", req[r].arg)
    <3>1. Insert(r, NewPolicy(req[r].arg))
      BY <1>7, <2>3 DEF CreatePolicy
    <3>2. NewPolicy(req[r].arg) \in Row
      BY <1>1, <2>1, NewRows DEF Argument, ArgumentOf, Row
    <3>3. Inserts(r, NewPolicy(req[r].arg))
      BY <1>1, <2>1 DEF Inserts, NewPolicy
    <3> QED BY <1>1, <3>1, <3>2, <3>3, InsertStep
  <2> QED BY <2>2, <2>3
<1>8. CASE CreateUser(r)
  <2>1. req[r].op = "create_user"
    BY <1>8 DEF CreateUser, Running
  <2>2. CASE Taken(r, "user", req[r].arg)
    BY <1>1, <1>3, <1>8, <2>1, <2>2, RefusedReason DEF CreateUser
  <2>3. CASE ~Taken(r, "user", req[r].arg)
    <3>1. Insert(r, NewUser(req[r].arg))
      BY <1>8, <2>3 DEF CreateUser
    <3>2. NewUser(req[r].arg) \in Row /\ NewUser(req[r].arg).kind = "user"
      BY <1>1, <2>1, NewRows DEF Argument, ArgumentOf, Row, NewUser
    <3> QED BY <1>2, <3>1, <3>2
  <2> QED BY <2>2, <2>3
<1>9. CASE CreateRemediation(r)
  <2> DEFINE asked == req[r].arg
             refused == \/ Unknown("device", asked.device)
                        \/ asked.alert # Null /\ Unknown("alert", asked.alert)
  <2>1. req[r].op = "create_remediation"
    BY <1>9 DEF CreateRemediation, Running
  <2>2. CASE refused
    <3>1. Answer(r, "500")
      BY <1>9, <2>2 DEF CreateRemediation
    <3>2. Reason(r)
      BY <1>1, <2>1, <2>2, RefusedReason
    <3> QED BY <1>3, <3>1, <3>2
  <2>3. CASE ~refused
    <3>1. Insert(r, NewAction(asked.device))
      BY <1>9, <2>3 DEF CreateRemediation
    <3>2. asked.device \in Keys
      BY <1>1, <2>1 DEF Argument, ArgumentOf, Refers
    <3>3. NewAction(asked.device) \in Row /\ NewAction(asked.device).kind = "action"
      BY <3>2, NewRows DEF Row, NewAction
    <3> QED BY <1>2, <3>1, <3>3
  <2> QED BY <2>2, <2>3
<1> QED BY <1>4, <1>5, <1>6, <1>7, <1>8, <1>9

\* An operator's statement.
LEMMA OperatorStep ==
  ASSUME Base, NEW r \in Requests, Operator(r)
  PROVE  Moves(r)
<1> DEFINE k == req[r].key
<1>1. req[r].pc = "open" /\ req[r].op = "operator" /\ Held(r) /\ Untouched(r) /\ Shape
  BY DEF Operator, Running, Base
<1>2. k \in Keys /\ table[k] \in Row
  BY <1>1 DEF Shape, Request
<1>3. PICK status : /\ status \in IF table[k].kind = "device" THEN {"quarantined", "compromised"}
                                  ELSE {"completed"}
                    /\ Commit(r, k, [table[k] EXCEPT !.status = status])
  BY DEF Operator
<1> DEFINE row == [table[k] EXCEPT !.status = status]
<1>4. CASE table[k].kind = "device"
  <2>1. table[k] \in DeviceRow
    BY <1>2, <1>4, RowKinds
  <2>2. row \in DeviceRow /\ row.status # "online" /\ row.last_heartbeat = table[k].last_heartbeat
        /\ row.kind = "device"
    BY <1>3, <1>4, <2>1 DEF DeviceRow
  <2>3. row \in Row /\ Writes(r, k, row)
    BY <1>1, <1>4, <2>2 DEF Writes, Operates, Row
  <2> QED BY <1>1, <1>2, <1>3, <2>3, CommitsStep DEF Moves
<1>5. CASE table[k].kind # "device"
  <2>1. table[k].kind = "action"
    BY <1>1, <1>5 DEF Held, Running
  <2>2. table[k] \in ActionRow
    BY <1>2, <2>1, RowKinds
  <2>3. row \in ActionRow /\ row.kind = "action"
    BY <1>3, <1>5, <2>2 DEF ActionRow
  <2>4. row \in Row /\ Writes(r, k, row)
    BY <1>1, <2>1, <2>3 DEF Writes, Operates, Row
  <2> QED BY <1>1, <1>2, <1>3, <2>4, CommitsStep DEF Moves
<1> QED BY <1>4, <1>5

\* The next statement of a handler that reads, or its answer.
LEMMA ReadStep ==
  ASSUME Base, NEW r \in Requests, Read(r)
  PROVE  Moves(r)
<1> DEFINE all == Statements(req[r])
           seen == req[r].seen
           ended == Len(seen) = Len(all)
                    \/ (req[r].op = "gdpr_export" /\ Len(seen) = 1 /\ seen[1] = {})
           refused == /\ server = "strict" /\ req[r].op \in RespondsWithRows
                      /\ seen[Len(seen)] # {}
<1>1. req[r].pc = "open" /\ req[r].op \in Reads /\ Session(r) /\ Shape
  BY DEF Read, Base
<1>2. /\ IF ~ended THEN req' = [req EXCEPT ![r].seen = Append(@, all[Len(@) + 1])] /\ UNCHANGED table
         ELSE Answer(r, IF refused THEN "500" ELSE "ok")
      /\ all \in Seq(SUBSET Keys) /\ Len(all) = Parts[req[r].op]
      /\ seen \in Seq(SUBSET Keys) /\ Len(seen) =< Parts[req[r].op]
      /\ req[r] \in Request
  BY <1>1, StatementFacts DEF Read, Gives, Session, Shape, Request
<1>3. req[r].op \notin TimelineWriters /\ (ended => Ended(r))
  BY <1>1, <1>2, ReadsApart DEF Ended
<1> HIDE DEF all, seen, ended, refused
<1>4. CASE ended /\ refused
  <2>1. Answer(r, "500") /\ Reason(r)
    BY <1>2, <1>4 DEF refused, Reason
  <2> QED BY <1>1, <1>3, <1>4, <2>1, AnswersStep DEF Moves, Errors
<1>5. CASE ended /\ ~refused
  <2>1. Answer(r, "ok")
    BY <1>2, <1>5
  <2> QED BY <1>1, <1>3, <1>5, <2>1, AnswersStep DEF Moves, Errors
<1>6. CASE ~ended
  <2>1. Len(seen) # Len(all) /\ Len(seen) + 1 \in 1..Len(all) /\ Len(seen) \in Nat
    BY <1>2, <1>6 DEF ended
  <2>2. /\ Append(seen, all[Len(seen) + 1]) \in Seq(SUBSET Keys)
        /\ Len(Append(seen, all[Len(seen) + 1])) = Len(seen) + 1
    BY <1>2, <2>1
  <2>3. req' = [req EXCEPT ![r] = [req[r] EXCEPT !.seen = Append(seen, all[Len(seen) + 1])]]
        /\ table' = table
    BY <1>2, <1>6 DEF seen
  <2>4. req'[r] = [req[r] EXCEPT !.seen = Append(seen, all[Len(seen) + 1])] /\ Rest(r)
    BY <1>1, <2>3 DEF Shape, Rest
  <2>5. /\ req'[r] \in Request /\ req'[r].seen = Append(seen, all[Len(seen) + 1])
        /\ req'[r].pc = req[r].pc /\ req'[r].op = req[r].op /\ req'[r].key = req[r].key
        /\ req'[r].arg = req[r].arg /\ req'[r].loaded = req[r].loaded
        /\ req'[r].answer = req[r].answer /\ req'[r].missed = req[r].missed
    BY <1>2, <2>2, <2>4 DEF Request
  <2>6. Shape'
    BY <1>1, <2>3, <2>4, <2>5 DEF Shape
  <2>7. Len(req'[r].seen) =< Parts[req[r].op]
    BY <1>2, <2>1, <2>2, <2>5
  <2> QED BY <1>1, <2>3, <2>4, <2>5, <2>6, <2>7 DEF Looks, Moves, seen, all
<1> QED BY <1>4, <1>5, <1>6

\* Every step is one of the forms.
LEMMA AnyStep ==
  ASSUME Base, Named, [Next]_vars
  PROVE  Step
<1>1. CASE UNCHANGED vars
  BY <1>1 DEF vars, Base, Shape, Request, Arguments, Rows, Step
<1>2. ASSUME NEW r \in Requests, Handle(r) \/ Refuse(r) \/ Cut(r)
      PROVE  Moves(r)
  <2>0. Handle(r) => req[r].arg # Bad
    BY DEF Handle
  <2>1. CASE /\ req[r].arg # Bad
             /\ (AddTimelineEntry(r) \/ AssignInvestigation(r) \/ CloseInvestigation(r))
    BY <2>1, CaseStep
  <2>2. CASE req[r].arg # Bad /\ (UpdateAlert(r) \/ AckAlert(r))
    BY <2>2, AlertStep
  <2>3. CASE req[r].arg # Bad /\ (DeviceHeartbeat(r) \/ RollbackAction(r))
    BY <2>3, DeviceStep, ActionStep
  <2>4. CASE req[r].arg # Bad /\ (UpdatePolicy(r) \/ DeletePolicy(r))
    BY <2>4, PolicyStep
  <2>5. CASE /\ req[r].arg # Bad
             /\ \/ CreateInvestigation(r) \/ LocalCreate(r) \/ CreateAlert(r) \/ IngestTelemetry(r)
                \/ LocalIngest(r) \/ RegisterDevice(r) \/ CreatePolicy(r) \/ CreateUser(r)
                \/ CreateRemediation(r)
    BY <2>5, InsertsStep
  <2>6. CASE Operator(r) \/ Read(r)
    BY <2>6, OperatorStep, ReadStep
  <2>7. CASE GetRow(r)
    <3>1. /\ req[r].op \in {"get_investigation", "get_device", "get_policy"} /\ req[r].pc = "open"
          /\ Answer(r, IF server = "strict" THEN "500" ELSE "ok")
      BY <2>7 DEF GetRow, Running
    <3>2. CASE server = "strict"
      <4>1. Answer(r, "500") /\ Reason(r) /\ req[r].op \notin Reads
        BY <3>1, <3>2, ReadsApart DEF Reason, RespondsWithRow
      <4> QED BY <3>1, <4>1, AnswersStep DEF Moves, Errors
    <3>3. CASE server # "strict"
      <4>1. Answer(r, "ok") /\ req[r].op \notin TimelineWriters \cup Reads
        BY <3>1, <3>3, ReadsApart DEF TimelineWriters, RespondsWithRow
      <4> QED BY <3>1, <4>1, AnswersStep DEF Moves
    <3> QED BY <3>2, <3>3
  <2>8. CASE LocalGetDevice(r)
    <3>1. /\ Answer(r, "ok") /\ req[r].op \notin TimelineWriters \cup Reads
          /\ req[r].pc = "open"
      BY <2>8, ReadsApart, LoadedKinds DEF LocalGetDevice, Running, TimelineWriters
    <3> QED BY <3>1, AnswersStep DEF Moves
  <2>9. CASE Cut(r)
    BY <2>9, AnswersStep DEF Cut, Moves
  <2>10. CASE Refuse(r)
    <3>1. req[r].pc = "open" /\ Reason(r) /\ (Answer(r, "400") \/ Answer(r, "500"))
      BY <2>10 DEF Refuse, Reason
    <3> QED BY <3>1, AnswersStep DEF Moves, Errors
  <2> QED BY <1>2, <2>0, <2>1, <2>2, <2>3, <2>4, <2>5, <2>6, <2>7, <2>8, <2>9, <2>10 DEF Handle
<1>3. CASE Next
  <2>1. mix' = mix /\ server' = server
    BY <1>3 DEF Next
  <2>2. PICK r \in Requests :
          \/ \E op \in Asked : \E key \in Ids(r, op), arg \in Args(r, op) : Receive(r, op, key, arg)
          \/ Handle(r) \/ Refuse(r) \/ Cut(r)
    BY <1>3 DEF Next
  <2>3. CASE \E op \in Asked : \E key \in Ids(r, op), arg \in Args(r, op) : Receive(r, op, key, arg)
    <3>1. Shape' /\ Begins(r)
      BY <2>3, BeginsStep
    <3> QED BY <2>1, <3>1 DEF Step
  <2>4. CASE Handle(r) \/ Refuse(r) \/ Cut(r)
    <3>1. Moves(r)
      BY <1>2, <2>4
    <3> QED BY <2>1, <3>1 DEF Step, Moves
  <2> QED BY <2>2, <2>3, <2>4
<1> QED BY <1>1, <1>3

-----------------------------------------------------------------------------
(* The steps preserve Base.                                                 *)

\* A session's own bookkeeping.
LEMMA SessionKept ==
  ASSUME Base, Step, NEW x \in Requests
  PROVE  Session(x)'
<1>1. Session(x) /\ req[x] \in Request
  BY DEF Base, Shape
<1>2. \A op \in Reads : Parts[op] \in Nat
  BY DEF Reads, LocalReads, Parts
<1>3. CASE req' = req
  BY <1>1, <1>3 DEF Session, Loading
<1>4. ASSUME NEW r \in Requests, Begins(r)
      PROVE  Session(x)'
  <2>1. CASE x # r
    BY <1>1, <1>4, <2>1 DEF Begins, Rest, Session, Loading
  <2>2. CASE x = r /\ req'[r].pc = "done"
    BY <1>1, <1>4, <2>2 DEF Begins, Session, Loading
  <2>3. CASE x = r /\ req'[r].pc = "open"
    <3>1. Len(req'[r].seen) = 0
      BY <1>1, <1>4, <2>3 DEF Begins, Session
    <3>2. req'[r].loaded.kind = IF req'[r].op \in DOMAIN Loads THEN Loads[req'[r].op] ELSE "none"
      BY <1>1, <1>4, <2>3 DEF Begins, Session, Loading
    <3> QED BY <1>1, <1>2, <1>4, <2>3, <3>1, <3>2 DEF Begins, Session, Loading
  <2> QED BY <1>4, <2>1, <2>2, <2>3 DEF Begins
<1>5. ASSUME NEW r \in Requests, Answers(r)
      PROVE  Session(x)'
  <2>1. CASE x # r
    BY <1>1, <1>5, <2>1 DEF Answers, Rest, Session, Loading
  <2>2. CASE x = r
    BY <1>1, <1>5, <2>2 DEF Answers, Ends, Session, Loading, Missing
  <2> QED BY <2>1, <2>2
<1>6. ASSUME NEW r \in Requests, Looks(r)
      PROVE  Session(x)'
  BY <1>1, <1>6 DEF Looks, Rest, Session, Loading
<1>7. ASSUME NEW r \in Requests, NEW k \in Keys, NEW row \in Row, Commits(r, k, row)
      PROVE  Session(x)'
  <2>1. CASE x # r
    BY <1>1, <1>7, <2>1 DEF Commits, Steady, Session, Loading
  <2>2. CASE x = r
    BY <1>1, <1>7, <2>2 DEF Commits, Ends, Session, Loading, Missing
  <2> QED BY <2>1, <2>2
<1> QED BY <1>3, <1>4, <1>5, <1>6, <1>7 DEF Step

\* The row that is written: one of its own, or the one that was loaded.
LEMMA WrittenRow ==
  ASSUME Base, NEW r \in Requests, NEW k \in Keys, NEW row \in Row, Commits(r, k, row)
  PROVE  \/ k = r /\ Inserts(r, row) /\ table[k] = Missing
         \/ /\ k = req[r].key /\ Updates(r, req[r].loaded, table[k], row)
         \/ /\ k = req[r].key /\ Loading(r) /\ row = Missing /\ req[r].op = "delete_policy"
            /\ table[k].kind \in {"policy", "none"}
         \/ /\ k = req[r].key /\ Running(r, "operator") /\ Operates(r, table[k], row)
<1>1. Untouched(r) /\ Held(r) /\ Session(r) /\ req[r].pc = "open" /\ Fresh(r)
  BY DEF Base, Commits, Fresh
<1>2. CASE k = r /\ Inserts(r, row)
  BY <1>1, <1>2 DEF Untouched
<1>3. CASE k = req[r].key /\ req[r].op = "delete_policy" /\ row = Missing
  <2>1. Loading(r) /\ Loads[req[r].op] = "policy"
    BY <1>1, <1>3, LoadedKinds DEF Loading
  <2>2. table[k].kind \in {"policy", "none"}
    BY <1>1, <1>3, <2>1 DEF Held, Session, Missing
  <2> QED BY <1>3, <2>1, <2>2
<1>4. CASE k = req[r].key /\ Operates(r, table[k], row)
  BY <1>1, <1>4 DEF Operates, Running
<1> QED BY <1>2, <1>3, <1>4 DEF Commits, Writes

\* A row keeps its kind, unless it is inserted, or a policy that is deleted.
LEMMA KindKept ==
  ASSUME Base, NEW r \in Requests, NEW k \in Keys, NEW row \in Row, Commits(r, k, row),
         NEW j \in Keys
  PROVE  \/ table'[j].kind = table[j].kind
         \/ j = r /\ table[j] = Missing
         \/ table'[j] = Missing /\ table[j].kind \in {"policy", "none"}
<1>1. table'[k] = row /\ (j # k => table'[j] = table[j])
  BY DEF Commits
<1> QED BY <1>1, WrittenRow DEF Updates, Operates

\* What an open session has loaded.
LEMMA HeldKept ==
  ASSUME Base, Step, NEW x \in Requests
  PROVE  Held(x)'
<1>1. Session(x) /\ Held(x) /\ req[x] \in Request
  BY DEF Base, Shape
<1>2. CASE table' = table /\ req' = req
  BY <1>1, <1>2 DEF Held, Loading, Running
<1>3. ASSUME NEW r \in Requests, Begins(r)
      PROVE  Held(x)'
  <2>1. CASE x # r
    BY <1>1, <1>3, <2>1 DEF Begins, Rest, Held, Loading, Running
  <2>2. CASE x = r
    BY <1>1, <1>3, <2>2 DEF Begins, Held, Loading, Running
  <2> QED BY <2>1, <2>2
<1>4. ASSUME NEW r \in Requests, Answers(r) \/ Looks(r)
      PROVE  Held(x)'
  <2>1. CASE x # r
    BY <1>1, <1>4, <2>1 DEF Answers, Looks, Rest, Held, Loading, Running
  <2>2. CASE x = r
    BY <1>1, <1>4, <2>2 DEF Answers, Looks, Ends, Held, Loading, Running
  <2> QED BY <2>1, <2>2
<1>5. ASSUME NEW r \in Requests, NEW k \in Keys, NEW row \in Row, Commits(r, k, row)
      PROVE  Held(x)'
  <2>1. CASE x = r
    BY <1>5, <2>1 DEF Commits, Ends, Held, Loading, Running
  <2>2. CASE x # r
    <3> DEFINE j == req[x].key
    <3>1. /\ Steady(x) /\ j \in Keys /\ req[r].pc = "open" /\ table'[k] = row
          /\ req'[x].missed = req[x].missed \cup IF Passes(x, r, k) THEN {r} ELSE {}
          /\ j # k => table'[j] = table[j]
      BY <1>1, <1>5, <2>2 DEF Commits, Request
    <3>2. (Loading(x) \/ Running(x, "operator")) => j # r
      BY <1>5, <3>1 DEF Base, Untouched, Fresh
    <3>3. \/ table'[j].kind = table[j].kind
          \/ j = r
          \/ table'[j] = Missing /\ table[j].kind \in {"policy", "none"}
      BY <1>5, <3>1, KindKept
    <3>4. ASSUME Loading(x)
          PROVE  /\ \/ table'[j].kind = req[x].loaded.kind
                    \/ table'[j] = Missing /\ req[x].loaded.kind = "policy"
                 /\ table'[j] = req[x].loaded \/ req'[x].missed # {}
      <4>1. req[x].loaded.kind # "none"
        BY <1>1, <3>4, LoadedKinds DEF Session, Loading
      <4>2. \/ table'[j].kind = req[x].loaded.kind
            \/ table'[j] = Missing /\ req[x].loaded.kind = "policy"
        <5>1. CASE table'[j].kind = table[j].kind
          <6>1. CASE table[j].kind = req[x].loaded.kind
            BY <5>1, <6>1
          <6>2. CASE table[j] = Missing /\ req[x].loaded.kind = "policy"
            <7>1. table'[j] \in Row /\ table'[j].kind = "none"
              BY <3>1, <5>1, <6>2 DEF Step, Shape, Missing
            <7> QED BY <6>2, <7>1, RowKinds
          <6> QED BY <1>1, <3>4, <6>1, <6>2 DEF Held
        <5>2. CASE table'[j] = Missing /\ table[j].kind \in {"policy", "none"}
          BY <1>1, <3>4, <4>1, <5>2 DEF Held
        <5> QED BY <3>2, <3>3, <3>4, <5>1, <5>2
      <4>3. table'[j] = req[x].loaded \/ req'[x].missed # {}
        BY <1>1, <3>1, <3>4 DEF Held, Passes, Loading
      <4> QED BY <4>2, <4>3
    <3>5. Running(x, "operator") => table'[j].kind \in {"device", "action"}
      BY <1>1, <3>2, <3>3 DEF Held
    <3> QED BY <3>1, <3>4, <3>5 DEF Held, Loading, Running, Steady
  <2> QED BY <2>1, <2>2
<1> QED BY <1>2, <1>3, <1>4, <1>5 DEF Step

\* The devices, alerts and users that a request names stay what they are.
LEMMA ArgumentKept ==
  ASSUME Base, Step, NEW x \in Requests
  PROVE  Argument(x)'
<1>1. Argument(x) /\ req[x] \in Request
  BY DEF Base, Shape
<1>2. CASE table' = table /\ req' = req
  BY <1>1, <1>2 DEF Argument, ArgumentOf, Refers
<1>3. ASSUME NEW r \in Requests, Begins(r) \/ Answers(r) \/ Looks(r)
      PROVE  Argument(x)'
  <2>1. CASE x # r
    BY <1>1, <1>3, <2>1 DEF Begins, Answers, Looks, Rest, Argument, ArgumentOf, Refers
  <2>2. CASE x = r
    BY <1>1, <1>3, <2>2 DEF Begins, Answers, Looks, Ends, Argument, ArgumentOf, Refers
  <2> QED BY <2>1, <2>2
<1>4. ASSUME NEW r \in Requests, NEW k \in Keys, NEW row \in Row, Commits(r, k, row)
      PROVE  Argument(x)'
  <2>1. CASE x = r
    BY <1>4, <2>1 DEF Commits, Ends, Argument
  <2>2. CASE x # r
    <3>1. Steady(x)
      BY <1>4, <2>2 DEF Commits
    <3>2. ASSUME NEW j \in Keys, NEW kind \in {"device", "alert", "user"}, table[j].kind = kind
          PROVE  table'[j].kind = kind
      BY <1>4, <3>2, KindKept DEF Missing
    <3>3. ASSUME NEW id, NEW kind \in {"device", "alert", "user"}, Refers(id, x, kind)
          PROVE  id \in Keys /\ (id = x \/ table'[id].kind = kind)
      BY <3>2, <3>3 DEF Refers
    <3> QED BY <1>1, <3>1, <3>3 DEF Steady, Argument, ArgumentOf, Refers
  <2> QED BY <2>1, <2>2
<1> QED BY <1>2, <1>3, <1>4 DEF Step

\* A timeline with an entry of r added.
LEMMA AppendedEntries ==
  ASSUME NEW s \in Seq(Requests), NEW r \in Requests
  PROVE  /\ \A i \in DOMAIN Append(s, r) : Append(s, r)[i] = r \/ \E j \in DOMAIN s : s[j] = Append(s, r)[i]
         /\ \A j \in DOMAIN s : \E i \in DOMAIN Append(s, r) : Append(s, r)[i] = s[j]
         /\ \E i \in DOMAIN Append(s, r) : Append(s, r)[i] = r
<1>1. /\ DOMAIN s = 1..Len(s) /\ DOMAIN Append(s, r) = 1..(Len(s) + 1) /\ Len(s) \in Nat
      /\ \A i \in 1..Len(s) : Append(s, r)[i] = s[i]
      /\ Append(s, r)[Len(s) + 1] = r
  OBVIOUS
<1> QED BY <1>1

\* A commit adds no mark but its own request's, and an assignee's.
LEMMA MarksWritten ==
  ASSUME Base, NEW r \in Requests, NEW k \in Keys, NEW row \in Row, Commits(r, k, row),
         NEW q \in Requests, q # r, Marks(q, row)
  PROVE  Marks(q, table[k]) \/ Marks(q, req[r].loaded) \/ table[q].kind = "user"
<1> DEFINE was == req[r].loaded
           old == table[k]
<1>1. q # Null
  BY RecordsAssumption
<1>2. was \in Row /\ old \in Row
  BY DEF Base, Shape, Request
<1>3. CASE Inserts(r, row)
  BY <1>1, <1>3 DEF Inserts, Marks
<1>4. CASE row = Missing
  BY <1>4 DEF Marks, Missing
<1>5. CASE Operates(r, old, row)
  BY <1>5 DEF Operates, Marks
<1>6. CASE Updates(r, was, old, row)
  <2>1. old.kind = was.kind /\ row.kind = was.kind
    BY <1>6 DEF Updates
  <2>2. CASE row.kind = "case"
    <3>1. WritesCase(r, was, old, row) /\ was \in CaseRow
      BY <1>2, <1>6, <2>1, <2>2, RowKinds DEF Updates
    <3>2. was.timeline \in Seq(Requests)
      BY <3>1 DEF CaseRow
    <3>3. CASE row.closed_at = q \/ row.assignee = q
      BY <2>1, <2>2, <3>1, <3>3 DEF WritesCase, Marks, Put
    <3>4. CASE \E i \in DOMAIN row.timeline : row.timeline[i] = q
      <4>1. CASE row.timeline = old.timeline
        BY <2>1, <2>2, <3>4, <4>1 DEF Marks
      <4>2. CASE row.timeline = Append(was.timeline, r)
        <5> DEFINE s == was.timeline
        <5>1. PICK i \in DOMAIN Append(s, r) : Append(s, r)[i] = q
          BY <3>4, <4>2
        <5>2. s \in Seq(Requests)
          BY <3>2
        <5> HIDE DEF s
        <5>3. \E j \in DOMAIN s : s[j] = q
          BY <5>1, <5>2, AppendedEntries
        <5> QED BY <2>1, <2>2, <5>3 DEF Marks, s
      <4> QED BY <3>1, <4>1, <4>2 DEF WritesCase
    <3> QED BY <2>2, <3>3, <3>4 DEF Marks
  <2>3. CASE row.kind = "alert"
    BY <1>6, <2>1, <2>3 DEF Updates, WritesAlert, Marks
  <2>4. CASE row.kind = "device"
    BY <1>6, <2>1, <2>4 DEF Updates, WritesDevice, Marks
  <2> QED BY <2>2, <2>3, <2>4 DEF Marks
<1> QED BY <1>3, <1>4, <1>5, <1>6, WrittenRow

\* A request that may still commit, or failed, is nowhere.
LEMMA UntouchedKept ==
  ASSUME Base, Step, NEW q \in Requests
  PROVE  Untouched(q)'
<1>1. Untouched(q)
  BY DEF Base
<1>2. CASE table' = table /\ req' = req
  BY <1>1, <1>2 DEF Untouched, Fresh, Marks, Loading, Running
<1>3. ASSUME NEW r \in Requests, Begins(r), Fresh(q)'
      PROVE  Untouched(q)'
  <2>1. Fresh(q) /\ table' = table
    BY <1>3 DEF Fresh, Begins, Rest
  <2>2. ASSUME NEW x \in Requests
        PROVE  /\ ~Marks(q, req'[x].loaded)
               /\ (Loading(x)' \/ Running(x, "operator")') => req'[x].key # q
    <3>1. CASE x # r
      BY <1>1, <1>3, <2>1, <3>1 DEF Begins, Rest, Untouched, Loading, Running
    <3>2. CASE x = r
      <4>1. Shape' /\ req'[r].key \in Keys
        BY DEF Step, Shape, Request
      <4>2. \/ req'[r].loaded = req[r].loaded
            \/ req'[r].loaded = table[req'[r].key]
        BY <1>3 DEF Begins
      <4>3. ~Marks(q, req'[r].loaded)
        BY <1>1, <2>1, <4>1, <4>2 DEF Untouched
      <4>4. (Loading(r)' \/ Running(r, "operator")') => table[req'[r].key].kind # "none"
        BY <1>3, LoadedKinds DEF Begins, Loading, Running
      <4>5. table[q] = Missing
        BY <1>1, <2>1 DEF Untouched
      <4> QED BY <3>2, <4>3, <4>4, <4>5 DEF Missing
    <3> QED BY <3>1, <3>2
  <2> QED BY <1>1, <2>1, <2>2 DEF Untouched
<1>4. ASSUME NEW r \in Requests, Answers(r) \/ Looks(r), Fresh(q)'
      PROVE  Untouched(q)'
  <2>1. Fresh(q) /\ table' = table
    BY <1>4 DEF Fresh, Answers, Looks, Rest
  <2>2. ASSUME NEW x \in Requests
        PROVE  /\ ~Marks(q, req'[x].loaded)
               /\ (Loading(x)' \/ Running(x, "operator")') => req'[x].key # q
    <3>1. CASE x # r
      BY <1>1, <1>4, <2>1, <3>1 DEF Answers, Looks, Rest, Untouched, Loading, Running
    <3>2. CASE x = r
      BY <1>1, <1>4, <2>1, <3>2
         DEF Answers, Looks, Ends, Untouched, Loading, Running, Marks, Missing
    <3> QED BY <3>1, <3>2
  <2> QED BY <1>1, <2>1, <2>2 DEF Untouched
<1>5. ASSUME NEW r \in Requests, NEW k \in Keys, NEW row \in Row, Commits(r, k, row), Fresh(q)'
      PROVE  Untouched(q)'
  <2>1. q # r
    BY <1>5 DEF Commits, Ends, Fresh, Errors
  <2>2. Fresh(q)
    BY <1>5, <2>1 DEF Commits, Steady, Fresh
  <2>3. k # q
    BY <1>1, <1>5, <2>1, <2>2, WrittenRow DEF Untouched, Updates
  <2>4. table'[q] = Missing /\ \A j \in Keys : ~Marks(q, table'[j])
    <3>1. q \in Keys /\ table'[q] = table[q]
      BY <1>5, <2>3 DEF Commits, Keys
    <3>2. ~Marks(q, row)
      BY <1>1, <1>5, <2>1, <2>2, MarksWritten DEF Untouched, Missing
    <3> QED BY <1>1, <1>5, <2>2, <3>1, <3>2 DEF Untouched, Commits
  <2>5. ASSUME NEW x \in Requests
        PROVE  /\ ~Marks(q, req'[x].loaded)
               /\ (Loading(x)' \/ Running(x, "operator")') => req'[x].key # q
    <3>1. CASE x # r
      BY <1>1, <1>5, <2>2, <3>1 DEF Commits, Steady, Untouched, Loading, Running
    <3>2. CASE x = r
      BY <1>5, <3>2 DEF Commits, Ends, Loading, Running, Marks, Missing
    <3> QED BY <3>1, <3>2
  <2> QED BY <2>4, <2>5 DEF Untouched
<1>6. CASE ~Fresh(q)'
  BY <1>6 DEF Untouched
<1> QED BY <1>2, <1>3, <1>4, <1>5, <1>6 DEF Step

\* All of Base.
LEMMA BaseKept ==
  ASSUME Base, Step
  PROVE  Base'
BY SessionKept, HeldKept, ArgumentKept, UntouchedKept DEF Base, Step

-----------------------------------------------------------------------------
(* The steps preserve the rest of the invariant.                            *)

\* A request that has begun keeps its question, one that is done everything.
LEMMA AskedKept ==
  ASSUME Base, Step, NEW x \in Requests, req[x].pc # "new"
  PROVE  /\ req'[x].pc # "new" /\ req'[x].op = req[x].op /\ req'[x].key = req[x].key
         /\ req'[x].arg = req[x].arg /\ req[x].missed \subseteq req'[x].missed
         /\ req[x].pc = "done" => req'[x].pc = "done" /\ req'[x].answer = req[x].answer
<1>1. CASE req' = req
  BY <1>1
<1>2. ASSUME NEW r \in Requests, Begins(r) \/ Answers(r) \/ Looks(r)
      PROVE  /\ req'[x].pc # "new" /\ req'[x].op = req[x].op /\ req'[x].key = req[x].key
             /\ req'[x].arg = req[x].arg /\ req[x].missed \subseteq req'[x].missed
             /\ req[x].pc = "done" => req'[x].pc = "done" /\ req'[x].answer = req[x].answer
  BY <1>2 DEF Begins, Answers, Looks, Rest, Ends
<1>3. ASSUME NEW r \in Requests, NEW k \in Keys, NEW row \in Row, Commits(r, k, row)
      PROVE  /\ req'[x].pc # "new" /\ req'[x].op = req[x].op /\ req'[x].key = req[x].key
             /\ req'[x].arg = req[x].arg /\ req[x].missed \subseteq req'[x].missed
             /\ req[x].pc = "done" => req'[x].pc = "done" /\ req'[x].answer = req[x].answer
  BY <1>3 DEF Commits, Steady, Ends
<1> QED BY <1>1, <1>2, <1>3 DEF Step

\* A reason stays one.
LEMMA ReasonKept ==
  ASSUME Base, Step, NEW r \in Requests, req[r].pc # "new", Reason(r)
  PROVE  Reason(r)'
<1>1. /\ req'[r].op = req[r].op /\ req'[r].arg = req[r].arg
      /\ req[r].missed \subseteq req'[r].missed /\ server' = server
  BY AskedKept DEF Step
<1>2. ASSUME NEW x \in Requests, Done(x, "create_policy") \/ Done(x, "update_policy")
      PROVE  (Done(x, "create_policy") \/ Done(x, "update_policy"))' /\ req'[x].arg = req[x].arg
  BY <1>2, AskedKept DEF Done
<1> QED BY <1>1, <1>2 DEF Reason, References

\* Why requests fail.
LEMMA FailuresKept ==
  ASSUME Base, FailuresExplained, Step
  PROVE  FailuresExplained'
<1> SUFFICES ASSUME NEW x \in Requests, req'[x].answer = "500"
             PROVE  Reason(x)'
  BY DEF FailuresExplained, Reason
<1>1. Session(x)
  BY DEF Base
<1>2. CASE req[x].answer = "500"
  <2>1. Reason(x) /\ req[x].pc # "new"
    BY <1>1, <1>2 DEF FailuresExplained, Reason, Session
  <2> QED BY <2>1, ReasonKept
<1>3. CASE req[x].answer # "500"
  <2>1. PICK r \in Requests :
          Begins(r) \/ Answers(r) \/ Looks(r) \/ \E k \in Keys, row \in Row : Commits(r, k, row)
    BY <1>3 DEF Step
  <2>2. x = r /\ Answers(r)
    BY <1>3, <2>1 DEF Begins, Answers, Looks, Commits, Rest, Steady, Ends
  <2>3. Reason(x) /\ req[x].pc # "new"
    BY <2>2 DEF Answers, Ends
  <2> QED BY <2>3, ReasonKept
<1> QED BY <1>2, <1>3

\* x has given a policy its name.
Naming(x) == Done(x, "create_policy") \/ Done(x, "update_policy")

\* The names in use.
LEMMA NamedKept ==
  ASSUME Base, Named, Step
  PROVE  Named'
<1>1. ASSUME NEW x \in Requests, Naming(x)
      PROVE  Naming(x)' /\ req'[x].arg = req[x].arg
  BY <1>1, AskedKept DEF Naming, Done
<1>2. ASSUME NEW k \in Keys, table[k].kind = "policy"
      PROVE  table[k].name = OldName \/ \E x \in Requests : Naming(x)' /\ req'[x].arg = table[k].name
  BY <1>1, <1>2 DEF Named, Naming, Rows
<1>3. ASSUME NEW k \in Keys, table'[k].kind = "policy"
      PROVE  table'[k].name = OldName \/ \E x \in Requests : Naming(x)' /\ req'[x].arg = table'[k].name
  <2>1. CASE table'[k] = table[k]
    BY <1>2, <1>3, <2>1
  <2>2. CASE table'[k] # table[k]
    <3>1. PICK r \in Requests, row \in Row : Commits(r, k, row)
      BY <2>2 DEF Step, Begins, Answers, Looks, Commits
    <3>2. table'[k] = row /\ Ends(r, {"ok", "none"})
      BY <3>1 DEF Commits
    <3>3. CASE Inserts(r, row)
      BY <1>3, <3>2, <3>3 DEF Inserts, Ends, Naming, Done
    <3>4. CASE Updates(r, req[r].loaded, table[k], row)
      <4>1. table[k].kind = "policy" /\ WritesPolicy(r, req[r].loaded, table[k], row)
        BY <1>3, <3>2, <3>4 DEF Updates
      <4>2. CASE row.name = req[r].arg
        BY <3>2, <4>1, <4>2 DEF WritesPolicy, Ends, Naming, Done
      <4>3. CASE row.name = table[k].name
        BY <1>2, <3>2, <4>1, <4>3
      <4> QED BY <4>1, <4>2, <4>3 DEF WritesPolicy, Put
    <3>5. CASE row = Missing \/ Operates(r, table[k], row)
      BY <1>3, <3>2, <3>5 DEF Missing, Operates
    <3> QED BY <3>1, <3>3, <3>4, <3>5, WrittenRow
  <2> QED BY <2>1, <2>2
<1>4. ASSUME NEW x \in Requests, Running(x, "create_user")'
      PROVE  ~Registered(req[x].arg)' \/ req'[x].missed # {}
  <2>1. CASE table' = table /\ req'[x] = req[x]
    BY <1>4, <2>1 DEF Named, Running, Registered, Rows
  <2>2. ASSUME NEW r \in Requests, Begins(r), x = r
        PROVE  ~Registered(req[x].arg)'
    BY <1>4, <2>2 DEF Begins, Running, Registered, Rows
  <2>3. ASSUME NEW r \in Requests, Answers(r) \/ Looks(r), x = r
        PROVE  FALSE
    BY <1>4, <2>3 DEF Answers, Looks, Ends, Running, Reads, LocalReads
  <2>4. ASSUME NEW r \in Requests, NEW k \in Keys, NEW row \in Row, Commits(r, k, row)
        PROVE  req'[x].missed # {}
    <3>1. x # r
      BY <1>4, <2>4 DEF Commits, Ends, Running
    <3>2. req[x].pc = "open" /\ req[x].op = "create_user"
      BY <1>4, <2>4, <3>1 DEF Commits, Steady, Running
    <3>3. Passes(x, r, k)
      BY <3>2, LoadedKinds DEF Passes
    <3> QED BY <2>4, <3>1, <3>3 DEF Commits
  <2> QED BY <2>1, <2>2, <2>3, <2>4 DEF Step, Begins, Answers, Looks, Rest
<1> QED BY <1>3, <1>4 DEF Named, Naming, Rows

\* A request that closed, or will close, a case has begun.
LEMMA ClosedKept ==
  ASSUME Base, Step, NEW y \in Requests, req[y].op = "close_investigation"
  PROVE  req'[y].op = "close_investigation" /\ req'[y].key = req[y].key
<1>1. req[y].pc # "new"
  BY DEF Base, Session
<1> QED BY <1>1, AskedKept

\* What changes a case.
LEMMA CaseWritten ==
  ASSUME Base, Step, NEW k \in Keys, table[k].kind = "case", table'[k] # table[k]
  PROVE  \E r \in Requests :
           /\ Commits(r, k, table'[k]) /\ Loading(r) /\ req[r].key = k
           /\ req[r].loaded.kind = "case" /\ table'[k].kind = "case"
           /\ WritesCase(r, req[r].loaded, table[k], table'[k])
<1>1. PICK r \in Requests, row \in Row : Commits(r, k, row)
  BY DEF Step, Begins, Answers, Looks, Commits
<1>2. table'[k] = row
  BY <1>1 DEF Commits
<1>3. k = req[r].key /\ Updates(r, req[r].loaded, table[k], row)
  BY <1>1, WrittenRow DEF Missing, Operates
<1> QED BY <1>1, <1>2, <1>3 DEF Updates

\* What a session knows of the findings.
LEMMA FindingsKnownKept ==
  ASSUME Base, FindingsKnown, Step
  PROVE  FindingsKnown'
<1> SUFFICES ASSUME NEW x \in Requests, Loading(x)', req'[x].loaded.kind = "case"
             PROVE  \/ req'[x].loaded.findings = table'[req'[x].key].findings
                    \/ \E y \in req'[x].missed :
                         req'[y].op = "close_investigation" /\ req'[y].key = req'[x].key
  BY DEF FindingsKnown, ClosedBy
<1>1. CASE \E r \in Requests : x = r /\ Begins(r)
  BY <1>1 DEF Begins, Loading
<1>2. CASE ~\E r \in Requests : x = r /\ Begins(r)
  <2>1. /\ req'[x].pc = req[x].pc /\ req'[x].op = req[x].op /\ req'[x].key = req[x].key
        /\ req'[x].loaded = req[x].loaded /\ req[x].missed \subseteq req'[x].missed
    BY <1>2 DEF Step, Begins, Answers, Looks, Commits, Rest, Ends, Steady, Loading
  <2> DEFINE k == req[x].key
  <2>2. Loading(x) /\ req[x].loaded.kind = "case" /\ k \in Keys /\ req[x].missed \subseteq Requests
    BY <2>1 DEF Loading, Base, Shape, Request
  <2>3. table[k].kind = "case"
    BY <2>2 DEF Base, Held
  <2>4. CASE req[x].loaded.findings # table[k].findings
    <3>1. PICK y \in req[x].missed : ClosedBy(y, k)
      BY <2>2, <2>4 DEF FindingsKnown
    <3>2. req'[y].op = "close_investigation" /\ req'[y].key = k
      BY <2>2, <3>1, ClosedKept DEF ClosedBy
    <3> QED BY <2>1, <3>1, <3>2
  <2>5. CASE req[x].loaded.findings = table[k].findings /\ table'[k] # table[k]
    <3>1. PICK r \in Requests :
            /\ Commits(r, k, table'[k]) /\ Loading(r) /\ req[r].key = k
            /\ WritesCase(r, req[r].loaded, table[k], table'[k])
      BY <2>2, <2>3, <2>5, CaseWritten
    <3>2. CASE table'[k].findings = table[k].findings
      BY <2>1, <2>5, <3>2
    <3>3. CASE table'[k].findings # table[k].findings
      <4>1. req[r].op = "close_investigation"
        BY <3>1, <3>3 DEF WritesCase
      <4>2. req'[r].op = "close_investigation" /\ req'[r].key = k
        BY <3>1, <4>1, ClosedKept
      <4>3. x # r
        BY <3>1 DEF Commits, Ends, Loading
      <4>4. r \in req'[x].missed
        BY <2>2, <3>1, <4>3 DEF Commits, Passes, Loading
      <4> QED BY <2>1, <4>2, <4>4
    <3> QED BY <3>2, <3>3
  <2>6. CASE req[x].loaded.findings = table[k].findings /\ table'[k] = table[k]
    BY <2>1, <2>6
  <2> QED BY <2>4, <2>5, <2>6
<1> QED BY <1>1, <1>2

\* What a closed case says it found.
LEMMA FindingsKept ==
  ASSUME Base, FindingsKnown, FindingsAgree, Step
  PROVE  FindingsAgree'
<1> DEFINE Agree(k, c, findings) ==
      \/ findings = req'[c].arg
      \/ \E x \in req'[c].missed : req'[x].op = "close_investigation" /\ req'[x].key = k
<1> SUFFICES ASSUME NEW k \in Keys, table'[k].kind = "case", table'[k].closed_at # Null
             PROVE  Agree(k, table'[k].closed_at, table'[k].findings)
  BY DEF FindingsAgree, Rows
<1>1. ASSUME table[k].kind = "case", table[k].closed_at # Null
      PROVE  Agree(k, table[k].closed_at, table[k].findings)
  <2> DEFINE c == table[k].closed_at
  <2>1. c \in Requests
    <3>1. table[k] \in CaseRow
      BY <1>1, RowKinds DEF Base, Shape
    <3> QED BY <1>1, <3>1 DEF CaseRow, Writer
  <2>2. Marks(c, table[k])
    BY <1>1 DEF Marks
  <2>3. req[c].pc = "done" /\ req[c].missed \subseteq Requests
    BY <2>1, <2>2 DEF Base, Untouched, Fresh, Shape, Request
  <2>4. req'[c].arg = req[c].arg /\ req[c].missed \subseteq req'[c].missed
    BY <2>1, <2>3, AskedKept
  <2>5. \/ table[k].findings = req[c].arg
        \/ \E x \in req[c].missed : req[x].op = "close_investigation" /\ req[x].key = k
    BY <1>1 DEF FindingsAgree, Rows
  <2>6. CASE table[k].findings = req[c].arg
    BY <2>4, <2>6
  <2>7. CASE \E x \in req[c].missed : req[x].op = "close_investigation" /\ req[x].key = k
    <3>1. PICK x \in req[c].missed : req[x].op = "close_investigation" /\ req[x].key = k
      BY <2>7
    <3>2. req'[x].op = "close_investigation" /\ req'[x].key = k
      BY <2>3, <3>1, ClosedKept
    <3> QED BY <2>4, <3>1, <3>2
  <2> QED BY <2>5, <2>6, <2>7
<1>2. CASE table'[k] = table[k]
  BY <1>1, <1>2
<1>3. CASE table'[k] # table[k] /\ table[k].kind # "case"
  <2>1. PICK r \in Requests, row \in Row : Commits(r, k, row)
    BY <1>3 DEF Step, Begins, Answers, Looks, Commits
  <2>2. table'[k] = row
    BY <2>1 DEF Commits
  <2> QED BY <1>3, <2>1, <2>2, WrittenRow DEF Inserts, Updates, Operates, Missing
<1>4. CASE table'[k] # table[k] /\ table[k].kind = "case"
  <2>1. PICK r \in Requests :
          /\ Commits(r, k, table'[k]) /\ Loading(r) /\ req[r].key = k
          /\ req[r].loaded.kind = "case"
          /\ WritesCase(r, req[r].loaded, table[k], table'[k])
    BY <1>4, CaseWritten
  <2>2. CASE req[r].op # "close_investigation"
    <3>1. table'[k].findings = table[k].findings /\ table'[k].closed_at = table[k].closed_at
      BY <2>1, <2>2 DEF WritesCase
    <3> QED BY <1>1, <1>4, <3>1
  <2>3. CASE req[r].op = "close_investigation"
    <3>1. /\ table'[k].closed_at = r
          /\ table'[k].findings = Put(req[r].arg, req[r].loaded.findings, table[k].findings)
      BY <2>1, <2>3 DEF WritesCase
    <3>2. req'[r].arg = req[r].arg /\ req'[r].missed = req[r].missed
      BY <2>1 DEF Commits, Ends
    <3>3. CASE table'[k].findings = req[r].arg
      BY <3>1, <3>2, <3>3
    <3>4. CASE table'[k].findings # req[r].arg
      <4>1. req[r].loaded.findings # table[k].findings
        BY <3>1, <3>4 DEF Put
      <4>2. PICK y \in req[r].missed : ClosedBy(y, k)
        BY <2>1, <4>1 DEF FindingsKnown
      <4>3. y \in Requests
        BY <4>2 DEF Base, Shape, Request
      <4>4. req'[y].op = "close_investigation" /\ req'[y].key = k
        BY <4>2, <4>3, ClosedKept DEF ClosedBy
      <4> QED BY <3>1, <3>2, <4>2, <4>4
    <3> QED BY <3>3, <3>4
  <2> QED BY <2>2, <2>3
<1> QED BY <1>2, <1>3, <1>4

\* What a writer of a timeline writes holds its own entry and those it loaded.
LEMMA StoredWritten ==
  ASSUME Base, NEW r \in Requests, NEW k \in Keys, NEW row \in Row, Commits(r, k, row),
         Loading(r), req[r].loaded.kind = "case", WritesCase(r, req[r].loaded, table[k], row)
  PROVE  IF req[r].op \in TimelineWriters
         THEN Stored(r, row) /\ \A q \in Requests : Stored(q, req[r].loaded) => Stored(q, row)
         ELSE row.timeline = table[k].timeline
<1> DEFINE s == req[r].loaded.timeline
<1>1. s \in Seq(Requests)
  BY RowKinds DEF Base, Shape, Request, CaseRow
<1>2. CASE req[r].op \in TimelineWriters
  <2>1. row.timeline = Append(s, r)
    BY <1>2 DEF WritesCase, TimelineWriters
  <2>2. /\ \E i \in DOMAIN Append(s, r) : Append(s, r)[i] = r
        /\ \A j \in DOMAIN s : \E i \in DOMAIN Append(s, r) : Append(s, r)[i] = s[j]
    <3> HIDE DEF s
    <3> QED BY <1>1, AppendedEntries
  <2>3. /\ \E i \in DOMAIN row.timeline : row.timeline[i] = r
        /\ \A j \in DOMAIN s : \E i \in DOMAIN row.timeline : row.timeline[i] = s[j]
    BY <2>1, <2>2, Zenon
  <2> QED BY <1>2, <2>3 DEF Stored
<1>3. CASE req[r].op \notin TimelineWriters
  BY <1>3 DEF WritesCase, TimelineWriters
<1> QED BY <1>2, <1>3

\* Entries of timelines.
LEMMA KeptKept ==
  ASSUME Base, NEW r \in Requests, Kept(r), Step
  PROVE  Kept(r)'
<1> SUFFICES ASSUME req'[r].answer = "ok", req'[r].op \in TimelineWriters
             PROVE  /\ table'[req'[r].key].kind = "case"
                    /\ \/ Lost(r)'
                       \/ /\ Stored(r, table'[req'[r].key])
                          /\ \A x \in Requests :
                               /\ Loading(x)' /\ req'[x].op \in TimelineWriters
                               /\ req'[x].key = req'[r].key
                               => Stored(r, req'[x].loaded) \/ r \in req'[x].missed
  BY DEF Kept, Stored
<1> DEFINE k == req[r].key
<1>1. Session(r) /\ k \in Keys /\ "ok" # "none"
  BY DEF Base, Shape, Request
<1>2. CASE req[r].answer = "ok"
  <2>1. /\ req[r].pc = "done" /\ req'[r].key = k /\ req'[r].op = req[r].op
        /\ req[r].op \in TimelineWriters
    BY <1>1, <1>2, AskedKept DEF Session
  <2>2. /\ table[k].kind = "case"
        /\ \/ Lost(r)
           \/ /\ Stored(r, table[k])
              /\ \A x \in Requests :
                   (Loading(x) /\ req[x].op \in TimelineWriters /\ req[x].key = k) =>
                     Stored(r, req[x].loaded) \/ r \in req[x].missed
    BY <1>2, <2>1 DEF Kept
  <2>3. table'[k].kind = "case"
    BY <1>1, <2>2, CaseWritten
  <2>4. CASE Lost(r)
    <3>1. PICK x \in Requests : /\ req[x].pc = "done" /\ req[x].op \in TimelineWriters
                                /\ req[x].key = k /\ r \in req[x].missed
      BY <2>4 DEF Lost
    <3>2. Lost(r)'
      BY <2>1, <3>1, AskedKept DEF Lost
    <3> QED BY <2>1, <2>3, <3>2
  <2>5. CASE ~Lost(r) /\ ~Lost(r)'
    <3>1. Stored(r, table[k])
      BY <2>2, <2>5
    <3>2. Stored(r, table'[k])
      <4>1. CASE table'[k] = table[k]
        BY <3>1, <4>1
      <4>2. CASE table'[k] # table[k]
        <5>1. PICK c \in Requests :
                /\ Commits(c, k, table'[k]) /\ Loading(c) /\ req[c].key = k
                /\ req[c].loaded.kind = "case"
                /\ WritesCase(c, req[c].loaded, table[k], table'[k])
          BY <1>1, <2>2, <4>2, CaseWritten
        <5>2. table'[k] \in Row
          BY <1>1 DEF Step, Shape
        <5>3. CASE req[c].op \notin TimelineWriters
          BY <1>1, <3>1, <5>1, <5>2, <5>3, StoredWritten DEF Stored
        <5>4. CASE req[c].op \in TimelineWriters /\ Stored(r, req[c].loaded)
          BY <1>1, <5>1, <5>2, <5>4, StoredWritten
        <5>5. CASE req[c].op \in TimelineWriters /\ r \in req[c].missed
          <6>1. /\ req'[c].pc = "done" /\ req'[c].op = req[c].op /\ req'[c].key = k
                /\ r \in req'[c].missed
            BY <5>1, <5>5 DEF Commits, Ends
          <6>2. Lost(r)'
            BY <2>1, <5>5, <6>1 DEF Lost
          <6> QED BY <2>5, <6>2
        <5> QED BY <2>2, <2>5, <5>1, <5>3, <5>4, <5>5
      <4> QED BY <4>1, <4>2
    <3>3. ASSUME NEW x \in Requests, Loading(x)', req'[x].op \in TimelineWriters, req'[x].key = k
          PROVE  Stored(r, req'[x].loaded) \/ r \in req'[x].missed
      <4>1. CASE \E c \in Requests : x = c /\ Begins(c)
        <5>1. req'[x].loaded = table[k]
          BY <3>3, <4>1 DEF Begins, Loading
        <5> QED BY <3>1, <5>1
      <4>2. CASE ~\E c \in Requests : x = c /\ Begins(c)
        <5>1. /\ req'[x].pc = req[x].pc /\ req'[x].op = req[x].op /\ req'[x].key = req[x].key
              /\ req'[x].loaded = req[x].loaded /\ req[x].missed \subseteq req'[x].missed
          BY <3>3, <4>2 DEF Step, Begins, Answers, Looks, Commits, Rest, Ends, Steady, Loading
        <5> QED BY <2>2, <2>5, <3>3, <5>1 DEF Loading
      <4> QED BY <4>1, <4>2
    <3> QED BY <2>1, <2>3, <3>2, <3>3
  <2> QED BY <2>1, <2>3, <2>4, <2>5
<1>3. CASE req[r].answer # "ok"
  <2>1. PICK j \in Keys, row \in Row : Commits(r, j, row)
    <3>1. PICK c \in Requests :
            Begins(c) \/ Answers(c) \/ Looks(c) \/ \E j \in Keys, row \in Row : Commits(c, j, row)
      BY <1>3 DEF Step
    <3>2. c = r
      BY <1>3, <3>1 DEF Begins, Answers, Looks, Commits, Rest, Steady
    <3>3. ~Begins(r) /\ ~Answers(r) /\ ~Looks(r)
      BY <1>1, <1>3 DEF Begins, Answers, Looks, Ends, Session
    <3> QED BY <3>1, <3>2, <3>3
  <2>2. req[r].op \in TimelineWriters /\ req'[r].op = req[r].op /\ req'[r].key = k
    BY <2>1 DEF Commits, Ends
  <2>3. req[r].op \in DOMAIN Loads /\ Loads[req[r].op] = "case"
    BY <2>2, LoadedKinds DEF TimelineWriters
  <2>4. Loading(r) /\ req[r].loaded.kind = "case"
    BY <1>1, <2>1, <2>3 DEF Commits, Loading, Session
  <2>5. j = k /\ row.kind = "case" /\ WritesCase(r, req[r].loaded, table[k], row)
    BY <2>1, <2>2, <2>3, <2>4, WrittenRow
       DEF Inserts, Updates, Running, Operates, TimelineWriters
  <2>6. Stored(r, row) /\ table'[k] = row
    BY <2>1, <2>2, <2>4, <2>5, StoredWritten DEF Commits
  <2>7. ASSUME NEW x \in Requests, Loading(x)', req'[x].op \in TimelineWriters, req'[x].key = k
        PROVE  r \in req'[x].missed
    <3>1. x # r
      BY <2>1, <2>7 DEF Commits, Ends, Loading
    <3>2. Passes(x, r, k)
      BY <2>1, <2>7, <3>1 DEF Commits, Steady, Passes, Loading
    <3> QED BY <2>1, <2>5, <3>1, <3>2 DEF Commits
  <2> QED BY <2>2, <2>5, <2>6, <2>7
<1> QED BY <1>2, <1>3

-----------------------------------------------------------------------------
(* The beginning.                                                           *)

\* The rows that were there before.
LEMMA RestoredRows ==
  ASSUME NEW k \in Keys
  PROVE  /\ Restored[k] \in {NewCase(<<>>), NewAlert(OldDevice, "critical"), NewDevice(Null, TRUE),
                             NewPolicy(OldName), NewAction(OldDevice), NewUser(OldName), Missing}
         /\ k \in Requests => Restored[k] = Missing
<1>1. Restored[k] =
        CASE k = OldCase   -> NewCase(<<>>)
          [] k = OldAlert  -> NewAlert(OldDevice, "critical")
          [] k = OldDevice -> NewDevice(Null, TRUE)
          [] k = OldPolicy -> NewPolicy(OldName)
          [] k = OldAction -> NewAction(OldDevice)
          [] k = OldUser   -> NewUser(OldName)
          [] OTHER -> Missing
  BY DEF Restored
<1>2. CASE k \in Old
  <2>1. Restored[k] \in {NewCase(<<>>), NewAlert(OldDevice, "critical"), NewDevice(Null, TRUE),
                         NewPolicy(OldName), NewAction(OldDevice), NewUser(OldName), Missing}
    BY <1>1, <1>2, Zenon DEF Old
  <2> QED BY <1>2, <2>1, RecordsAssumption
<1>3. CASE k \notin Old
  <2>1. Restored[k] = Missing
    BY <1>1, <1>3, Zenon DEF Old
  <2> QED BY <2>1
<1> QED BY <1>2, <1>3

\* They are rows, without marks, and the one policy has its name.
LEMMA InitialTable ==
  ASSUME Init, NEW k \in Keys
  PROVE  /\ table[k] \in Row
         /\ k \in Requests => table[k] = Missing
         /\ \A q \in Requests : ~Marks(q, table[k])
         /\ table[k].kind = "policy" => table[k].name = OldName
         /\ table[k].kind = "case" => table[k].closed_at = Null
<1>1. /\ table[k] \in {NewCase(<<>>), NewAlert(OldDevice, "critical"), NewDevice(Null, TRUE),
                       NewPolicy(OldName), NewAction(OldDevice), NewUser(OldName), Missing}
      /\ k \in Requests => table[k] = Missing
  <2>1. table[k] = Restored[k] \/ table[k] = Missing
    BY DEF Init, SeedData, Restored
  <2> QED BY <2>1, RestoredRows
<1>2. OldDevice \in Keys /\ Null \in Writer /\ OldName \in Names
  BY RecordsAssumption DEF Keys, Old, Writer
<1>3. table[k] \in Row
  <2>1. NewCase(<<>>) \in CaseRow
    BY <1>2 DEF NewCase, CaseRow
  <2>2. NewAlert(OldDevice, "critical") \in AlertRow
    BY <1>2 DEF NewAlert, AlertRow
  <2>3. NewDevice(Null, TRUE) \in DeviceRow
    BY <1>2 DEF NewDevice, DeviceRow
  <2>4. NewPolicy(OldName) \in PolicyRow /\ NewAction(OldDevice) \in ActionRow
        /\ NewUser(OldName) \in UserRow
    BY <1>2 DEF NewPolicy, PolicyRow, NewAction, ActionRow, NewUser, UserRow
  <2> QED BY <1>1, <2>1, <2>2, <2>3, <2>4 DEF Row
<1>4. \A q \in Requests : ~Marks(q, table[k])
  BY <1>1, RecordsAssumption DEF Marks, NewCase, NewAlert, NewDevice, NewPolicy, NewAction, NewUser, Missing
<1>5. /\ table[k].kind = "policy" => table[k].name = OldName
      /\ table[k].kind = "case" => table[k].closed_at = Null
  BY <1>1 DEF NewCase, NewAlert, NewDevice, NewPolicy, NewAction, NewUser, Missing
<1> QED BY <1>1, <1>3, <1>4, <1>5

\* The invariant holds at first.
LEMMA InitInv ==
  ASSUME Init
  PROVE  RecordsInv
<1>0. ASSUME NEW k \in Keys
      PROVE  /\ table[k] \in Row
             /\ k \in Requests => table[k] = Missing
             /\ \A q \in Requests : ~Marks(q, table[k])
             /\ table[k].kind = "policy" => table[k].name = OldName
             /\ table[k].kind = "case" => table[k].closed_at = Null
  BY InitialTable, Zenon
<1>1. table \in [Keys -> Row]
  <2>1. Restored = [k \in Keys |-> Restored[k]]
    <3> DEFINE f(k) == CASE k = OldCase   -> NewCase(<<>>)
                         [] k = OldAlert  -> NewAlert(OldDevice, "critical")
                         [] k = OldDevice -> NewDevice(Null, TRUE)
                         [] k = OldPolicy -> NewPolicy(OldName)
                         [] k = OldAction -> NewAction(OldDevice)
                         [] k = OldUser   -> NewUser(OldName)
                         [] OTHER -> Missing
    <3>1. Restored = [k \in Keys |-> f(k)]
      BY DEF Restored
    <3> HIDE DEF f
    <3> QED BY <3>1
  <2>2. table = [k \in Keys |-> table[k]]
    BY <2>1 DEF Init, SeedData
  <2> QED BY <1>0, <2>2
<1>2. ASSUME NEW x \in Requests
      PROVE  /\ req[x] \in Request /\ req[x].pc = "new" /\ req[x].op = "none"
             /\ req[x].loaded = Missing /\ req[x].missed = {} /\ req[x].seen = <<>>
             /\ req[x].answer = "none"
  <2>1. req[x] = [pc |-> "new", op |-> "none", key |-> x, arg |-> Null, loaded |-> Missing,
                  missed |-> {}, seen |-> <<>>, answer |-> "none"]
    BY DEF Init
  <2>2. /\ x \in Keys /\ Null \in Arguments /\ Missing \in Row /\ <<>> \in Seq(SUBSET Keys)
        /\ "none" \in Operations
    BY DEF Keys, Arguments, Row, Operations
  <2>3. ASSUME NEW s \in Seq(SUBSET Keys), NEW arg \in Arguments, NEW loaded \in Row
        PROVE  [pc |-> "new", op |-> "none", key |-> x, arg |-> arg, loaded |-> loaded,
                missed |-> {}, seen |-> s, answer |-> "none"] \in Request
    BY <2>2 DEF Request
  <2>4. req[x] \in Request
    BY <2>1, <2>2, <2>3
  <2> QED BY <2>1, <2>4
<1>3. req \in [Requests -> Request]
  BY <1>2 DEF Init
<1>4. ASSUME NEW x \in Requests
      PROVE  Session(x) /\ Held(x) /\ Argument(x)
  BY <1>2 DEF Session, Held, Argument, Loading, Running, Missing
<1>5. ASSUME NEW q \in Requests
      PROVE  Untouched(q)
  <2>1. q \in Keys
    BY DEF Keys
  <2>2. \A x \in Requests : ~Marks(q, req[x].loaded)
    BY <1>2 DEF Marks, Missing
  <2>3. table[q] = Missing /\ \A k \in Keys : ~Marks(q, table[k])
    BY <1>0, <2>1
  <2>4. \A x \in Requests : ~Loading(x) /\ ~Running(x, "operator")
    BY <1>2 DEF Loading, Running
  <2> QED BY <2>2, <2>3, <2>4 DEF Untouched
<1>6. Base
  BY <1>1, <1>3, <1>4, <1>5 DEF Base, Shape, Init
<1>7. Named /\ FailuresExplained /\ FindingsKnown
  BY <1>0, <1>2 DEF Named, FailuresExplained, FindingsKnown, Rows, Running, Loading
<1>8. FindingsAgree /\ \A r \in Requests : Kept(r)
  BY <1>0, <1>2 DEF FindingsAgree, Rows, Kept
<1> QED BY <1>6, <1>7, <1>8 DEF RecordsInv

\* And is kept.
LEMMA NextInv ==
  ASSUME RecordsInv, [Next]_vars
  PROVE  RecordsInv' /\ Step
<1>1. Base /\ Named /\ Step
  BY AnyStep DEF RecordsInv
<1> QED BY <1>1, BaseKept, NamedKept, FailuresKept, FindingsKnownKept, FindingsKept, KeptKept
        DEF RecordsInv

\* The invariant of every behaviour.
LEMMA Invariant == Spec => []RecordsInv
<1>1. Init => RecordsInv
  BY InitInv
<1>2. RecordsInv /\ [Next]_vars => RecordsInv'
  BY NextInv
<1> QED BY <1>1, <1>2, PTL DEF Spec

-----------------------------------------------------------------------------
(* Counts made by several statements.  While a read is open, each total it  *)
(* has is the rows of the table but for what has come since, which is in    *)
(* missed; what a part counts is then of the total.                         *)

Has(x, i) == Len(req[x].seen) >= i

\* What the i-th statement counted is of what the j-th did, or came later.
Part(x, i, j) == req[x].seen[i] \subseteq req[x].seen[j] \cup req[x].missed

Counted(x, i, rows) ==
  (req[x].pc = "open" /\ Has(x, i)) =>
    req[x].seen[i] \subseteq rows /\ rows \subseteq req[x].seen[i] \cup req[x].missed

\* Without a commit in between, what was counted is what there is.
Current(x, i, rows) ==
  (req[x].pc = "open" /\ Has(x, i) /\ req[x].missed = {}) => req[x].seen[i] = rows

ListCounts(x) ==
  req[x].op \in {"list_alerts", "list_devices"} =>
    /\ Counted(x, 1, IF req[x].op = "list_alerts" THEN Filtered(req[x].arg) ELSE Rows("device"))
    /\ Has(x, 2) => Part(x, 2, 1) /\ req[x].seen[1] \subseteq req[x].seen[2]

StatsCounts(x) ==
  req[x].op = "get_alert_stats" =>
    /\ Counted(x, 1, Rows("alert"))
    /\ \A i \in 2..8 : Has(x, i) => Part(x, i, 1)
    /\ (req[x].pc = "open" /\ Has(x, 2)) =>
         req[x].seen[1] \cap Having("alert", "severity", "critical") \subseteq req[x].seen[2]
    /\ Has(x, 6) => req[x].seen[1] \subseteq req[x].seen[2] \cup req[x].seen[6]
    /\ Current(x, 7, Having("alert", "status", "open"))
    /\ (Has(x, 8) /\ req[x].seen[7] \cap req[x].seen[8] # {}) => req[x].missed # {}

Overviews == {"get_security_posture", "prometheus_metrics", "local_metrics"}

OverviewCounts(x) ==
  req[x].op \in Overviews =>
    /\ Counted(x, 1, Rows("device"))
    /\ Has(x, 2) => Part(x, 2, 1)
    /\ Current(x, 2, Having("device", "status", "online"))
    /\ (req[x].op = "get_security_posture" /\ Has(x, 3)) =>
         (req[x].seen[2] \cap req[x].seen[3] # {} => req[x].missed # {})
    /\ req[x].op # "get_security_posture" =>
         Counted(x, 3, Rows("alert")) /\ (Has(x, 4) => Part(x, 4, 3))

Answered(x) ==
  (req[x].pc = "done" /\ req[x].op \in Reads /\ req[x].answer = "ok") => Ended(x)

CountsInv ==
  \A x \in Requests : ListCounts(x) /\ StatsCounts(x) /\ OverviewCounts(x) /\ Answered(x)

Entered(x) == req'[x].seen = <<>> /\ req'[x].pc = "open"
Stays(x) ==
  /\ req'[x].op = req[x].op /\ req'[x].arg = req[x].arg /\ req'[x].seen = req[x].seen
  /\ req[x].missed \subseteq req'[x].missed
  /\ req'[x].pc = "open" => req[x].pc = "open"
  /\ Answered(x) => Answered(x)'

\* What a step does to a request that reads: it begins, its next statement is
\* executed, or what it has seen stays.
LEMMA ReaderSteps ==
  ASSUME Base, Step, NEW x \in Requests, req'[x].op \in Reads
  PROVE  Entered(x) \/ Looks(x) \/ Stays(x)
<1>1. Session(x)
  BY DEF Base
<1>2. CASE req' = req
  BY <1>2 DEF Stays, Answered, Ended
<1>3. ASSUME NEW r \in Requests, Begins(r)
      PROVE  Entered(x) \/ Stays(x)
  <2>1. CASE x = r
    BY <1>1, <1>3, <2>1 DEF Begins, Session, Entered
  <2>2. CASE x # r
    BY <1>3, <2>2 DEF Begins, Rest, Stays, Answered, Ended
  <2> QED BY <2>1, <2>2
<1>4. ASSUME NEW r \in Requests, Answers(r)
      PROVE  Stays(x)
  <2>1. CASE x = r
    <3>1. PICK code \in Errors \cup {"none", "ok"} :
            Ends(x, {code}) /\ ((code = "ok" /\ req[x].op \in Reads) => Ended(x))
      BY <1>4, <2>1 DEF Answers
    <3>2. Answered(x)'
      BY <3>1 DEF Ends, Answered, Ended
    <3> QED BY <3>1, <3>2 DEF Ends, Stays
  <2>2. CASE x # r
    BY <1>4, <2>2 DEF Answers, Rest, Stays, Answered, Ended
  <2> QED BY <2>1, <2>2
<1>5. ASSUME NEW r \in Requests, Looks(r)
      PROVE  Looks(x) \/ Stays(x)
  BY <1>5 DEF Looks, Rest, Stays, Answered, Ended
<1>6. ASSUME NEW r \in Requests, NEW k \in Keys, NEW row \in Row, Commits(r, k, row)
      PROVE  Stays(x)
  <2>1. x # r
    <3>1. req[r].op \notin Reads
      BY <1>6, ReadsApart, LoadedKinds DEF Commits, Writes, Inserts, Updates, Loading, Operates
    <3> QED BY <1>6, <3>1, ReadsApart, LoadedKinds DEF Commits, Ends
  <2>2. Steady(x)
    BY <1>6, <2>1 DEF Commits
  <2> QED BY <2>2 DEF Steady, Stays, Answered, Ended
<1> QED BY <1>2, <1>3, <1>4, <1>5, <1>6 DEF Step

\* Alerts and devices stay, and alerts keep their severity; a request that
\* reads misses every commit.
LEMMA RowsGrow ==
  ASSUME Base, Step, NEW x \in Requests, req[x].op \in Reads, req[x].pc = "open",
         req'[x].pc = "open"
  PROVE  /\ table' = table \/ req'[x].missed # {}
         /\ \A k \in Keys :
              /\ table[k].kind \in {"alert", "device"} => table'[k].kind = table[k].kind
              /\ table[k].kind = "alert" => table'[k].severity = table[k].severity
              /\ table'[k].kind \in {"alert", "device"} =>
                   table'[k].kind = table[k].kind \/ k \in req'[x].missed
<1>1. CASE table' = table
  BY <1>1
<1>2. ASSUME NEW r \in Requests, NEW k \in Keys, NEW row \in Row, Commits(r, k, row)
      PROVE  /\ r \in req'[x].missed
             /\ \A j \in Keys :
                  /\ table[j].kind \in {"alert", "device"} => table'[j].kind = table[j].kind
                  /\ table[j].kind = "alert" => table'[j].severity = table[j].severity
                  /\ table'[j].kind \in {"alert", "device"} =>
                       table'[j].kind = table[j].kind \/ j = r
  <2>1. x # r
    BY <1>2 DEF Commits, Ends
  <2>2. r \in req'[x].missed
    BY <1>2, <2>1, ReadsApart DEF Commits, Passes
  <2>3. ASSUME NEW j \in Keys
        PROVE  /\ table[j].kind \in {"alert", "device"} => table'[j].kind = table[j].kind
               /\ table'[j].kind \in {"alert", "device"} =>
                    table'[j].kind = table[j].kind \/ j = r
    BY <1>2, KindKept DEF Missing
  <2>4. ASSUME NEW j \in Keys, table[j].kind = "alert"
        PROVE  table'[j].severity = table[j].severity
    <3>1. CASE j # k
      BY <1>2, <3>1 DEF Commits
    <3>2. CASE j = k
      <4>1. Updates(r, req[r].loaded, table[k], row) /\ table'[k] = row
        BY <1>2, <2>4, <3>2, WrittenRow DEF Operates, Missing, Commits
      <4>2. WritesAlert(r, req[r].loaded, table[k], row)
        BY <2>4, <3>2, <4>1 DEF Updates
      <4> QED BY <3>2, <4>1, <4>2 DEF WritesAlert
    <3> QED BY <3>1, <3>2
  <2> QED BY <2>2, <2>3, <2>4
<1> QED BY <1>1, <1>2 DEF Step, Begins, Answers, Looks

\* So do the sets that are counted.
LEMMA SetsGrow ==
  ASSUME Base, Step, NEW x \in Requests, req[x].op \in Reads, Stays(x), req'[x].pc = "open"
  PROVE  /\ \A kind \in {"alert", "device"} :
              /\ Rows(kind) \subseteq Rows(kind)'
              /\ Rows(kind)' \subseteq Rows(kind) \cup req'[x].missed
         /\ \A severity :
              /\ Filtered(severity) \subseteq Filtered(severity)'
              /\ Filtered(severity)' \subseteq Filtered(severity) \cup req'[x].missed
         /\ Rows("alert") \cap Having("alert", "severity", "critical")'
              \subseteq Having("alert", "severity", "critical")
         /\ req'[x].missed = {} =>
              \A kind, status : Having(kind, "status", status)' = Having(kind, "status", status)
<1>1. req[x].pc = "open"
  BY DEF Stays
<1>2. /\ table' = table \/ req'[x].missed # {}
      /\ \A k \in Keys :
           /\ table[k].kind \in {"alert", "device"} => table'[k].kind = table[k].kind
           /\ table[k].kind = "alert" => table'[k].severity = table[k].severity
           /\ table'[k].kind \in {"alert", "device"} =>
                table'[k].kind = table[k].kind \/ k \in req'[x].missed
  BY <1>1, RowsGrow
<1>3. ASSUME NEW kind \in {"alert", "device"}
      PROVE  /\ Rows(kind) \subseteq Rows(kind)'
             /\ Rows(kind)' \subseteq Rows(kind) \cup req'[x].missed
  BY <1>2 DEF Rows
<1>4. ASSUME NEW severity
      PROVE  /\ Filtered(severity) \subseteq Filtered(severity)'
             /\ Filtered(severity)' \subseteq Filtered(severity) \cup req'[x].missed
  BY <1>2 DEF Filtered, Having, Rows
<1>5. Rows("alert") \cap Having("alert", "severity", "critical")'
        \subseteq Having("alert", "severity", "critical")
  BY <1>2 DEF Having, Rows
<1>6. ASSUME req'[x].missed = {}
      PROVE  \A kind, status : Having(kind, "status", status)' = Having(kind, "status", status)
  BY <1>2, <1>6 DEF Having, Rows
<1> QED BY <1>3, <1>4, <1>5, <1>6

\* A statement that is executed.
LEMMA LooksFacts ==
  ASSUME Base, NEW x \in Requests, Looks(x)
  PROVE  LET n == Len(req[x].seen)
         IN  /\ n \in Nat /\ Len(req'[x].seen) = n + 1 /\ n + 1 =< Parts[req[x].op]
             /\ \A i \in 1..n : req'[x].seen[i] = req[x].seen[i]
             /\ req'[x].seen[n + 1] = Statements(req[x])[n + 1]
             /\ table' = table /\ req'[x].op = req[x].op /\ req'[x].arg = req[x].arg
             /\ req'[x].missed = req[x].missed /\ req'[x].pc = "open" /\ req[x].pc = "open"
<1> DEFINE s == req[x].seen
           e == Statements(req[x])[Len(s) + 1]
<1>1. /\ req'[x].seen = Append(s, e) /\ table' = table /\ req'[x].op = req[x].op
      /\ req'[x].arg = req[x].arg /\ req'[x].missed = req[x].missed
      /\ req'[x].pc = "open" /\ req[x].pc = "open" /\ Len(req'[x].seen) =< Parts[req[x].op]
  BY DEF Looks
<1>2. s \in Seq(SUBSET Keys)
  BY DEF Base, Shape, Request
<1> HIDE DEF s, e
<1>3. /\ Len(s) \in Nat /\ Len(Append(s, e)) = Len(s) + 1 /\ Append(s, e)[Len(s) + 1] = e
      /\ \A i \in 1..Len(s) : Append(s, e)[i] = s[i]
  BY <1>2
<1> QED BY <1>1, <1>3 DEF s, e

\* The statements that are compared.
LEMMA StatsStatements ==
  /\ GetAlertStats[1] = Rows("alert")
  /\ \A i \in 2..8 : GetAlertStats[i] \subseteq Rows("alert")
  /\ GetAlertStats[2] = Having("alert", "severity", "critical")
  /\ GetAlertStats[6] = Having("alert", "severity", "info")
  /\ GetAlertStats[7] = Having("alert", "status", "open")
  /\ GetAlertStats[8] = Having("alert", "status", "resolved")
<1> DEFINE names == <<"critical", "high", "medium", "low", "info">>
           all == <<Rows("alert")>>
           severities == [i \in 1..5 |-> Having("alert", "severity", names[i])]
           statuses ==
             <<Having("alert", "status", "open"), Having("alert", "status", "resolved")>>
<1>1. \A column, value : Having("alert", column, value) \subseteq Rows("alert")
  BY DEF Having
<1>2. Rows("alert") \subseteq Keys
  BY DEF Rows
<1>3. all \in Seq(SUBSET Keys) /\ Len(all) = 1 /\ all[1] = Rows("alert")
  BY <1>2
<1>4. /\ severities \in Seq(SUBSET Keys) /\ Len(severities) = 5
      /\ severities[1] = Having("alert", "severity", "critical")
      /\ severities[5] = Having("alert", "severity", "info")
      /\ \A i \in 1..5 : severities[i] \subseteq Rows("alert")
  BY <1>1, <1>2
<1>5. /\ statuses \in Seq(SUBSET Keys) /\ Len(statuses) = 2
      /\ statuses[1] = Having("alert", "status", "open")
      /\ statuses[2] = Having("alert", "status", "resolved")
      /\ \A i \in 1..2 : statuses[i] \subseteq Rows("alert")
  BY <1>1, <1>2
<1>6. GetAlertStats = (all \o severities) \o statuses
  BY DEF GetAlertStats
<1> HIDE DEF all, severities, statuses
<1>7. ASSUME NEW s \in Seq(SUBSET Keys), NEW t \in Seq(SUBSET Keys)
      PROVE  /\ s \o t \in Seq(SUBSET Keys) /\ Len(s \o t) = Len(s) + Len(t)
             /\ \A i \in 1..Len(s) : (s \o t)[i] = s[i]
             /\ \A i \in 1..Len(t) : (s \o t)[Len(s) + i] = t[i]
  OBVIOUS
<1> DEFINE front == all \o severities
<1>8. /\ front \in Seq(SUBSET Keys) /\ Len(front) = 6 /\ front[1] = all[1]
      /\ \A i \in 1..5 : front[1 + i] = severities[i]
  <2>1. /\ front \in Seq(SUBSET Keys) /\ Len(front) = Len(all) + Len(severities)
        /\ \A i \in 1..Len(all) : front[i] = all[i]
        /\ \A i \in 1..Len(severities) : front[Len(all) + i] = severities[i]
    BY <1>3, <1>4, <1>7
  <2> HIDE DEF front
  <2> QED BY <1>3, <1>4, <2>1
<1> HIDE DEF front
<1>9. /\ \A i \in 1..6 : GetAlertStats[i] = front[i]
      /\ \A i \in 1..2 : GetAlertStats[6 + i] = statuses[i]
  <2>1. GetAlertStats = front \o statuses
    BY <1>6 DEF front
  <2>2. /\ \A i \in 1..Len(front) : (front \o statuses)[i] = front[i]
        /\ \A i \in 1..Len(statuses) : (front \o statuses)[Len(front) + i] = statuses[i]
    BY <1>5, <1>7, <1>8
  <2> QED BY <1>5, <1>8, <2>1, <2>2
<1>10. /\ GetAlertStats[1] = Rows("alert")
       /\ \A i \in 2..6 : GetAlertStats[i] = severities[i - 1]
       /\ \A i \in 7..8 : GetAlertStats[i] = statuses[i - 6]
  <2>1. \A i \in 2..6 : i - 1 \in 1..5 /\ 1 + (i - 1) = i
    OBVIOUS
  <2>2. \A i \in 7..8 : i - 6 \in 1..2 /\ 6 + (i - 6) = i
    OBVIOUS
  <2>3. \A i \in 2..6 : GetAlertStats[i] = front[1 + (i - 1)] /\ front[1 + (i - 1)] = severities[i - 1]
    BY <1>8, <1>9, <2>1
  <2>4. \A i \in 7..8 : GetAlertStats[6 + (i - 6)] = statuses[i - 6]
    BY <1>9, <2>2
  <2> QED BY <1>3, <1>8, <1>9, <2>2, <2>3, <2>4
<1> QED BY <1>4, <1>5, <1>10

\* The same for the overviews.
LEMMA OverviewStatements ==
  ASSUME NEW q, q.op \in Overviews
  PROVE  /\ Statements(q)[1] = Rows("device")
         /\ Statements(q)[2] = Having("device", "status", "online")
         /\ q.op = "get_security_posture" =>
              Statements(q)[3] = Having("device", "status", "compromised")
         /\ q.op # "get_security_posture" =>
              Statements(q)[3] = Rows("alert") /\ Statements(q)[4] = Having("alert", "status", "open")
BY StatementsOf DEF Overviews, GetSecurityPosture, PrometheusMetrics, LocalMetrics

\* How many statements there are.
LEMMA PartsOf ==
  /\ Parts["list_alerts"] = 2 /\ Parts["list_devices"] = 2 /\ Parts["get_alert_stats"] = 8
  /\ Parts["get_security_posture"] = 4 /\ Parts["prometheus_metrics"] = 5
  /\ Parts["local_metrics"] = 4 /\ Parts["gdpr_export"] = 2
BY DEF Parts

\* The page of a list and its total.
LEMMA ListsKept ==
  ASSUME Base, Step, NEW x \in Requests, ListCounts(x)
  PROVE  ListCounts(x)'
<1> SUFFICES ASSUME req'[x].op \in {"list_alerts", "list_devices"}
             PROVE  ListCounts(x)'
  BY DEF ListCounts
<1> DEFINE rows == IF req[x].op = "list_alerts" THEN Filtered(req[x].arg) ELSE Rows("device")
<1>1. CASE Entered(x)
  <2>1. Len(req'[x].seen) = 0
    BY <1>1 DEF Entered
  <2> QED BY <2>1 DEF ListCounts, Counted, Has
<1>2. CASE Looks(x)
  <2> DEFINE n == Len(req[x].seen)
  <2>1. /\ n \in Nat /\ Len(req'[x].seen) = n + 1 /\ n + 1 =< Parts[req[x].op]
        /\ \A i \in 1..n : req'[x].seen[i] = req[x].seen[i]
        /\ req'[x].seen[n + 1] = Statements(req[x])[n + 1]
        /\ table' = table /\ req'[x].op = req[x].op /\ req'[x].arg = req[x].arg
        /\ req'[x].missed = req[x].missed /\ req'[x].pc = "open" /\ req[x].pc = "open"
    BY <1>2, LooksFacts
  <2>2. Statements(req[x])[1] = rows /\ Statements(req[x])[2] = rows
    BY <2>1, StatementsOf DEF ListAlerts, ListDevices
  <2>3. rows' = rows
    BY <2>1 DEF Filtered, Having, Rows
  <2> HIDE DEF rows, n
  <2>4. n = 0 \/ n = 1
    BY <2>1, PartsOf
  <2>5. CASE n = 0
    <3>1. Len(req'[x].seen) = 1 /\ req'[x].seen[1] = rows
      BY <2>1, <2>2, <2>5
    <3> QED BY <2>3, <3>1 DEF ListCounts, Counted, Has, rows
  <2>6. CASE n = 1
    <3>1. Len(req'[x].seen) = 2 /\ req'[x].seen[1] = req[x].seen[1] /\ req'[x].seen[2] = rows
      BY <2>1, <2>2, <2>6
    <3>2. req[x].seen[1] \subseteq rows /\ rows \subseteq req[x].seen[1] \cup req[x].missed
      BY <2>1, <2>6 DEF ListCounts, Counted, Has, rows, n
    <3> QED BY <2>1, <2>3, <3>1, <3>2 DEF ListCounts, Counted, Has, Part, rows
  <2> QED BY <2>4, <2>5, <2>6
<1>3. CASE Stays(x)
  <2>1. /\ req'[x].op = req[x].op /\ req'[x].arg = req[x].arg /\ req'[x].seen = req[x].seen
        /\ req[x].missed \subseteq req'[x].missed
        /\ req'[x].pc = "open" => req[x].pc = "open"
    BY <1>3 DEF Stays
  <2>2. Has(x, 2)' => Part(x, 2, 1)' /\ req'[x].seen[1] \subseteq req'[x].seen[2]
    BY <2>1 DEF ListCounts, Has, Part
  <2>3. ASSUME req'[x].pc = "open", Has(x, 1)
        PROVE  req'[x].seen[1] \subseteq rows' /\ rows' \subseteq req'[x].seen[1] \cup req'[x].missed
    <3>1. req[x].seen[1] \subseteq rows /\ rows \subseteq req[x].seen[1] \cup req[x].missed
      BY <2>1, <2>3 DEF ListCounts, Counted
    <3>2. req[x].op \in Reads
      BY <2>1 DEF Reads
    <3>3. rows \subseteq rows' /\ rows' \subseteq rows \cup req'[x].missed
      BY <1>3, <2>1, <2>3, <3>2, SetsGrow
    <3> QED BY <2>1, <3>1, <3>3
  <2> QED BY <2>1, <2>2, <2>3 DEF ListCounts, Counted, Has
<1> QED BY <1>1, <1>2, <1>3, ReaderSteps DEF Reads

\* The parts of the statistics and their total.
LEMMA StatsKept ==
  ASSUME Base, Step, NEW x \in Requests, StatsCounts(x)
  PROVE  StatsCounts(x)'
<1> SUFFICES ASSUME req'[x].op = "get_alert_stats"
             PROVE  StatsCounts(x)'
  BY DEF StatsCounts
<1> DEFINE alerts   == Rows("alert")
           critical == Having("alert", "severity", "critical")
           open     == Having("alert", "status", "open")
<1>1. CASE Entered(x)
  <2>1. Len(req'[x].seen) = 0
    BY <1>1 DEF Entered
  <2> QED BY <2>1 DEF StatsCounts, Counted, Current, Has
<1>2. CASE Looks(x)
  <2> DEFINE n == Len(req[x].seen)
             s == req[x].seen
             t == req'[x].seen
             m == req[x].missed
  <2>1. /\ n \in Nat /\ Len(t) = n + 1 /\ n + 1 =< Parts[req[x].op]
        /\ \A i \in 1..n : t[i] = s[i]
        /\ t[n + 1] = Statements(req[x])[n + 1]
        /\ table' = table /\ req'[x].op = req[x].op /\ req'[x].arg = req[x].arg
        /\ req'[x].missed = m /\ req'[x].pc = "open" /\ req[x].pc = "open"
    BY <1>2, LooksFacts
  <2>2. Statements(req[x]) = GetAlertStats /\ n + 1 =< 8
    BY <2>1, StatementsOf, PartsOf
  <2>3. alerts' = alerts /\ critical' = critical /\ open' = open
    BY <2>1 DEF Having, Rows
  <2>4. /\ n >= 1 => s[1] \subseteq alerts /\ alerts \subseteq s[1] \cup m
        /\ \A i \in 2..8 : n >= i => s[i] \subseteq s[1] \cup m
        /\ n >= 2 => s[1] \cap critical \subseteq s[2]
        /\ n >= 6 => s[1] \subseteq s[2] \cup s[6]
        /\ (n >= 7 /\ m = {}) => s[7] = open
        /\ (n >= 8 /\ s[7] \cap s[8] # {}) => m # {}
    BY <2>1 DEF StatsCounts, Counted, Current, Has, Part
  <2> HIDE DEF alerts, critical, open, n, s, t, m
  <2>5. t[1] \subseteq alerts /\ alerts \subseteq t[1] \cup m
    <3>1. CASE n = 0
      <4>1. t[1] = alerts
        BY <2>1, <2>2, <3>1, StatsStatements DEF alerts
      <4> QED BY <4>1
    <3>2. CASE n # 0
      BY <2>1, <2>4, <3>2
    <3> QED BY <3>1, <3>2
  <2>6. ASSUME NEW i \in 2..8, n + 1 >= i
        PROVE  t[i] \subseteq t[1] \cup m
    <3>1. CASE n >= i
      BY <2>1, <2>4, <3>1
    <3>2. CASE n + 1 = i
      <4>1. t[i] \subseteq alerts
        BY <2>1, <2>2, <3>2, StatsStatements DEF alerts
      <4> QED BY <2>5, <4>1
    <3> QED BY <2>1, <2>6, <3>1, <3>2
  <2>7. n + 1 >= 2 => t[1] \cap critical \subseteq t[2]
    <3>1. CASE n = 1
      <4>1. t[2] = critical
        BY <2>1, <2>2, <3>1, StatsStatements DEF critical
      <4> QED BY <4>1
    <3>2. CASE n >= 2
      BY <2>1, <2>4, <3>2
    <3> QED BY <2>1, <3>1, <3>2
  <2>8. n + 1 >= 6 => t[1] \subseteq t[2] \cup t[6]
    <3>1. CASE n = 5
      <4>1. t[6] = Having("alert", "severity", "info")
        BY <2>1, <2>2, <3>1, StatsStatements
      <4>2. alerts \subseteq critical \cup Having("alert", "severity", "info")
        <5>1. ASSUME NEW k \in Keys, table[k].kind = "alert"
              PROVE  table[k].severity \in {"critical", "info"}
          BY <5>1, RowKinds DEF Base, Shape, AlertRow
        <5> QED BY <5>1 DEF alerts, critical, Having, Rows
      <4> QED BY <2>5, <2>7, <3>1, <4>1, <4>2
    <3>2. CASE n >= 6
      BY <2>1, <2>4, <3>2
    <3> QED BY <2>1, <3>1, <3>2
  <2>9. (n + 1 >= 7 /\ m = {}) => t[7] = open
    <3>1. CASE n = 6
      BY <2>1, <2>2, <3>1, StatsStatements DEF open
    <3>2. CASE n >= 7
      BY <2>1, <2>4, <3>2
    <3> QED BY <2>1, <3>1, <3>2
  <2>10. (n + 1 >= 8 /\ t[7] \cap t[8] # {}) => m # {}
    <3>1. n + 1 >= 8 => n = 7
      BY <2>1, <2>2
    <3>2. n = 7 => t[8] = Having("alert", "status", "resolved")
      BY <2>1, <2>2, StatsStatements
    <3>3. open \cap Having("alert", "status", "resolved") = {}
      BY DEF open, Having
    <3> QED BY <2>1, <2>9, <3>1, <3>2, <3>3
  <2> QED BY <2>1, <2>3, <2>5, <2>6, <2>7, <2>8, <2>9, <2>10
          DEF StatsCounts, Counted, Current, Has, Part, alerts, critical, open, t, m
<1>3. CASE Stays(x)
  <2>1. /\ req'[x].op = req[x].op /\ req'[x].arg = req[x].arg /\ req'[x].seen = req[x].seen
        /\ req[x].missed \subseteq req'[x].missed /\ req[x].missed \subseteq Requests
        /\ req'[x].pc = "open" => req[x].pc = "open"
        /\ req[x].op \in Reads
    BY <1>3 DEF Stays, Reads, Base, Shape, Request
  <2>2. /\ \A i \in 2..8 : Has(x, i)' => Part(x, i, 1)'
        /\ Has(x, 6)' => req'[x].seen[1] \subseteq req'[x].seen[2] \cup req'[x].seen[6]
        /\ (Has(x, 8)' /\ req'[x].seen[7] \cap req'[x].seen[8] # {}) => req'[x].missed # {}
    BY <2>1 DEF StatsCounts, Has, Part
  <2>3. ASSUME req'[x].pc = "open"
        PROVE  /\ alerts \subseteq alerts' /\ alerts' \subseteq alerts \cup req'[x].missed
               /\ alerts \cap critical' \subseteq critical
               /\ req'[x].missed = {} => open' = open /\ req[x].missed = {}
    BY <1>3, <2>1, <2>3, SetsGrow
  <2>4. Counted(x, 1, alerts)'
    <3>1. (req[x].pc = "open" /\ Has(x, 1)) =>
            req[x].seen[1] \subseteq alerts /\ alerts \subseteq req[x].seen[1] \cup req[x].missed
      BY <2>1 DEF StatsCounts, Counted
    <3> QED BY <2>1, <2>3, <3>1 DEF Counted, Has
  <2>5. (req'[x].pc = "open" /\ Has(x, 2)') => req'[x].seen[1] \cap critical' \subseteq req'[x].seen[2]
    <3>1. (req[x].pc = "open" /\ Has(x, 2)) =>
            req[x].seen[1] \subseteq alerts /\ req[x].seen[1] \cap critical \subseteq req[x].seen[2]
      <4>1. req[x] \in Request
        BY DEF Base, Shape
      <4>2. Len(req[x].seen) \in Nat
        BY <4>1 DEF Request
      <4> QED BY <2>1, <4>2 DEF StatsCounts, Counted, Has
    <3> QED BY <2>1, <2>3, <3>1 DEF Has
  <2>6. Current(x, 7, open)'
    BY <2>1, <2>3 DEF StatsCounts, Current, Has
  <2> QED BY <2>2, <2>4, <2>5, <2>6 DEF StatsCounts
<1> QED BY <1>1, <1>2, <1>3, ReaderSteps DEF Reads

\* The devices and alerts of the overviews.
LEMMA OverviewsKept ==
  ASSUME Base, Step, NEW x \in Requests, OverviewCounts(x)
  PROVE  OverviewCounts(x)'
<1> SUFFICES ASSUME req'[x].op \in Overviews
             PROVE  OverviewCounts(x)'
  BY DEF OverviewCounts
<1> DEFINE alerts  == Rows("alert")
           devices == Rows("device")
           online  == Having("device", "status", "online")
           posture == "get_security_posture"
<1>1. CASE Entered(x)
  <2>1. Len(req'[x].seen) = 0
    BY <1>1 DEF Entered
  <2> QED BY <2>1 DEF OverviewCounts, Counted, Current, Has
<1>2. CASE Looks(x)
  <2> DEFINE n == Len(req[x].seen)
             s == req[x].seen
             t == req'[x].seen
             m == req[x].missed
             q == req[x]
             all == Statements(q)
  <2>1. /\ n \in Nat /\ Len(t) = n + 1 /\ \A i \in 1..n : t[i] = s[i]
        /\ t[n + 1] = all[n + 1]
        /\ table' = table /\ req'[x].op = q.op /\ req'[x].arg = q.arg
        /\ req'[x].missed = m /\ req'[x].pc = "open" /\ q.pc = "open"
    BY <1>2, LooksFacts
  <2>2. /\ all[1] = devices /\ all[2] = online
        /\ q.op = posture => all[3] = Having("device", "status", "compromised")
        /\ q.op # posture => all[3] = alerts /\ all[4] = Having("alert", "status", "open")
    BY <2>1, OverviewStatements
  <2>3. alerts' = alerts /\ devices' = devices /\ online' = online
    BY <2>1 DEF Having, Rows
  <2>4. /\ n >= 1 => s[1] \subseteq devices /\ devices \subseteq s[1] \cup m
        /\ n >= 2 => s[2] \subseteq s[1] \cup m
        /\ (n >= 2 /\ m = {}) => s[2] = online
        /\ (q.op = posture /\ n >= 3) => (s[2] \cap s[3] # {} => m # {})
        /\ (q.op # posture /\ n >= 3) => s[3] \subseteq alerts /\ alerts \subseteq s[3] \cup m
        /\ (q.op # posture /\ n >= 4) => s[4] \subseteq s[3] \cup m
    BY <2>1 DEF OverviewCounts, Counted, Current, Has, Part
  <2>5. /\ online \subseteq devices /\ Having("alert", "status", "open") \subseteq alerts
        /\ online \cap Having("device", "status", "compromised") = {}
    BY DEF Having
  <2> HIDE DEF alerts, devices, online, posture, n, s, t, m, all, q
  <2>6. t[1] \subseteq devices /\ devices \subseteq t[1] \cup m
    <3>1. CASE n = 0
      <4>1. t[1] = devices
        BY <2>1, <2>2, <3>1
      <4> QED BY <4>1
    <3>2. CASE n # 0
      BY <2>1, <2>4, <3>2
    <3> QED BY <3>1, <3>2
  <2>7. n + 1 >= 2 => t[2] \subseteq t[1] \cup m /\ (m = {} => t[2] = online)
    <3>1. CASE n = 1
      <4>1. t[2] = online
        BY <2>1, <2>2, <3>1
      <4> QED BY <2>5, <2>6, <4>1
    <3>2. CASE n >= 2
      BY <2>1, <2>4, <3>2
    <3> QED BY <2>1, <3>1, <3>2
  <2>8. (q.op = posture /\ n + 1 >= 3) => (t[2] \cap t[3] # {} => m # {})
    <3>1. CASE n = 2
      <4>1. q.op = posture => t[3] = Having("device", "status", "compromised")
        BY <2>1, <2>2, <3>1
      <4> QED BY <2>5, <2>7, <3>1, <4>1
    <3>2. CASE n >= 3
      BY <2>1, <2>4, <3>2
    <3> QED BY <2>1, <3>1, <3>2
  <2>9. (q.op # posture /\ n + 1 >= 3) => t[3] \subseteq alerts /\ alerts \subseteq t[3] \cup m
    <3>1. CASE n = 2
      <4>1. q.op # posture => t[3] = alerts
        BY <2>1, <2>2, <3>1
      <4> QED BY <4>1
    <3>2. CASE n >= 3
      BY <2>1, <2>4, <3>2
    <3> QED BY <2>1, <3>1, <3>2
  <2>10. (q.op # posture /\ n + 1 >= 4) => t[4] \subseteq t[3] \cup m
    <3>1. CASE n = 3
      <4>1. q.op # posture => t[4] = Having("alert", "status", "open")
        BY <2>1, <2>2, <3>1
      <4> QED BY <2>5, <2>9, <3>1, <4>1
    <3>2. CASE n >= 4
      BY <2>1, <2>4, <3>2
    <3> QED BY <2>1, <3>1, <3>2
  <2> QED BY <2>1, <2>3, <2>6, <2>7, <2>8, <2>9, <2>10
          DEF OverviewCounts, Counted, Current, Has, Part, alerts, devices, online, posture, t, m, q
<1>3. CASE Stays(x)
  <2>1. /\ req'[x].op = req[x].op /\ req'[x].seen = req[x].seen
        /\ req[x].missed \subseteq req'[x].missed /\ req[x].missed \subseteq Requests
        /\ req'[x].pc = "open" => req[x].pc = "open"
        /\ req[x].op \in Reads
    BY <1>3 DEF Stays, Reads, LocalReads, Overviews, Base, Shape, Request
  <2>2. /\ Has(x, 2)' => Part(x, 2, 1)'
        /\ (req'[x].op = posture /\ Has(x, 3)') =>
             (req'[x].seen[2] \cap req'[x].seen[3] # {} => req'[x].missed # {})
        /\ req'[x].op # posture => (Has(x, 4)' => Part(x, 4, 3)')
    BY <2>1 DEF OverviewCounts, Has, Part
  <2>3. ASSUME req'[x].pc = "open"
        PROVE  /\ alerts \subseteq alerts' /\ alerts' \subseteq alerts \cup req'[x].missed
               /\ devices \subseteq devices' /\ devices' \subseteq devices \cup req'[x].missed
               /\ req'[x].missed = {} => online' = online /\ req[x].missed = {}
    BY <1>3, <2>1, <2>3, SetsGrow
  <2>4. Counted(x, 1, devices)'
    <3>1. Counted(x, 1, devices)
      BY <2>1 DEF OverviewCounts
    <3> QED BY <2>1, <2>3, <3>1 DEF Counted, Has
  <2>5. req'[x].op # posture => Counted(x, 3, alerts)'
    <3>1. req[x].op # posture => Counted(x, 3, alerts)
      BY <2>1 DEF OverviewCounts
    <3> QED BY <2>1, <2>3, <3>1 DEF Counted, Has
  <2>6. Current(x, 2, online)'
    BY <2>1, <2>3 DEF OverviewCounts, Current, Has
  <2> QED BY <2>2, <2>4, <2>5, <2>6 DEF OverviewCounts
<1> QED BY <1>1, <1>2, <1>3, ReaderSteps DEF Reads, LocalReads, Overviews

\* A read is answered when its statements have been executed.
LEMMA AnsweredKept ==
  ASSUME Base, Step, NEW x \in Requests, Answered(x)
  PROVE  Answered(x)'
<1>1. CASE Entered(x)
  BY <1>1 DEF Entered, Answered
<1>2. CASE Looks(x)
  <2>1. req'[x].pc = "open"
    BY <1>2 DEF Looks
  <2> QED BY <2>1 DEF Answered
<1>3. CASE Stays(x)
  BY <1>3 DEF Stays
<1>4. CASE req'[x].op \notin Reads
  BY <1>4 DEF Answered
<1> QED BY <1>1, <1>2, <1>3, <1>4, ReaderSteps

\* The counts of every behaviour.
LEMMA CountsInvariant == Spec => []CountsInv
<1>1. ASSUME Init
      PROVE  CountsInv
  <2>1. \A x \in Requests : req[x].pc = "new" /\ req[x].op = "none"
    BY <1>1 DEF Init
  <2> QED BY <2>1 DEF CountsInv, ListCounts, StatsCounts, OverviewCounts, Overviews, Answered
<1>2. ASSUME RecordsInv, CountsInv, [Next]_vars
      PROVE  CountsInv'
  <2>1. Base /\ Step
    BY <1>2, NextInv DEF RecordsInv
  <2> QED BY <1>2, <2>1, ListsKept, StatsKept, OverviewsKept, AnsweredKept DEF CountsInv
<1> QED BY <1>1, <1>2, Invariant, PTL DEF Spec

-----------------------------------------------------------------------------
(* The properties.                                                          *)

\* Rows and requests have their forms, and a session holds a row of the table
\* its handler reads, only while it is open (get_db).
THEOREM TypeCorrect == Spec => []TypeOK
<1>1. ASSUME RecordsInv
      PROVE  TypeOK
  <2>1. ASSUME NEW k \in Keys
        PROVE  table[k].kind \in {"none", "case", "alert", "device", "policy", "user", "action"}
    BY <1>1, RowKinds DEF RecordsInv, Base, Shape
  <2>2. ASSUME NEW r \in Requests
        PROVE  /\ req[r].pc \in {"new", "open", "done"}
               /\ req[r].missed \subseteq Requests \ {r}
               /\ req[r].key \in Keys
               /\ req[r].answer \in {"none", "ok", "400", "404", "409", "500"}
               /\ req[r].loaded.kind =
                    IF req[r].pc = "open" /\ req[r].op \in DOMAIN Loads
                    THEN Loads[req[r].op] ELSE "none"
    <3>1. req[r] \in Request /\ Session(r)
      BY <1>1 DEF RecordsInv, Base, Shape
    <3> QED BY <3>1 DEF Request, Session, Loading, Errors
  <2> QED BY <2>1, <2>2 DEF TypeOK
<1> QED BY <1>1, Invariant, PTL

\* A request answered with an error has left nothing behind (get_db rolls back
\* for whatever is raised, the response included).
THEOREM NoTraceOfFailures == Spec => []FailedLeavesNoTrace
<1>1. ASSUME RecordsInv
      PROVE  FailedLeavesNoTrace
  <2>1. ASSUME NEW r \in Requests, req[r].answer \in {"400", "404", "409", "500"}, NEW k \in Keys
        PROVE  ~Mentions(k, r)
    <3>1. Untouched(r) /\ Fresh(r)
      BY <1>1, <2>1 DEF RecordsInv, Base, Fresh, Errors
    <3>2. ~Marks(r, table[k]) /\ (k = r => table[k] = Missing)
      BY <3>1 DEF Untouched
    <3> QED BY <3>2 DEF Marks, Mentions
  <2> QED BY <2>1 DEF FailedLeavesNoTrace
<1> QED BY <1>1, Invariant, PTL

\* A 500 has one of the reasons listed (the handlers' constraints, the
\* response models, and what was committed during the session).
THEOREM FailuresHaveReasons == Spec => []FailuresExplained
<1>1. RecordsInv => FailuresExplained
  BY DEF RecordsInv
<1> QED BY <1>1, Invariant, PTL

\* A stored timeline entry is lost only to a writer who had loaded the case
\* before it (add_timeline_entry, close_investigation).
THEOREM EntriesAreKept == Spec => []EntriesKept
<1>1. ASSUME RecordsInv
      PROVE  EntriesKept
  <2>1. ASSUME NEW r \in Requests, req[r].answer = "ok" /\ req[r].op \in TimelineWriters
        PROVE  \/ \E i \in DOMAIN table[req[r].key].timeline : table[req[r].key].timeline[i] = r
               \/ \E x \in Requests : /\ req[x].pc = "done" /\ req[x].op \in TimelineWriters
                                      /\ req[x].key = req[r].key /\ r \in req[x].missed
    <3>1. Lost(r) \/ Stored(r, table[req[r].key])
      BY <1>1, <2>1 DEF RecordsInv, Kept
    <3> QED BY <3>1 DEF Lost, Stored
  <2> QED BY <2>1 DEF EntriesKept
<1> QED BY <1>1, Invariant, PTL

\* The findings of a closed case are those of the request that dated it, or
\* two closings overlapped (close_investigation).
THEOREM FindingsAgreed == Spec => []FindingsAgree
<1>1. RecordsInv => FindingsAgree
  BY DEF RecordsInv
<1> QED BY <1>1, Invariant, PTL

\* Only a timeline entry whose handler did not find the case in progress opens
\* a closed case again, and the closing's findings and date stay.
THEOREM ReopenedByEntries == Spec => ReopenNeedsEntry
<1>1. ASSUME RecordsInv, [Next]_vars, NEW k \in Rows("case"),
             table[k].status = "closed" /\ table'[k].status # "closed"
      PROVE  /\ \E r \in Requests : /\ Running(r, "add_timeline_entry") /\ req'[r].pc = "done"
                                    /\ req[r].key = k /\ req[r].loaded.status # "in_progress"
             /\ table'[k].findings = table[k].findings
             /\ table'[k].closed_at = table[k].closed_at
  <2>1. Base /\ Step /\ k \in Keys /\ table[k].kind = "case" /\ table'[k] # table[k]
    BY <1>1, NextInv DEF RecordsInv, Rows
  <2>2. PICK r \in Requests :
          /\ Commits(r, k, table'[k]) /\ Loading(r) /\ req[r].key = k
          /\ WritesCase(r, req[r].loaded, table[k], table'[k])
    BY <2>1, CaseWritten
  <2>3. req[r].op = "add_timeline_entry"
    BY <1>1, <2>2 DEF WritesCase, Put
  <2>4. /\ table'[k].findings = table[k].findings /\ table'[k].closed_at = table[k].closed_at
        /\ req[r].loaded.status # "in_progress"
    BY <1>1, <2>2, <2>3 DEF WritesCase, Put
  <2>5. Running(r, "add_timeline_entry") /\ req'[r].pc = "done"
    BY <2>2, <2>3 DEF Commits, Ends, Running
  <2> QED BY <2>2, <2>4, <2>5
<1> DEFINE Kind ==
      \A k \in Rows("case") :
        (table[k].status = "closed" /\ table'[k].status # "closed") =>
          /\ \E r \in Requests : /\ Running(r, "add_timeline_entry") /\ req'[r].pc = "done"
                                 /\ req[r].key = k /\ req[r].loaded.status # "in_progress"
          /\ table'[k].findings = table[k].findings
          /\ table'[k].closed_at = table[k].closed_at
<1>2. RecordsInv /\ [Next]_vars => [Kind]_vars
  BY <1>1
<1> QED BY <1>2, Invariant, PTL DEF Spec, ReopenNeedsEntry

\* An update gives an alert the status that was asked for, unless it missed
\* another one, and a resolution its date (update_alert).
THEOREM UpdatedAsAsked == Spec => StatusAsAsked
<1>1. ASSUME RecordsInv, [Next]_vars, NEW r \in Requests,
             Running(r, "update_alert") /\ table' # table /\ req'[r].pc = "done"
      PROVE  /\ table'[req[r].key].status = req[r].arg \/ req[r].missed # {}
             /\ req[r].arg = "resolved" => table'[req[r].key].resolved_at = r
  <2>1. Base /\ Step
    BY <1>1, NextInv DEF RecordsInv
  <2>2. PICK k \in Keys, row \in Row : Commits(r, k, row)
    <3>1. PICK c \in Requests, k \in Keys, row \in Row : Commits(c, k, row)
      BY <1>1, <2>1 DEF Step, Begins, Answers, Looks
    <3>2. c = r
      BY <1>1, <3>1 DEF Commits, Steady, Running
    <3> QED BY <3>1, <3>2
  <2>3. Loading(r) /\ req[r].loaded.kind = "alert" /\ Held(r)
    BY <1>1, <2>1, LoadedKinds DEF Base, Session, Loading, Running
  <2>4. k = req[r].key /\ WritesAlert(r, req[r].loaded, table[k], row) /\ table[k].kind = "alert"
    BY <1>1, <2>1, <2>2, <2>3, WrittenRow, LoadedKinds
       DEF Inserts, Updates, Running, Operates
  <2>5. table'[req[r].key] = row
    BY <2>2, <2>4 DEF Commits
  <2>6. /\ row.status = Put(req[r].arg, req[r].loaded.status, table[k].status)
        /\ req[r].arg = "resolved" => row.resolved_at = r
    BY <1>1, <2>4 DEF WritesAlert, Running
  <2>7. row.status = req[r].arg \/ req[r].missed # {}
    BY <2>3, <2>4, <2>6 DEF Held, Put
  <2> QED BY <2>5, <2>6, <2>7
<1> DEFINE Kind ==
      \A r \in Requests :
        (Running(r, "update_alert") /\ table' # table /\ req'[r].pc = "done") =>
          /\ table'[req[r].key].status = req[r].arg \/ req[r].missed # {}
          /\ req[r].arg = "resolved" => table'[req[r].key].resolved_at = r
<1>2. RecordsInv /\ [Next]_vars => [Kind]_vars
  BY <1>1
<1> QED BY <1>2, Invariant, PTL DEF Spec, StatusAsAsked

\* Only a heartbeat whose handler found the device out of service puts it
\* online again (device_heartbeat).
THEOREM QuarantineHolds == Spec => HeartbeatKeepsStatus
<1>1. ASSUME RecordsInv, [Next]_vars, NEW k \in Rows("device"),
             table[k].status # "online" /\ table'[k].status = "online"
      PROVE  \E r \in Requests : /\ Running(r, "device_heartbeat") /\ req'[r].pc = "done"
                                 /\ req[r].key = k /\ req[r].loaded.status # "online"
  <2>1. Base /\ Step /\ k \in Keys /\ table[k].kind = "device" /\ table'[k] # table[k]
    BY <1>1, NextInv DEF RecordsInv, Rows
  <2>2. PICK r \in Requests, row \in Row : Commits(r, k, row)
    BY <2>1 DEF Step, Begins, Answers, Looks, Commits
  <2>3. table'[k] = row
    BY <2>2 DEF Commits
  <2>4. k = req[r].key /\ Updates(r, req[r].loaded, table[k], row)
    BY <1>1, <2>1, <2>2, <2>3, WrittenRow DEF Missing, Operates
  <2>5. WritesDevice(r, req[r].loaded, table[k], row)
    BY <2>1, <2>4 DEF Updates
  <2>6. req[r].op = "device_heartbeat" /\ req[r].loaded.status # "online"
    BY <1>1, <2>3, <2>5 DEF WritesDevice, Put
  <2>7. Running(r, "device_heartbeat") /\ req'[r].pc = "done"
    BY <2>2, <2>6 DEF Commits, Ends, Running
  <2> QED BY <2>4, <2>6, <2>7
<1> DEFINE Kind ==
      \A k \in Rows("device") :
        (table[k].status # "online" /\ table'[k].status = "online") =>
          \E r \in Requests : /\ Running(r, "device_heartbeat") /\ req'[r].pc = "done"
                              /\ req[r].key = k /\ req[r].loaded.status # "online"
<1>2. RecordsInv /\ [Next]_vars => [Kind]_vars
  BY <1>1
<1> QED BY <1>2, Invariant, PTL DEF Spec, HeartbeatKeepsStatus

\* Counts made by several statements of one read differ only by what was
\* committed between them (list_alerts, list_devices, get_alert_stats,
\* get_security_posture, prometheus_metrics, gdpr_export).
THEOREM CountsHaveReasons == Spec => []CountsExplained
<1>1. ASSUME CountsInv, RecordsInv
      PROVE  CountsExplained
  <2> SUFFICES ASSUME NEW r \in Requests,
                      req[r].pc = "done" /\ req[r].op \in Reads /\ req[r].answer = "ok"
               PROVE  LET s == req[r].seen
                          Within(part, total) == part \subseteq total \cup req[r].missed
                      IN  /\ req[r].op \in {"list_alerts", "list_devices"} =>
                               Within(s[2], s[1]) /\ s[1] \subseteq s[2]
                          /\ req[r].op = "get_alert_stats" =>
                               /\ \A i \in 2..8 : Within(s[i], s[1])
                               /\ s[1] \subseteq UNION {s[i] : i \in 2..6}
                               /\ s[7] \cap s[8] # {} => req[r].missed # {}
                          /\ req[r].op \in Overviews => Within(s[2], s[1])
                          /\ req[r].op = "get_security_posture" =>
                               (s[2] \cap s[3] # {} => req[r].missed # {})
                          /\ req[r].op \in {"prometheus_metrics", "local_metrics"} =>
                               Within(s[4], s[3])
                          /\ (req[r].op = "gdpr_export" /\ Len(s) = 1) => s[1] = {}
    BY DEF CountsExplained, Overviews
  <2>1. Ended(r) /\ ListCounts(r) /\ StatsCounts(r) /\ OverviewCounts(r)
    BY <1>1 DEF CountsInv, Answered
  <2>2. req[r].op # "gdpr_export" => Len(req[r].seen) = Parts[req[r].op]
    BY <2>1 DEF Ended
  <2>3. req[r].op \in {"list_alerts", "list_devices"} =>
          Part(r, 2, 1) /\ req[r].seen[1] \subseteq req[r].seen[2]
    BY <2>1, <2>2, PartsOf DEF ListCounts, Has
  <2>4. req[r].op = "get_alert_stats" =>
          /\ \A i \in 2..8 : Part(r, i, 1)
          /\ req[r].seen[1] \subseteq req[r].seen[2] \cup req[r].seen[6]
          /\ req[r].seen[7] \cap req[r].seen[8] # {} => req[r].missed # {}
    BY <2>1, <2>2, PartsOf DEF StatsCounts, Has
  <2>5. req[r].op \in Overviews =>
          /\ Part(r, 2, 1)
          /\ req[r].op = "get_security_posture" =>
               (req[r].seen[2] \cap req[r].seen[3] # {} => req[r].missed # {})
          /\ req[r].op # "get_security_posture" => Part(r, 4, 3)
    BY <2>1, <2>2, PartsOf DEF OverviewCounts, Overviews, Has
  <2>6. (req[r].op = "gdpr_export" /\ Len(req[r].seen) = 1) => req[r].seen[1] = {}
    BY <2>1, PartsOf DEF Ended
  <2>7. req[r].seen[2] \cup req[r].seen[6] \subseteq UNION {req[r].seen[i] : i \in 2..6}
    BY SMT
  <2> QED BY <2>3, <2>4, <2>5, <2>6, <2>7 DEF Part, Overviews
<1> QED BY <1>1, CountsInvariant, Invariant, PTL
=============================================================================
