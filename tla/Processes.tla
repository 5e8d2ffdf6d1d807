------------------------------ MODULE Processes ------------------------------
(***************************************************************************)
(* Processes as the Python agent knows them, by their PIDs: ProcessMonitor *)
(* looks at the connections of a PID it has not met before, and            *)
(* QuarantineManager suspends and resumes (src/agent/monitors,             *)
(* src/agent/remediation).  Nothing in the repository calls the quarantine *)
(* yet: its calls come at any time.  PIDs are reused.                      *)
(***************************************************************************)
EXTENDS Integers, FiniteSets

CONSTANTS
  Pids,
  Programs,     \* the processes of a behaviour; each lives once
  Guarded,      \* those with a protected name, or "guardian" in it
  NoProgram,    \* what runs under a PID that is free
  MaxAgents     \* bound: starts of the agent

ASSUME ProcessesAssumption ==
  /\ Guarded \subseteq Programs /\ NoProgram \notin Programs /\ MaxAgents \in Nat \ {0}

VARIABLES
  table,        \* the process that runs under each PID
  born,         \* history: processes that have been started
  stopped,      \* the suspended processes
  agents,       \* starts of the agent
  baselinePids, \* self._baseline_pids
  quarantined,  \* self._quarantined: the process recorded for a PID, if any
  seen,         \* history: PID and process of all that this agent has come across
  atStart,      \* history: those that ran when it started
  examined,     \* history: processes whose connections it counted
  held,         \* history: processes the agent suspended and nobody has resumed
  resumed,      \* history: those that somebody else has resumed
  forgotten     \* history: those it held when it ended

hostVars    == <<table, born, stopped>>
monitorPids == <<baselinePids, seen, atStart, examined>>
holding     == <<quarantined, held, resumed, forgotten>>
processVars == <<hostVars, agents, monitorPids, holding>>

Unlisted == [p \in Pids |-> NoProgram]
Running == {p \in Pids : table[p] # NoProgram}
Now == {<<p, table[p]>> : p \in Running}

-----------------------------------------------------------------------------
(* The host.                                                                *)

Spawn(p, x) ==
  /\ p \notin Running /\ x \notin born
  /\ table' = [table EXCEPT ![p] = x] /\ born' = born \cup {x}
  /\ UNCHANGED <<stopped, agents, monitorPids, holding>>

Exit(p) ==
  /\ p \in Running
  /\ table' = [table EXCEPT ![p] = NoProgram]
  /\ stopped' = stopped \ {table[p]} /\ held' = held \ {table[p]}
  /\ UNCHANGED <<born, agents, monitorPids, quarantined, resumed, forgotten>>

\* Somebody else stops or continues a process.
Signal(p) ==
  /\ p \in Running
  /\ \/ stopped' = stopped \cup {table[p]} /\ UNCHANGED <<held, resumed>>
     \/ /\ table[p] \in stopped /\ stopped' = stopped \ {table[p]}
        /\ held' = held \ {table[p]} /\ resumed' = resumed \cup {table[p]}
  /\ UNCHANGED <<table, born, agents, monitorPids, quarantined, forgotten>>

-----------------------------------------------------------------------------
(* ProcessMonitor.                                                          *)

Scan ==
  /\ baselinePids' = baselinePids \cup Running
  /\ examined' = examined \cup {table[p] : p \in Running \ baselinePids}
  /\ seen' = seen \cup Now
  /\ UNCHANGED <<hostVars, agents, atStart, holding>>

-----------------------------------------------------------------------------
(* QuarantineManager.  A call may be denied.                                *)

\* A change of QuarantineProcess: the protected names are not looked at.
QuarantineAny(p) ==
  /\ p \in Running
  /\ stopped' = stopped \cup {table[p]} /\ held' = held \cup {table[p]}
  /\ quarantined' = [quarantined EXCEPT ![p] = table[p]]
  /\ forgotten' = forgotten \ {table[p]}
  /\ UNCHANGED <<table, born, agents, monitorPids, resumed>>

\* A process that exits after it was suspended is not recorded.
QuarantineProcess(p) ==
  /\ p \in Running /\ table[p] \notin Guarded
  /\ stopped' = stopped \cup {table[p]} /\ held' = held \cup {table[p]}
  /\ quarantined' = [quarantined EXCEPT ![p] = table[p]]
  /\ forgotten' = forgotten \ {table[p]}
  /\ UNCHANGED <<table, born, agents, monitorPids, resumed>>

Remembered(p) == [quarantined EXCEPT ![p] = NoProgram]

\* A change of ReleaseProcess: the record is dropped before the process is
\* resumed, which may be denied.
ReleaseForgets(p) ==
  /\ quarantined' = Remembered(p)
  /\ \/ p \in Running /\ stopped' = stopped \ {table[p]} /\ held' = held \ {table[p]}
     \/ UNCHANGED <<stopped, held>>
  /\ UNCHANGED <<table, born, agents, monitorPids, resumed, forgotten>>

\* Whatever has the PID is resumed.
ReleaseProcess(p) ==
  /\ quarantined' = Remembered(p)
  /\ IF p \in Running THEN stopped' = stopped \ {table[p]} /\ held' = held \ {table[p]}
     ELSE UNCHANGED <<stopped, held>>
  /\ UNCHANGED <<table, born, agents, monitorPids, resumed, forgotten>>

-----------------------------------------------------------------------------
\* The agent ends, and starts with a new baseline and nothing in quarantine.
AgentRestart ==
  /\ agents < MaxAgents /\ agents' = agents + 1
  /\ baselinePids' = Running /\ seen' = Now /\ atStart' = {table[p] : p \in Running}
  /\ examined' = {}
  /\ quarantined' = Unlisted /\ forgotten' = forgotten \cup held
  /\ UNCHANGED <<hostVars, held, resumed>>

ProcessesInit ==
  /\ table = [p \in Pids |-> NoProgram] /\ born = {} /\ stopped = {}
  /\ agents = 1
  /\ baselinePids = {} /\ seen = {} /\ atStart = {} /\ examined = {}
  /\ quarantined = Unlisted /\ held = {} /\ resumed = {} /\ forgotten = {}

ProcessesNext ==
  \/ Scan \/ AgentRestart
  \/ \E p \in Pids :
       \/ Exit(p) \/ Signal(p) \/ QuarantineProcess(p) \/ ReleaseProcess(p)
       \/ \E x \in Programs : Spawn(p, x)

-----------------------------------------------------------------------------
ProcessesTypeOK ==
  /\ table \in [Pids -> Programs \cup {NoProgram}]
  /\ \A p, q \in Running : table[p] = table[q] => p = q
  /\ stopped \subseteq {table[p] : p \in Running} /\ held \subseteq stopped
  /\ quarantined \in [Pids -> (born \ Guarded) \cup {NoProgram}]
  /\ baselinePids \subseteq Pids /\ agents \in 1 .. MaxAgents

\* A process that the monitor has come across had its connections counted once,
\* unless it ran when the agent started or inherited the PID of another.
NewAreExamined ==
  \A s \in seen :
    \/ s[2] \in examined \cup atStart
    \/ \E t \in seen : t[1] = s[1] /\ t[2] # s[2]

\* A process the agent suspended, and nobody has resumed, is in its list, unless
\* the agent has restarted since; and one in the list is suspended, unless it
\* has exited or somebody else has resumed it.
SuspendedAreListed ==
  /\ \A p \in Running : table[p] \in held \ forgotten =>
       quarantined[p] = table[p]
  /\ \A p \in Running : quarantined[p] = table[p] =>
       table[p] \in held \cup resumed
=============================================================================
