---------------------------- MODULE EdgeMonitors ----------------------------
(***************************************************************************)
(* What the edge agent remembers of its host: the rule alerts of the       *)
(* detection engine, the PIDs of the process monitor, and the baseline of  *)
(* the file watcher (src/edge-agent/internal).  Nothing is kept over a     *)
(* restart: a behaviour is one life.  Each is a goroutine; the host moves  *)
(* between two looks of a scan.  The files and processes are those of      *)
(* Monitors and Processes.                                                 *)
(*                                                                         *)
(* Rules do not read each other's keys: one is modelled, and the events    *)
(* that repeat with every scan are left out.  Watches are inotify's: one   *)
(* ends when its file is deleted, moved away or replaced by another.       *)
(***************************************************************************)
EXTENDS Monitors, Processes

CONSTANTS
  NoRunes,      \* PIDs that are no code point: 55296 .. 57343, 65533, above 1114111
  Suspects      \* processes the rule matches

Nobody == "nobody"

ASSUME EdgeMonitorsAssumption ==
  NoRunes \subseteq Pids /\ Suspects \subseteq Programs /\ Nobody \notin Pids

VARIABLES
  toMatch,      \* the PIDs the engine's scan has yet to look at
  alerted,      \* the keys of its alerts
  matched,      \* history: PID and process of all it has looked at
  detected,     \* history: processes it reported
  repeated,     \* history: those it reported again
  toVisit,      \* the PIDs the process monitor's scan has yet to look at
  visiting,     \* the PID whose name it has just read, if any
  knownPIDs,    \* the PIDs it has met
  met,          \* history: PID and process of all it has looked at
  counted,      \* history: processes whose connections it counted
  hashed,       \* paths the baseline has been made of
  watched,      \* paths with a watch
  notices,      \* events of the watcher that have not been handled
  heardOf,      \* history: what the agent last said of each path, or first recorded
  ended,        \* history: paths whose watch ended, or was refused
  unseen        \* history: paths that changed, since they were hashed, without a watch

engineVars == <<toMatch, alerted, matched, detected, repeated>>
visitVars  == <<toVisit, visiting, knownPIDs, met, counted>>
watchVars  == <<hashed, watched, notices, heardOf, ended, unseen>>
edgeVars   == <<engineVars, visitVars, watchVars>>

-----------------------------------------------------------------------------
(* RunDetectionEngine.                                                      *)

ListForEngine ==
  /\ toMatch = {} /\ toMatch' = Running
  /\ UNCHANGED <<alerted, matched, detected, repeated>>

\* string(rune(pid)): whatever is no code point becomes the same character.
AlertKey(p) == IF p \in NoRunes THEN "U+FFFD" ELSE p

Matches(p) == p \in Running /\ table[p] \in Suspects

\* A change of Remember: the key is not stored.
RememberNot(p) == alerted

Remember(p) == alerted \cup {AlertKey(p)}

Match(p) ==
  /\ p \in toMatch /\ toMatch' = toMatch \ {p}
  /\ matched' = matched \cup (Now \cap ({p} \X Programs))
  /\ IF AlertKey(p) \notin alerted /\ Matches(p)
     THEN /\ alerted' = Remember(p) /\ detected' = detected \cup {table[p]}
          /\ repeated' = repeated \cup (detected \cap {table[p]})
     ELSE UNCHANGED <<alerted, detected, repeated>>

-----------------------------------------------------------------------------
(* RunProcessMonitor.                                                       *)

ListForVisits ==
  /\ toVisit = {} /\ visiting = Nobody /\ toVisit' = Running
  /\ UNCHANGED <<visiting, knownPIDs, met, counted>>

\* Without a name the process is skipped.
ReadName(p) ==
  /\ visiting = Nobody /\ p \in toVisit /\ toVisit' = toVisit \ {p}
  /\ visiting' = IF p \in Running THEN p ELSE Nobody
  /\ met' = met \cup (Now \cap ({p} \X Programs))
  /\ UNCHANGED <<knownPIDs, counted>>

\* After the event of a suspicious name has been sent, which may take its time:
\* what has the PID now is counted.
CountConnections ==
  /\ visiting # Nobody /\ visiting' = Nobody
  /\ knownPIDs' = knownPIDs \cup {visiting}
  /\ counted' = IF visiting \in Running \ knownPIDs THEN counted \cup {table[visiting]} ELSE counted
  /\ UNCHANGED <<toVisit, met>>

-----------------------------------------------------------------------------
(* RunFileIntegrity.                                                        *)

Hash(p) ==
  /\ p \notin hashed /\ hashed' = hashed \cup {p}
  /\ heardOf' = [heardOf EXCEPT ![p] = files[p]]
  /\ UNCHANGED <<watched, notices, ended, unseen>>

\* When all have been hashed; a file that is not there cannot be watched.
AddWatch(p) ==
  /\ hashed = Paths /\ p \notin watched \cup ended
  /\ IF files[p] = None THEN ended' = ended \cup {p} /\ UNCHANGED watched
     ELSE watched' = watched \cup {p} /\ UNCHANGED ended
  /\ UNCHANGED <<hashed, notices, heardOf, unseen>>

\* A file is written in place, or its watch ends with it.
Touched(p) ==
  IF p \in watched
  THEN \/ /\ files'[p] # None
          /\ notices' = notices \cup {<<p, "write">>}
          /\ UNCHANGED <<hashed, watched, heardOf, ended, unseen>>
       \/ /\ notices' = notices \cup {<<p, "remove">>}
          /\ watched' = watched \ {p} /\ ended' = ended \cup {p}
          /\ UNCHANGED <<hashed, heardOf, unseen>>
  ELSE /\ unseen' = unseen \cup ({p} \cap hashed)
       /\ UNCHANGED <<hashed, watched, notices, heardOf, ended>>

\* A change of Wanted: only writes are handled.
WantedWrites == {"write"}

\* Removals and renames, which are one here, and writes.
Wanted == {"write", "remove"}

\* The file is hashed when the event is handled, and the baseline follows.
Notice(e) ==
  /\ e \in notices /\ notices' = notices \ {e}
  /\ IF e[2] \in Wanted
     THEN heardOf' = [heardOf EXCEPT ![e[1]] = files[e[1]]] /\ unseen' = unseen \ {e[1]}
     ELSE UNCHANGED <<heardOf, unseen>>
  /\ UNCHANGED <<hashed, watched, ended>>

-----------------------------------------------------------------------------
EdgeInit ==
  /\ toMatch = {} /\ alerted = {} /\ matched = {} /\ detected = {} /\ repeated = {}
  /\ toVisit = {} /\ visiting = Nobody /\ knownPIDs = {} /\ met = {} /\ counted = {}
  /\ hashed = {} /\ watched = {} /\ notices = {} /\ heardOf = Empty /\ ended = {} /\ unseen = {}

Comes(p, x) == Spawn(p, x) /\ UNCHANGED edgeVars
Goes(p) == Exit(p) /\ UNCHANGED edgeVars

EngineNext ==
  \/ \E p \in Pids : Goes(p) \/ \E x \in Programs : Comes(p, x)
  \/ /\ ListForEngine \/ \E p \in toMatch : Match(p)
     /\ UNCHANGED <<processVars, visitVars, watchVars>>

VisitNext ==
  \/ \E p \in Pids : Goes(p) \/ \E x \in Programs : Comes(p, x)
  \/ /\ ListForVisits \/ CountConnections \/ \E p \in toVisit : ReadName(p)
     /\ UNCHANGED <<processVars, engineVars, watchVars>>

WatchNext ==
  \/ \E p \in Paths : FileChanges(p) /\ Touched(p) /\ UNCHANGED <<engineVars, visitVars>>
  \/ /\ \/ \E p \in Paths : Hash(p) \/ AddWatch(p)
        \/ \E e \in notices : Notice(e)
     /\ UNCHANGED <<monitorVars, engineVars, visitVars>>

-----------------------------------------------------------------------------
EdgeTypeOK ==
  /\ toMatch \cup toVisit \cup knownPIDs \subseteq Pids /\ visiting \in Pids \cup {Nobody}
  /\ alerted \subseteq {AlertKey(p) : p \in Pids}
  /\ matched \cup met \subseteq Pids \X Programs
  /\ detected \subseteq Suspects /\ counted \subseteq Programs
  /\ watched \subseteq hashed /\ hashed \subseteq Paths /\ ended \subseteq Paths \ watched
  /\ notices \subseteq Paths \X Wanted /\ heardOf \in [Paths -> Contents \cup {None}]

\* The engine reports a process that the rule matches when it looks at it, and
\* once, unless it has reported another whose PID had the same key: the same
\* PID earlier, or any PID that is no code point.
MatchesReported ==
  /\ repeated = {}
  /\ \A m \in matched : m[2] \in Suspects =>
       \/ m[2] \in detected
       \/ \E o \in matched : /\ o[2] # m[2] /\ AlertKey(o[1]) = AlertKey(m[1])
                             /\ o[2] \in detected

\* A process that runs, and that the process monitor has come across, had its
\* connections counted, is about to, or has the PID of an earlier one.
NewAreCounted ==
  \A p \in Running : <<p, table[p]>> \in met =>
    \/ table[p] \in counted
    \/ p = visiting
    \/ \E m \in met : m[1] = p /\ m[2] # table[p]

\* What is at a path is what the agent last said of it, or first recorded,
\* unless an event waits or the file changed without a watch: between the hash
\* and the watch, or after a watch that ended with a file that was replaced or
\* deleted, from when on nothing is noticed.
WatchesReport ==
  \A p \in hashed : files[p] # heardOf[p] =>
    p \in unseen \/ \E e \in notices : e[1] = p
=============================================================================
