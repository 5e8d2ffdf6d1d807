----------------------------- MODULE HostProofs -----------------------------
(***************************************************************************)
(* Proofs about Host: its type invariant, and that what the agents         *)
(* remember of files and media, of processes, and of firewall rules agrees *)
(* with the host up to the causes named.  Each part has an inductive       *)
(* invariant of its own, kept by its steps and by those of the other       *)
(* parts.                                                                  *)
(***************************************************************************)
EXTENDS Host, TLAPS

-----------------------------------------------------------------------------
(* What the edge agent remembers of its host: the engine reports a match    *)
(* once, the process monitor counts the connections of a process it comes   *)
(* across, and the watcher tells what it has a watch for.                   *)


\* What the proofs need of the host's processes: a process has one PID.
HostTable ==
  /\ table \in [Pids -> Programs \cup {NoProgram}]
  /\ \A p, q \in Running : table[p] = table[q] => p = q
  /\ {table[p] : p \in Running} \subseteq born
  /\ born \subseteq Programs

-----------------------------------------------------------------------------
(* The detection engine.  A key is stored with the process it is of, and a  *)
(* reported process under the key of its one PID.                           *)

EngineInv ==
  /\ toMatch \subseteq Pids /\ alerted \subseteq {AlertKey(p) : p \in Pids}
  /\ matched \subseteq Pids \X born /\ detected \subseteq Suspects
  /\ \A m \in matched, p \in Running : table[p] = m[2] => p = m[1]
  /\ \A m \in matched : m[2] \in detected => AlertKey(m[1]) \in alerted
  /\ \A k \in alerted : \E o \in matched : AlertKey(o[1]) = k /\ o[2] \in detected
  /\ \A x \in detected : \E o \in matched : o[2] = x
  /\ MatchesReported

\* What a look adds to the pairs of PIDs and processes.
LEMMA LookFacts ==
  ASSUME HostTable, NEW p \in Pids
  PROVE  Now \cap ({p} \X Programs) = IF p \in Running THEN {<<p, table[p]>>} ELSE {}
<1>1. \A n \in Now : \E q \in Running : n = <<q, table[q]>>
  BY DEF Now
<1>2. Running \subseteq Pids /\ \A q \in Running : table[q] \in Programs
  BY DEF Running, HostTable
<1>3. ASSUME NEW n \in Now \cap ({p} \X Programs) PROVE p \in Running /\ n = <<p, table[p]>>
  BY <1>1
<1>4. p \in Running => <<p, table[p]>> \in Now \cap ({p} \X Programs)
  BY <1>2 DEF Now
<1> QED BY <1>3, <1>4

\* The engine looks at a process.
LEMMA MatchStep ==
  ASSUME EngineInv, HostTable, NEW p \in toMatch, Match(p), UNCHANGED <<table, born>>
  PROVE  EngineInv'
<1> USE EdgeMonitorsAssumption
<1>1. p \in Pids /\ toMatch' \subseteq Pids /\ Running' = Running
  BY DEF EngineInv, Match, Running
<1>2. matched' = matched \cup (IF p \in Running THEN {<<p, table[p]>>} ELSE {})
  BY <1>1, LookFacts DEF Match
<1>3. \A m \in matched : m[1] \in Pids /\ m[2] \in born /\ m = <<m[1], m[2]>>
  BY DEF EngineInv
<1>4. p \in Running => table[p] \in born
  BY DEF HostTable
<1>5. matched' \subseteq Pids \X born
  BY <1>1, <1>2, <1>4 DEF EngineInv
<1>6. \A m \in matched', q \in Running : table[q] = m[2] => q = m[1]
  BY <1>2 DEF EngineInv, HostTable
<1>7. CASE AlertKey(p) \notin alerted /\ Matches(p)
  <2>1. /\ alerted' = alerted \cup {AlertKey(p)} /\ detected' = detected \cup {table[p]}
        /\ repeated' = repeated \cup (detected \cap {table[p]})
        /\ p \in Running /\ table[p] \in Suspects
    BY <1>7 DEF Match, Remember, Matches
  <2>2. <<p, table[p]>> \in matched' /\ \A m \in matched : m \in matched'
    BY <1>2, <2>1
  <2>3. table[p] \notin detected
    <3> SUFFICES ASSUME table[p] \in detected PROVE FALSE
      OBVIOUS
    <3>1. PICK o \in matched : o[2] = table[p]
      BY DEF EngineInv
    <3>2. o[1] = p /\ AlertKey(o[1]) \in alerted
      BY <2>1, <3>1 DEF EngineInv
    <3> QED BY <1>7, <3>2
  <2>4. repeated' = {}
    BY <2>1, <2>3 DEF EngineInv, MatchesReported
  <2>5. \A m \in matched' : m[2] \in detected' => AlertKey(m[1]) \in alerted'
    <3> SUFFICES ASSUME NEW m \in matched', m[2] \in detected' PROVE AlertKey(m[1]) \in alerted'
      OBVIOUS
    <3>1. CASE m \in matched /\ m[2] \in detected
      BY <2>1, <3>1 DEF EngineInv
    <3>2. CASE m[2] = table[p]
      BY <1>6, <2>1, <3>2
    <3>3. CASE m = <<p, table[p]>>
      BY <2>1, <3>3
    <3> QED BY <1>2, <2>1, <3>1, <3>2, <3>3
  <2>6. \A k \in alerted' : \E o \in matched' : AlertKey(o[1]) = k /\ o[2] \in detected'
    <3>1. <<p, table[p]>>[1] = p /\ <<p, table[p]>>[2] \in detected'
      BY <2>1
    <3>2. \A k \in alerted : \E o \in matched' : AlertKey(o[1]) = k /\ o[2] \in detected'
      BY <2>1, <2>2 DEF EngineInv
    <3> QED BY <2>1, <2>2, <3>1, <3>2
  <2>7. \A x \in detected' : \E o \in matched' : o[2] = x
    <3>1. <<p, table[p]>>[2] = table[p]
      OBVIOUS
    <3> QED BY <2>1, <2>2, <3>1 DEF EngineInv
  <2>8. ASSUME NEW m \in matched', m[2] \in Suspects
        PROVE  \/ m[2] \in detected'
               \/ \E o \in matched' : /\ o[2] # m[2] /\ AlertKey(o[1]) = AlertKey(m[1])
                                      /\ o[2] \in detected'
    <3>1. CASE m \in matched
      BY <2>1, <2>2, <2>8, <3>1 DEF EngineInv, MatchesReported
    <3>2. CASE m = <<p, table[p]>>
      BY <2>1, <3>2
    <3> QED BY <1>2, <3>1, <3>2
  <2>9. alerted' \subseteq {AlertKey(q) : q \in Pids} /\ detected' \subseteq Suspects
    BY <1>1, <2>1 DEF EngineInv
  <2> QED
    BY <1>1, <1>5, <1>6, <2>4, <2>5, <2>6, <2>7, <2>8, <2>9 DEF EngineInv, MatchesReported, AlertKey
<1>8. CASE ~(AlertKey(p) \notin alerted /\ Matches(p))
  <2>1. UNCHANGED <<alerted, detected, repeated>>
    BY <1>8 DEF Match
  <2>2. \A m \in matched' : m[2] \in detected => AlertKey(m[1]) \in alerted
    <3> SUFFICES ASSUME NEW m \in matched', m[2] \in detected PROVE AlertKey(m[1]) \in alerted
      OBVIOUS
    <3>1. PICK o \in matched : o[2] = m[2]
      BY DEF EngineInv
    <3>2. m \in matched \/ (p \in Running /\ m = <<p, table[p]>>)
      BY <1>2
    <3> QED BY <3>1, <3>2 DEF EngineInv
  <2>3. ASSUME NEW m \in matched', m[2] \in Suspects
        PROVE  \/ m[2] \in detected
               \/ \E o \in matched' : /\ o[2] # m[2] /\ AlertKey(o[1]) = AlertKey(m[1])
                                      /\ o[2] \in detected
    <3>1. CASE m \in matched
      BY <1>2, <2>3, <3>1 DEF EngineInv, MatchesReported
    <3>2. CASE p \in Running /\ m = <<p, table[p]>>
      <4>1. AlertKey(p) \in alerted
        BY <1>8, <2>3, <3>2 DEF Matches
      <4>2. PICK o \in matched : AlertKey(o[1]) = AlertKey(p) /\ o[2] \in detected
        BY <4>1 DEF EngineInv
      <4>3. m[1] = p
        BY <3>2
      <4> QED BY <1>2, <4>2, <4>3
    <3> QED BY <1>2, <3>1, <3>2
  <2>4. /\ \A k \in alerted : \E o \in matched' : AlertKey(o[1]) = k /\ o[2] \in detected
        /\ \A x \in detected : \E o \in matched' : o[2] = x
    BY <1>2 DEF EngineInv
  <2> QED
    BY <1>1, <1>5, <1>6, <2>1, <2>2, <2>3, <2>4 DEF EngineInv, MatchesReported, AlertKey
<1> QED BY <1>7, <1>8

-----------------------------------------------------------------------------
(* The process monitor.  A PID it has met is one it has seen a process      *)
(* with, and what runs under it was counted or is not the first there.      *)

Counted(p) == table[p] \in counted \/ \E m \in met : m[1] = p /\ m[2] # table[p]

VisitInv ==
  /\ toVisit \subseteq Pids /\ visiting \in Pids \cup {Nobody} /\ knownPIDs \subseteq Pids
  /\ met \subseteq Pids \X born /\ counted \subseteq born
  /\ \A p \in knownPIDs : \E m \in met : m[1] = p
  /\ visiting # Nobody => \E m \in met : m[1] = visiting
  /\ \A p \in knownPIDs \cap Running : Counted(p)
  /\ NewAreCounted

\* The monitor reads a name, or counts the connections of what has the PID.
LEMMA VisitStep ==
  ASSUME VisitInv, HostTable, UNCHANGED <<table, born>>,
         ListForVisits \/ CountConnections \/ \E p \in toVisit : ReadName(p)
  PROVE  VisitInv'
<1>1. Running' = Running /\ Running \subseteq Pids
  BY DEF Running
<1>2. CASE ListForVisits
  BY <1>1, <1>2 DEF ListForVisits, VisitInv, NewAreCounted, Counted
<1>3. CASE CountConnections
  <2>1. /\ visiting # Nobody /\ visiting' = Nobody /\ visiting \in Pids
        /\ knownPIDs' = knownPIDs \cup {visiting} /\ met' = met /\ toVisit' = toVisit
        /\ counted \subseteq counted'
        /\ counted' \subseteq counted \cup {table[p] : p \in Running}
        /\ visiting \in Running \ knownPIDs => table[visiting] \in counted'
    BY <1>3 DEF CountConnections, VisitInv
  <2>2. \A p \in knownPIDs' \cap Running : Counted(p)'
    <3> SUFFICES ASSUME NEW p \in knownPIDs' \cap Running
                 PROVE  table[p] \in counted' \/ \E m \in met : m[1] = p /\ m[2] # table[p]
      BY <2>1 DEF Counted
    <3>1. CASE p \in knownPIDs
      BY <2>1, <3>1 DEF VisitInv, Counted
    <3>2. CASE p \notin knownPIDs
      BY <2>1, <3>2
    <3> QED BY <3>1, <3>2
  <2>3. NewAreCounted'
    <3> SUFFICES ASSUME NEW p \in Running, <<p, table[p]>> \in met
                 PROVE  table[p] \in counted' \/ \E m \in met : m[1] = p /\ m[2] # table[p]
      BY <1>1, <2>1 DEF NewAreCounted
    <3>1. CASE p = visiting
      BY <2>1, <2>2, <3>1 DEF Counted
    <3>2. CASE p # visiting
      BY <2>1, <3>2 DEF VisitInv, NewAreCounted
    <3> QED BY <3>1, <3>2
  <2>4. counted' \subseteq born
    BY <2>1 DEF VisitInv, HostTable
  <2> QED BY <1>1, <2>1, <2>2, <2>3, <2>4 DEF VisitInv
<1>4. ASSUME NEW p \in toVisit, ReadName(p) PROVE VisitInv'
  <2>1. /\ p \in Pids /\ visiting = Nobody /\ toVisit' \subseteq Pids
        /\ visiting' = IF p \in Running THEN p ELSE Nobody
        /\ UNCHANGED <<knownPIDs, counted>>
    BY <1>4 DEF ReadName, VisitInv
  <2>2. met' = met \cup (IF p \in Running THEN {<<p, table[p]>>} ELSE {})
    BY <1>4, <2>1, LookFacts DEF ReadName
  <2>3. met \subseteq met' /\ met' \subseteq Pids \X born
    BY <2>1, <2>2 DEF VisitInv, HostTable
  <2>4. visiting' # Nobody => \E m \in met' : m[1] = visiting'
    <3>1. p \in Running => <<p, table[p]>> \in met' /\ <<p, table[p]>>[1] = p
      BY <2>2
    <3> QED BY <2>1, <3>1
  <2>5. \A q \in knownPIDs' \cap Running : Counted(q)'
    BY <2>1, <2>3 DEF VisitInv, Counted
  <2>6. NewAreCounted'
    <3> SUFFICES ASSUME NEW q \in Running, <<q, table[q]>> \in met'
                 PROVE  \/ table[q] \in counted \/ q = visiting'
                        \/ \E m \in met' : m[1] = q /\ m[2] # table[q]
      BY <1>1, <2>1 DEF NewAreCounted
    <3>1. CASE q = p
      BY <2>1, <3>1
    <3>2. CASE q # p
      <4>1. <<q, table[q]>> \in met
        BY <2>2, <3>2
      <4>2. q # visiting
        BY <1>1, <2>1, EdgeMonitorsAssumption
      <4> QED BY <2>1, <2>3, <4>1, <4>2 DEF VisitInv, NewAreCounted
    <3> QED BY <3>1, <3>2
  <2> QED BY <1>1, <2>1, <2>3, <2>4, <2>5, <2>6 DEF VisitInv
<1> QED BY <1>2, <1>3, <1>4

-----------------------------------------------------------------------------
(* The processes of the host move.  What starts has not been before, so it  *)
(* is none of those the agent has looked at.                                *)

Moves ==
  /\ born \subseteq born'
  /\ \A p \in Running' : table'[p] \in born => p \in Running /\ table'[p] = table[p]

\* A step of the host's processes starts one that was never born, or ends one.
LEMMA ProcessesMove ==
  ASSUME HostTable, ProcessesNext
  PROVE  Moves
<1>1. ASSUME NEW p \in Pids, NEW x \in Programs, Spawn(p, x) PROVE Moves
  BY <1>1 DEF Spawn, HostTable, Moves, Running
<1>2. ASSUME NEW p \in Pids, Exit(p) PROVE Moves
  BY <1>2 DEF Exit, HostTable, Moves, Running
<1>3. CASE UNCHANGED <<table, born>>
  BY <1>3 DEF Moves, Running
<1> QED
  BY <1>1, <1>2, <1>3
  DEF ProcessesNext, Scan, AgentRestart, Signal, QuarantineProcess, ReleaseProcess, hostVars

\* Such a step keeps what the engine and the process monitor know.
LEMMA MovesKeep ==
  ASSUME EngineInv, VisitInv, HostTable, Moves, UNCHANGED <<engineVars, visitVars>>
  PROVE  EngineInv' /\ VisitInv'
<1>1. UNCHANGED <<toMatch, alerted, matched, detected, repeated>>
  BY DEF engineVars
<1>2. UNCHANGED <<toVisit, visiting, knownPIDs, met, counted>>
  BY DEF visitVars
<1>3. EngineInv'
  <2>1. matched' \subseteq Pids \X born'
    BY <1>1 DEF EngineInv, Moves
  <2>2. ASSUME NEW m \in matched, NEW p \in Running', table'[p] = m[2] PROVE p = m[1]
    <3>1. m[2] \in born
      BY DEF EngineInv
    <3> QED BY <2>2, <3>1 DEF EngineInv, Moves
  <2> QED BY <1>1, <2>1, <2>2 DEF EngineInv, MatchesReported, AlertKey
<1>4. ASSUME NEW p \in knownPIDs' \cap Running' PROVE Counted(p)'
  <2>1. CASE table'[p] \in born
    BY <1>2, <1>4, <2>1 DEF VisitInv, Counted, Moves
  <2>2. CASE table'[p] \notin born
    <3>1. PICK m \in met : m[1] = p
      BY <1>2, <1>4 DEF VisitInv
    <3>2. m[2] \in born
      BY DEF VisitInv
    <3> QED BY <1>2, <2>2, <3>1, <3>2 DEF Counted
  <2> QED BY <2>1, <2>2
<1>5. NewAreCounted'
  <2> SUFFICES ASSUME NEW p \in Running', <<p, table'[p]>> \in met
               PROVE  \/ table'[p] \in counted \/ p = visiting
                      \/ \E m \in met : m[1] = p /\ m[2] # table'[p]
    BY <1>2 DEF NewAreCounted
  <2>1. table'[p] \in born
    BY DEF VisitInv
  <2>2. p \in Running /\ table'[p] = table[p]
    BY <2>1 DEF Moves
  <2> QED BY <2>2 DEF VisitInv, NewAreCounted
<1>6. met' \subseteq Pids \X born' /\ counted' \subseteq born'
  BY <1>2 DEF VisitInv, Moves
<1> QED BY <1>2, <1>3, <1>4, <1>5, <1>6 DEF VisitInv

\* Steps of the engine's part.
LEMMA EnginePart ==
  ASSUME EngineInv, VisitInv, HostTable, EngineNext
  PROVE  EngineInv' /\ VisitInv' /\ UNCHANGED watchVars
<1>1. CASE \E p \in Pids : Goes(p) \/ \E x \in Programs : Comes(p, x)
  <2>1. ProcessesNext /\ UNCHANGED edgeVars
    BY <1>1 DEF Goes, Comes, ProcessesNext
  <2> QED BY <2>1, ProcessesMove, MovesKeep DEF edgeVars
<1>2. CASE /\ ListForEngine \/ \E p \in toMatch : Match(p)
           /\ UNCHANGED <<processVars, visitVars, watchVars>>
  <2>1. UNCHANGED <<table, born>> /\ Moves
    BY <1>2 DEF processVars, hostVars, Moves, Running
  <2>2. VisitInv'
    BY <1>2, <2>1
    DEF VisitInv, NewAreCounted, Counted, visitVars, Running
  <2>3. CASE ListForEngine
    BY <1>2, <2>1, <2>2, <2>3
    DEF ListForEngine, EngineInv, MatchesReported, AlertKey, Running
  <2>4. CASE \E p \in toMatch : Match(p)
    BY <1>2, <2>1, <2>2, <2>4, MatchStep
  <2> QED BY <1>2, <2>3, <2>4
<1> QED BY <1>1, <1>2 DEF EngineNext

\* Steps of the process monitor's part.
LEMMA VisitPart ==
  ASSUME EngineInv, VisitInv, HostTable, VisitNext
  PROVE  EngineInv' /\ VisitInv' /\ UNCHANGED watchVars
<1>1. CASE \E p \in Pids : Goes(p) \/ \E x \in Programs : Comes(p, x)
  <2>1. ProcessesNext /\ UNCHANGED edgeVars
    BY <1>1 DEF Goes, Comes, ProcessesNext
  <2> QED BY <2>1, ProcessesMove, MovesKeep DEF edgeVars
<1>2. CASE /\ ListForVisits \/ CountConnections \/ \E p \in toVisit : ReadName(p)
           /\ UNCHANGED <<processVars, engineVars, watchVars>>
  <2>1. UNCHANGED <<table, born>>
    BY <1>2 DEF processVars, hostVars
  <2>2. EngineInv'
    BY <1>2, <2>1 DEF EngineInv, MatchesReported, AlertKey, engineVars, Running
  <2> QED BY <1>2, <2>1, <2>2, VisitStep
<1> QED BY <1>1, <1>2 DEF VisitNext

-----------------------------------------------------------------------------
(* The file watcher.                                                        *)

FilesType == files \in [Paths -> Contents \cup {None}]

WatchInv ==
  /\ watched \subseteq hashed /\ hashed \subseteq Paths /\ ended \subseteq Paths \ watched
  /\ notices \subseteq Paths \X Wanted /\ heardOf \in [Paths -> Contents \cup {None}]
  /\ WatchesReport

\* What is hashed is what is there; a watch that begins, or is refused, changes
\* nothing of what was said.
LEMMA HashStep ==
  ASSUME WatchInv, FilesType, NEW p \in Paths, Hash(p) \/ AddWatch(p), UNCHANGED files
  PROVE  WatchInv'
<1>1. CASE Hash(p)
  <2>1. heardOf' \in [Paths -> Contents \cup {None}] /\ heardOf'[p] = files[p]
        /\ \A q \in Paths : q # p => heardOf'[q] = heardOf[q]
    BY <1>1 DEF Hash, WatchInv, FilesType
  <2>2. WatchesReport'
    BY <1>1, <2>1 DEF Hash, WatchInv, WatchesReport
  <2> QED BY <1>1, <2>1, <2>2 DEF Hash, WatchInv, Wanted
<1>2. CASE AddWatch(p)
  BY <1>2 DEF AddWatch, WatchInv, WatchesReport, Wanted
<1> QED BY <1>1, <1>2

\* The file of an event is hashed again when the event is handled.
LEMMA NoticeStep ==
  ASSUME WatchInv, FilesType, NEW e \in notices, Notice(e), UNCHANGED files
  PROVE  WatchInv'
<1>1. e[1] \in Paths /\ e[2] \in Wanted /\ UNCHANGED <<hashed, watched, ended>>
      /\ notices' = notices \ {e}
  BY DEF WatchInv, Notice
<1>2. heardOf' = [heardOf EXCEPT ![e[1]] = files[e[1]]] /\ unseen' = unseen \ {e[1]}
  BY <1>1 DEF Notice
<1>3. heardOf' \in [Paths -> Contents \cup {None}] /\ heardOf'[e[1]] = files[e[1]]
      /\ \A q \in Paths : q # e[1] => heardOf'[q] = heardOf[q]
  BY <1>1, <1>2 DEF WatchInv, FilesType
<1>4. WatchesReport'
  <2> SUFFICES ASSUME NEW q \in hashed, files[q] # heardOf'[q]
               PROVE  q \in unseen' \/ \E n \in notices' : n[1] = q
    BY <1>1 DEF WatchesReport
  <2>1. q # e[1] /\ q \in Paths
    BY <1>3 DEF WatchInv
  <2>2. q \in unseen \/ \E n \in notices : n[1] = q
    BY <1>3, <2>1 DEF WatchInv, WatchesReport
  <2> QED BY <1>1, <1>2, <2>1, <2>2
<1> QED BY <1>1, <1>3, <1>4 DEF WatchInv, Wanted

\* A file that changes is in the watcher's events, or had no watch.
LEMMA TouchedStep ==
  ASSUME WatchInv, NEW p \in Paths, FileChanges(p), FilesType, Touched(p)
  PROVE  WatchInv'
<1>1. \A q \in Paths : q # p => files'[q] = files[q]
  BY DEF FileChanges, FilesType
<1>2. CASE p \in watched
  <2>1. /\ UNCHANGED <<hashed, heardOf, unseen>>
        /\ \E k \in Wanted : notices' = notices \cup {<<p, k>>}
        /\ watched' \subseteq watched /\ ended' \subseteq Paths \ watched'
    BY <1>2 DEF Touched, WatchInv, Wanted
  <2>2. notices \subseteq notices' /\ notices' \subseteq Paths \X Wanted
        /\ \E e \in notices' : e[1] = p
    <3>1. PICK k \in Wanted : notices' = notices \cup {<<p, k>>}
      BY <2>1
    <3>2. <<p, k>> \in notices' /\ <<p, k>>[1] = p /\ <<p, k>> \in Paths \X Wanted
      BY <3>1
    <3> QED BY <3>1, <3>2 DEF WatchInv
  <2>3. WatchesReport'
    <3> SUFFICES ASSUME NEW q \in hashed, files'[q] # heardOf[q], q # p
                 PROVE  q \in unseen \/ \E e \in notices' : e[1] = q
      BY <2>1, <2>2 DEF WatchesReport
    <3>1. files[q] # heardOf[q]
      BY <1>1 DEF WatchInv
    <3> QED BY <2>2, <3>1 DEF WatchInv, WatchesReport
  <2> QED BY <2>1, <2>2, <2>3 DEF WatchInv, Wanted
<1>3. CASE p \notin watched
  <2>1. unseen' = unseen \cup ({p} \cap hashed) /\ UNCHANGED <<hashed, watched, notices, heardOf, ended>>
    BY <1>3 DEF Touched
  <2>2. WatchesReport'
    <3> SUFFICES ASSUME NEW q \in hashed, files'[q] # heardOf[q]
                 PROVE  q \in unseen' \/ \E e \in notices : e[1] = q
      BY <2>1 DEF WatchesReport
    <3>1. q = p \/ files[q] # heardOf[q]
      BY <1>1 DEF WatchInv
    <3> QED BY <2>1, <3>1 DEF WatchInv, WatchesReport
  <2> QED BY <2>1, <2>2 DEF WatchInv, Wanted
<1> QED BY <1>2, <1>3

\* Steps of the watcher's part.
LEMMA WatchPart ==
  ASSUME EngineInv, VisitInv, WatchInv, FilesType, UNCHANGED processVars, WatchNext
  PROVE  EngineInv' /\ VisitInv' /\ WatchInv'
<1>1. UNCHANGED <<table, born, engineVars, visitVars>>
  BY DEF WatchNext, processVars, hostVars
<1>2. EngineInv' /\ VisitInv'
  BY <1>1
  DEF EngineInv, MatchesReported, AlertKey, VisitInv, NewAreCounted, Counted,
      Running, engineVars, visitVars
<1>3. CASE \E p \in Paths : FileChanges(p) /\ Touched(p)
  BY <1>3, TouchedStep, <1>2
<1>4. CASE /\ \/ \E p \in Paths : Hash(p) \/ AddWatch(p)
              \/ \E e \in notices : Notice(e)
           /\ UNCHANGED monitorVars
  <2>1. UNCHANGED files
    BY <1>4 DEF monitorVars, fileVars
  <2> QED BY <1>2, <1>4, <2>1, HashStep, NoticeStep
<1> QED BY <1>3, <1>4 DEF WatchNext

-----------------------------------------------------------------------------
\* At first the agent knows nothing.
LEMMA EdgeInitial ==
  ASSUME EdgeInit, ProcessesInit
  PROVE  EngineInv /\ VisitInv /\ WatchInv /\ hashed = {}
<1>1. Running = {}
  BY DEF ProcessesInit, Running
<1>2. heardOf \in [Paths -> Contents \cup {None}]
  BY DEF EdgeInit, Empty
<1> QED
  BY <1>1, <1>2
  DEF EdgeInit, EngineInv, VisitInv, WatchInv, MatchesReported, NewAreCounted, WatchesReport

\* The three invariants give the types.
LEMMA EdgeTyped ==
  ASSUME EngineInv, VisitInv, WatchInv, HostTable
  PROVE  EdgeTypeOK
<1>1. matched \cup met \subseteq Pids \X Programs /\ counted \subseteq Programs
  BY DEF EngineInv, VisitInv, HostTable
<1> QED BY <1>1 DEF EngineInv, VisitInv, WatchInv, EdgeTypeOK

-----------------------------------------------------------------------------
(* The firewall.                                                            *)

FirewallInv ==
  /\ FirewallTypeOK
  /\ os \in {"linux", "windows", "darwin", "other"}
  /\ os = "other" => \A ip \in Ips : rules[ip] = 0
  /\ BlockedMatchesRules

\* The firewall is empty when the agent first starts.
LEMMA FirewallInitial ==
  ASSUME FirewallInit
  PROVE  FirewallInv
BY FirewallAssumption
DEF FirewallInit, FirewallInv, FirewallTypeOK, BlockedMatchesRules

\* One more rule for an address leaves the others' alone.
LEMMA AddedRules ==
  ASSUME FirewallInv, NEW ip \in Ips, rules[ip] < MaxRules
  PROVE  /\ Added(ip) \in [Ips -> 0 .. MaxRules]
         /\ Added(ip)[ip] > 0
         /\ \A i \in Ips : i # ip => Added(ip)[i] = rules[i]
BY FirewallAssumption DEF FirewallInv, FirewallTypeOK, Added

\* Every step of the firewall part keeps its invariant.
LEMMA FirewallStep ==
  ASSUME FirewallInv, FirewallNext
  PROVE  FirewallInv'
<1>. USE FirewallAssumption
<1>1. ASSUME NEW ip \in Ips, BlockIp(ip) PROVE FirewallInv'
  BY <1>1, AddedRules DEF FirewallInv, FirewallTypeOK, BlockedMatchesRules, BlockIp
<1>2. ASSUME NEW ip \in Ips, BlockTimesOut(ip) PROVE FirewallInv'
  BY <1>2, AddedRules DEF FirewallInv, FirewallTypeOK, BlockedMatchesRules, BlockTimesOut
<1>3. ASSUME NEW ip \in Ips, UnblockIp(ip) PROVE FirewallInv'
  BY <1>3 DEF FirewallInv, FirewallTypeOK, BlockedMatchesRules, UnblockIp, Removed, Deletes
<1>4. ASSUME NEW ip \in Ips, UnblockTimesOut(ip) PROVE FirewallInv'
  BY <1>4 DEF FirewallInv, FirewallTypeOK, BlockedMatchesRules, UnblockTimesOut, Removed, Deletes
<1>5. ASSUME NEW ip \in Ips, Administer(ip) PROVE FirewallInv'
  BY <1>5 DEF FirewallInv, FirewallTypeOK, BlockedMatchesRules, Administer
<1>6. ASSUME NEW boot \in BOOLEAN, ManagerRestarts(boot) PROVE FirewallInv'
  BY <1>6 DEF FirewallInv, FirewallTypeOK, BlockedMatchesRules, ManagerRestarts
<1>. QED
  BY <1>1, <1>2, <1>3, <1>4, <1>5, <1>6 DEF FirewallNext

-----------------------------------------------------------------------------
(* Processes.  A PID the monitor knows is one it has seen a process with;   *)
(* what is recorded or held has been born.                                  *)

ProcessesInv ==
  /\ ProcessesTypeOK
  /\ stopped \subseteq born /\ {table[p] : p \in Running} \subseteq born
  /\ born \subseteq Programs
  /\ seen \subseteq Pids \X Programs
  /\ \A p \in baselinePids : \E s \in seen : s[1] = p
  /\ NewAreExamined /\ SuspendedAreListed

\* At first nothing runs.
LEMMA ProcessesInitial ==
  ASSUME ProcessesInit
  PROVE  ProcessesInv
BY ProcessesAssumption
DEF ProcessesInit, ProcessesInv, ProcessesTypeOK, NewAreExamined,
    SuspendedAreListed, Running, Unlisted

\* A scan examines each process under a PID it does not know.
LEMMA ScanExamines ==
  ASSUME ProcessesInv, Scan
  PROVE  NewAreExamined'
<1>. SUFFICES ASSUME NEW s \in seen'
             PROVE  \/ s[2] \in examined' \cup atStart'
                    \/ \E t \in seen' : t[1] = s[1] /\ t[2] # s[2]
  BY DEF NewAreExamined
<1>1. CASE s \in seen
  BY <1>1 DEF ProcessesInv, NewAreExamined, Scan
<1>2. CASE s \notin seen
  <2>1. PICK p \in Running : s = <<p, table[p]>>
    BY <1>2 DEF Scan, Now
  <2>2. CASE p \notin baselinePids
    BY <2>1, <2>2 DEF Scan
  <2>3. CASE p \in baselinePids
    <3>1. PICK t \in seen : t[1] = p
      BY <2>3 DEF ProcessesInv
    <3>2. t = <<t[1], t[2]>>
      BY <3>1 DEF ProcessesInv
    <3>3. t[2] # s[2]
      BY <1>2, <2>1, <3>1, <3>2
    <3>. QED
      BY <2>1, <3>1, <3>3 DEF Scan
  <2>. QED
    BY <2>2, <2>3
<1>. QED
  BY <1>1, <1>2

\* Every step of the process part keeps its invariant.
LEMMA ProcessesStep ==
  ASSUME ProcessesInv, ProcessesNext
  PROVE  ProcessesInv'
<1>. USE ProcessesAssumption
<1>1. ASSUME Scan PROVE ProcessesInv'
  <2>1. NewAreExamined'
    BY <1>1, ScanExamines
  <2>2. seen' \subseteq Pids \X Programs
    BY <1>1 DEF ProcessesInv, ProcessesTypeOK, Scan, Now, Running
  <2>3. \A p \in baselinePids' : \E s \in seen' : s[1] = p
    <3>. SUFFICES ASSUME NEW p \in baselinePids' PROVE \E s \in seen' : s[1] = p
      OBVIOUS
    <3>1. CASE p \in baselinePids
      BY <1>1, <3>1 DEF ProcessesInv, Scan
    <3>2. CASE p \in Running
      <4>1. <<p, table[p]>> \in seen'
        BY <1>1, <3>2 DEF Scan, Now
      <4>. QED
        BY <4>1
    <3>. QED
      BY <1>1, <3>1, <3>2 DEF Scan
  <2>. QED
    BY <1>1, <2>1, <2>2, <2>3
    DEF ProcessesInv, ProcessesTypeOK, SuspendedAreListed, Scan, Running,
        hostVars, holding
<1>2. ASSUME AgentRestart PROVE ProcessesInv'
  <2>1. \A p \in baselinePids' : \E s \in seen' : s[1] = p
    <3>. SUFFICES ASSUME NEW p \in baselinePids' PROVE \E s \in seen' : s[1] = p
      OBVIOUS
    <3>1. <<p, table[p]>> \in seen'
      BY <1>2 DEF AgentRestart, Now
    <3>. QED
      BY <3>1
  <2>2. NewAreExamined'
    <3>. SUFFICES ASSUME NEW s \in seen' PROVE s[2] \in atStart'
      BY DEF NewAreExamined
    <3>1. PICK p \in Running : s = <<p, table[p]>>
      BY <1>2 DEF AgentRestart, Now
    <3>. QED
      BY <1>2, <3>1 DEF AgentRestart
  <2>. QED
    BY <1>2, <2>1, <2>2
    DEF ProcessesInv, ProcessesTypeOK, SuspendedAreListed, AgentRestart,
        Running, Now, Unlisted, hostVars
<1>3. ASSUME NEW p \in Pids, Exit(p) PROVE ProcessesInv'
  BY <1>3
  DEF ProcessesInv, ProcessesTypeOK, NewAreExamined, SuspendedAreListed,
      Exit, Running, monitorPids
<1>4. ASSUME NEW p \in Pids, Signal(p) PROVE ProcessesInv'
  BY <1>4
  DEF ProcessesInv, ProcessesTypeOK, NewAreExamined, SuspendedAreListed,
      Signal, Running, monitorPids
<1>5. ASSUME NEW p \in Pids, QuarantineProcess(p) PROVE ProcessesInv'
  BY <1>5
  DEF ProcessesInv, ProcessesTypeOK, NewAreExamined, SuspendedAreListed,
      QuarantineProcess, Running, monitorPids
<1>6. ASSUME NEW p \in Pids, ReleaseProcess(p) PROVE ProcessesInv'
  BY <1>6
  DEF ProcessesInv, ProcessesTypeOK, NewAreExamined, SuspendedAreListed,
      ReleaseProcess, Remembered, Running, monitorPids
<1>7. ASSUME NEW p \in Pids, NEW x \in Programs, Spawn(p, x) PROVE ProcessesInv'
  BY <1>7
  DEF ProcessesInv, ProcessesTypeOK, NewAreExamined, SuspendedAreListed,
      Spawn, Running, monitorPids, holding
<1>. QED
  BY <1>1, <1>2, <1>3, <1>4, <1>5, <1>6, <1>7 DEF ProcessesNext

-----------------------------------------------------------------------------
(* Files.  Unless its last event is lost for good, a path's entry in the    *)
(* baseline is what was told of it, or it was told to be gone; the baseline *)
(* file is what is in memory unless a save failed.                          *)

ToldAgrees(p) ==
  /\ baseline[p] = told[p] \/ told[p] = None
  /\ observed[p] = told[p] \/ (told[p] = None /\ observed[p] = baseline[p])

MonitorsInv ==
  /\ MonitorsTypeOK
  /\ baselineLost \/ saved = baseline
  /\ \A p \in Paths : ToldAgrees(p) \/ p \in lostEvents \ unsent \/ baselineLost
  /\ known = {d \in Devices : seenMedium[d] # None}
  /\ MediaReported

\* At first there is no baseline, and no device was seen.
LEMMA MonitorsInitial ==
  ASSUME MonitorsInit
  PROVE  MonitorsInv
<1>1. Empty \in [Paths -> Contents \cup {None}] /\ \A p \in Paths : Empty[p] = None
  BY DEF Empty
<1>2. plugged \in [Devices -> Media \cup {None}] /\ \A d \in Devices : plugged[d] = None
  BY DEF MonitorsInit
<1>3. MonitorsTypeOK
  <2>1. {files, baseline, saved, told, observed} \subseteq [Paths -> Contents \cup {None}]
    BY <1>1 DEF MonitorsInit
  <2>2. {plugged, toldMedium, seenMedium} \subseteq [Devices -> Media \cup {None}]
    BY <1>2 DEF MonitorsInit
  <2>3. baselineLost \in BOOLEAN
    BY DEF MonitorsInit
  <2>4. runs \in 1 .. MaxRuns
    BY MonitorsAssumption DEF MonitorsInit
  <2>. QED
    BY <2>1, <2>2, <2>3, <2>4 DEF MonitorsInit, MonitorsTypeOK
<1>4. known = {d \in Devices : seenMedium[d] # None} /\ MediaReported
  BY <1>2 DEF MonitorsInit, MediaReported
<1>. QED
  BY <1>1, <1>3, <1>4 DEF MonitorsInit, MonitorsInv, ToldAgrees

\* What is told of a path agrees with what the last check found there.
LEMMA AgreesReported ==
  ASSUME MonitorsInv
  PROVE  ChangesReported
BY DEF MonitorsInv, ToldAgrees, ChangesReported

\* A comparison leaves the entries that did not change as they were, and
\* enters what is there for those that did, except for deletions.
LEMMA Comparison ==
  ASSUME MonitorsInv
  PROVE  /\ Compared \in [Paths -> Contents \cup {None}]
         /\ Changes \subseteq Paths
         /\ \A p \in Paths : p \notin Changes <=> files[p] = baseline[p]
         /\ \A p \in Paths : Compared[p] = baseline[p] \/ Compared[p] = files[p]
         /\ \A p \in Changes : files[p] # None => Compared[p] = files[p]
         /\ \A p \in Paths \ Changes : Compared[p] = baseline[p]
         /\ Changes = {} => Compared = baseline
<1>1. Changes = {p \in Paths : files[p] # baseline[p]}
  BY DEF Changes, Change
<1>2. \A p \in Paths : Compared[p] = IF Change(p) \in {"new", "modified"} THEN files[p]
                                    ELSE baseline[p]
  BY DEF Compared
<1>3. Compared \in [Paths -> Contents \cup {None}]
  BY DEF Compared, MonitorsInv, MonitorsTypeOK
<1>4. \A p \in Paths : Compared[p] = IF p \in Changes /\ files[p] # None THEN files[p]
                                    ELSE baseline[p]
  BY <1>1, <1>2 DEF Change
<1>5. ASSUME Changes = {} PROVE Compared = baseline
  <2>1. Compared = [p \in Paths |-> Compared[p]] /\ baseline = [p \in Paths |-> baseline[p]]
    BY <1>3 DEF MonitorsInv, MonitorsTypeOK
  <2>2. \A p \in Paths : Compared[p] = baseline[p]
    BY <1>4, <1>5
  <2>. QED
    BY <2>1, <2>2
<1>. QED
  BY <1>1, <1>3, <1>4, <1>5

\* A save leaves the file equal to what is saved, or the loss is recorded.
LEMMA Saving ==
  ASSUME MonitorsInv, NEW b \in [Paths -> Contents \cup {None}], Save(b)
  PROVE  /\ saved' \in [Paths -> Contents \cup {None}] /\ baselineLost' \in BOOLEAN
         /\ baselineLost => baselineLost'
         /\ baselineLost' \/ saved' = b
BY DEF MonitorsInv, MonitorsTypeOK, Save, Empty

\* A start of the agent keeps what is said of media, and finds the devices that
\* are plugged in.
LEMMA StartKeepsMedia ==
  ASSUME MonitorsInv, NEW file, Starts(file)
  PROVE  known' = {d \in Devices : seenMedium'[d] # None} /\ MediaReported'
BY DEF MonitorsInv, MonitorsTypeOK, Starts, Present, MediaReported

\* A check of media keeps what is said of them.
LEMMA CheckKeepsMedia ==
  ASSUME MonitorsInv, CheckUsb
  PROVE  known' = {d \in Devices : seenMedium'[d] # None} /\ MediaReported'
<1>1. known' = {d \in Devices : seenMedium'[d] # None}
  BY DEF CheckUsb, Present
<1>2. ASSUME NEW d \in Devices, seenMedium'[d] # toldMedium'[d] PROVE d \in unnoticed'
  <2>1. d \notin Came \cup Went /\ toldMedium'[d] = toldMedium[d]
    BY <1>2 DEF CheckUsb
  <2>2. CASE d \in Present \cap known /\ plugged[d] # seenMedium[d]
    BY <2>2 DEF CheckUsb
  <2>3. CASE plugged[d] = seenMedium[d]
    BY <1>2, <2>1, <2>3 DEF CheckUsb, MonitorsInv, MediaReported
  <2>4. CASE d \notin Present /\ d \notin known
    BY <2>3, <2>4 DEF Present, MonitorsInv
  <2>. QED
    BY <2>1, <2>2, <2>3, <2>4 DEF Came, Went, Present
<1>. QED
  BY <1>1, <1>2 DEF MediaReported

\* The first baseline is what the host has.
LEMMA InitializeStep ==
  ASSUME MonitorsInv, InitializeBaseline
  PROVE  MonitorsInv'
<1>1. Save(files) /\ files \in [Paths -> Contents \cup {None}]
  BY DEF InitializeBaseline, MonitorsInv, MonitorsTypeOK
<1>2. MonitorsTypeOK'
  BY <1>1, Saving DEF InitializeBaseline, MonitorsInv, MonitorsTypeOK, usbVars
<1>3. ASSUME NEW p \in Paths
      PROVE  ToldAgrees(p)' \/ p \in lostEvents' \ unsent' \/ baselineLost'
  <2>1. CASE told = Empty
    BY <2>1 DEF InitializeBaseline, ToldAgrees
  <2>2. CASE told # Empty
    <3>1. ToldAgrees(p) \/ p \in lostEvents \ unsent \/ baselineLost
      BY DEF MonitorsInv
    <3>2. CASE ToldAgrees(p)
      BY <2>2, <3>2 DEF InitializeBaseline, ToldAgrees, Empty
    <3>. QED
      BY <1>1, <3>1, <3>2, Saving DEF InitializeBaseline
  <2>. QED
    BY <2>1, <2>2
<1>4. baselineLost' \/ saved' = baseline'
  BY <1>1, Saving DEF InitializeBaseline
<1>. QED
  BY <1>2, <1>3, <1>4 DEF MonitorsInv, InitializeBaseline, usbVars, MediaReported

\* A check tells what it finds.
LEMMA CheckFilesStep ==
  ASSUME MonitorsInv, CheckFiles
  PROVE  MonitorsInv'
<1>1. /\ saved' \in [Paths -> Contents \cup {None}] /\ baselineLost' \in BOOLEAN
      /\ baselineLost => baselineLost'
      /\ baselineLost' \/ saved' = baseline'
  <2>1. CASE Changes = {}
    BY <2>1, Comparison DEF CheckFiles, SaveChanges, MonitorsInv, MonitorsTypeOK
  <2>2. CASE Changes # {}
    BY <2>2, Comparison, Saving DEF CheckFiles, SaveChanges
  <2>. QED
    BY <2>1, <2>2
<1>2. told' \in [Paths -> Contents \cup {None}]
  BY DEF CheckFiles, MonitorsInv, MonitorsTypeOK
<1>3. MonitorsTypeOK'
  BY <1>1, <1>2, Comparison DEF CheckFiles, MonitorsInv, MonitorsTypeOK, usbVars
<1>4. ASSUME NEW p \in Paths
      PROVE  ToldAgrees(p)' \/ p \in lostEvents' \ unsent' \/ baselineLost'
  <2>1. CASE p \in Changes
    BY <2>1, Comparison DEF CheckFiles, ToldAgrees
  <2>2. CASE p \notin Changes
    <3>1. files[p] = baseline[p] /\ baseline'[p] = baseline[p] /\ told'[p] = told[p]
          /\ observed'[p] = baseline[p]
      BY <2>2, Comparison DEF CheckFiles
    <3>2. ToldAgrees(p) \/ p \in lostEvents \ unsent \/ baselineLost
      BY DEF MonitorsInv
    <3>3. CASE ToldAgrees(p)
      BY <3>1, <3>3 DEF ToldAgrees
    <3>4. CASE p \in lostEvents \ unsent
      BY <2>2, <3>4 DEF CheckFiles
    <3>. QED
      BY <1>1, <3>2, <3>3, <3>4
  <2>. QED
    BY <2>1, <2>2
<1>. QED
  BY <1>1, <1>3, <1>4 DEF MonitorsInv, CheckFiles, usbVars, MediaReported

\* A start of the agent takes up the baseline file; what had not left is lost.
LEMMA RestartStep ==
  ASSUME MonitorsInv, Restart
  PROVE  MonitorsInv'
<1>1. MonitorsTypeOK'
  BY MonitorsAssumption DEF Restart, Starts, MonitorsInv, MonitorsTypeOK, Present
<1>2. ASSUME NEW p \in Paths
      PROVE  ToldAgrees(p)' \/ p \in lostEvents' \ unsent' \/ baselineLost'
  <2>1. ToldAgrees(p) \/ p \in lostEvents \ unsent \/ baselineLost
    BY DEF MonitorsInv
  <2>2. CASE baselineLost
    BY <2>2 DEF Restart
  <2>3. CASE ~baselineLost
    BY <2>1, <2>3 DEF Restart, Starts, ToldAgrees, MonitorsInv
  <2>. QED
    BY <2>2, <2>3
<1>. QED
  BY <1>1, <1>2, StartKeepsMedia DEF MonitorsInv, Restart, Starts

\* A check that is cut leaves the new baseline or a torn one, and loses what it
\* has found.
LEMMA CheckCutStep ==
  ASSUME MonitorsInv, CheckCut
  PROVE  MonitorsInv'
<1>1. PICK file \in {Empty, Compared} :
        Starts(file) /\ baselineLost' = (baselineLost \/ file = Empty)
  BY DEF CheckCut
<1>2. file \in [Paths -> Contents \cup {None}]
  BY <1>1, Comparison DEF Empty
<1>3. lostEvents' = lostEvents \cup unsent \cup Changes /\ unsent' = {}
  BY <1>1 DEF CheckCut, Starts
<1>4. MonitorsTypeOK'
  <2>1. baselineLost' \in BOOLEAN
    BY <1>1 DEF MonitorsInv, MonitorsTypeOK
  <2>. QED
    BY <1>1, <1>2, <1>3, <2>1, MonitorsAssumption, Comparison
    DEF Starts, MonitorsInv, MonitorsTypeOK, Present
<1>5. ASSUME NEW p \in Paths
      PROVE  ToldAgrees(p)' \/ p \in lostEvents' \ unsent' \/ baselineLost'
  <2>1. CASE baselineLost \/ file = Empty
    BY <1>1, <2>1
  <2>2. CASE p \in Changes \cup lostEvents \cup unsent
    BY <1>3, <2>2
  <2>3. CASE ~baselineLost /\ file = Compared /\ p \notin Changes \cup lostEvents \cup unsent
    <3>1. ToldAgrees(p)
      BY <2>3 DEF MonitorsInv
    <3>2. baseline'[p] = baseline[p]
      BY <1>1, <2>3, Comparison DEF Starts
    <3>. QED
      BY <1>1, <3>1, <3>2 DEF ToldAgrees, Starts
  <2>. QED
    BY <2>1, <2>2, <2>3
<1>. QED
  BY <1>1, <1>4, <1>5, StartKeepsMedia DEF MonitorsInv, Starts

\* Every step of the two monitors keeps their invariant.
LEMMA MonitorsStep ==
  ASSUME MonitorsInv, FilesNext \/ MediaNext
  PROVE  MonitorsInv'
<1>1. ASSUME NEW p \in Paths, FileChanges(p) PROVE MonitorsInv'
  <2>1. files' \in [Paths -> Contents \cup {None}]
    BY <1>1 DEF FileChanges, MonitorsInv, MonitorsTypeOK
  <2>. QED
    BY <1>1, <2>1
    DEF FileChanges, MonitorsInv, MonitorsTypeOK, usbVars, MediaReported, ToldAgrees
<1>2. ASSUME FlushEvents PROVE MonitorsInv'
  BY <1>2 DEF FlushEvents, MonitorsInv, MonitorsTypeOK, usbVars, MediaReported, ToldAgrees
<1>3. ASSUME NEW d \in Devices, Plug(d) PROVE MonitorsInv'
  <2>1. plugged' \in [Devices -> Media \cup {None}]
    BY <1>3 DEF Plug, MonitorsInv, MonitorsTypeOK
  <2>. QED
    BY <1>3, <2>1
    DEF Plug, MonitorsInv, MonitorsTypeOK, fileVars, MediaReported, ToldAgrees
<1>4. ASSUME CheckUsb PROVE MonitorsInv'
  <2>1. toldMedium' \in [Devices -> Media \cup {None}]
    BY <1>4 DEF CheckUsb, MonitorsInv, MonitorsTypeOK
  <2>2. unnoticed' \subseteq Devices /\ known' \subseteq Devices
    BY <1>4 DEF CheckUsb, MonitorsInv, MonitorsTypeOK, Present
  <2>3. MonitorsTypeOK'
    BY <1>4, <2>1, <2>2 DEF CheckUsb, MonitorsInv, MonitorsTypeOK, fileVars
  <2>. QED
    BY <1>4, <2>3, CheckKeepsMedia DEF CheckUsb, MonitorsInv, fileVars, ToldAgrees
<1>. QED
  BY <1>1, <1>2, <1>3, <1>4, InitializeStep, CheckFilesStep, RestartStep, CheckCutStep
  DEF FilesNext, MediaNext

-----------------------------------------------------------------------------
(* The host.                                                                *)

HostInv ==
  /\ MonitorsInv /\ ProcessesInv /\ FirewallInv
  /\ EngineInv /\ VisitInv /\ WatchInv
  /\ part # "watches" => hashed = {}

\* The processes are as the proofs of the edge agent need them.
LEMMA ProcessesGiveTable == ProcessesInv => HostTable
BY DEF ProcessesInv, ProcessesTypeOK, HostTable

\* Parts other than the watcher's leave it without a baseline.
LEMMA NoBaseline ==
  ASSUME WatchInv, hashed = {}, UNCHANGED watchVars
  PROVE  WatchInv' /\ hashed' = {}
BY DEF WatchInv, watchVars, WatchesReport, Wanted

\* A step of one part leaves the others' variables alone, except that the engine
\* and the process monitor see the same host.
LEMMA HostStep ==
  ASSUME HostInv, [Next]_vars
  PROVE  HostInv'
<1>1. ASSUME UNCHANGED monitorVars PROVE MonitorsInv'
  BY <1>1
  DEF HostInv, MonitorsInv, MonitorsTypeOK, ToldAgrees, MediaReported, monitorVars, fileVars, usbVars
<1>2. ASSUME UNCHANGED processVars PROVE ProcessesInv' /\ Moves
  BY <1>2
  DEF HostInv, ProcessesInv, ProcessesTypeOK, NewAreExamined, SuspendedAreListed, Running, Moves,
      processVars, hostVars, monitorPids, holding
<1>3. ASSUME UNCHANGED firewallVars PROVE FirewallInv'
  BY <1>3 DEF HostInv, FirewallInv, FirewallTypeOK, BlockedMatchesRules, firewallVars
<1>4. HostTable /\ FilesType
  BY ProcessesGiveTable DEF HostInv, MonitorsInv, MonitorsTypeOK, FilesType
<1>5. ASSUME part # "watches", UNCHANGED part, UNCHANGED watchVars
      PROVE  WatchInv' /\ (part' # "watches" => hashed' = {})
  BY <1>5, NoBaseline DEF HostInv
<1>6. ASSUME UNCHANGED edgeVars, Moves PROVE EngineInv' /\ VisitInv'
  BY <1>4, <1>6, MovesKeep DEF HostInv, edgeVars
<1>7. CASE Next
  <2>1. UNCHANGED part
    BY <1>7 DEF Next
  <2>2. CASE part \in {"files", "media"} /\ (FilesNext \/ MediaNext)
             /\ UNCHANGED <<processVars, firewallVars, edgeVars>>
    BY <2>1, <2>2, <1>2, <1>3, <1>5, <1>6, MonitorsStep DEF HostInv, edgeVars
  <2>3. CASE part = "processes" /\ ProcessesNext /\ UNCHANGED <<monitorVars, firewallVars, edgeVars>>
    BY <2>1, <2>3, <1>1, <1>3, <1>4, <1>5, <1>6, ProcessesStep, ProcessesMove DEF HostInv, edgeVars
  <2>4. CASE part = "firewall" /\ FirewallNext /\ UNCHANGED <<monitorVars, processVars, edgeVars>>
    BY <2>1, <2>4, <1>1, <1>2, <1>5, <1>6, FirewallStep DEF HostInv, edgeVars
  <2>5. ASSUME part \in {"engine", "visits"}, EngineNext \/ VisitNext,
               UNCHANGED <<monitorVars, firewallVars>>
        PROVE  HostInv'
    <3>1. EngineInv' /\ VisitInv' /\ UNCHANGED watchVars
      BY <1>4, <2>5, EnginePart, VisitPart DEF HostInv
    <3>2. ProcessesNext \/ UNCHANGED processVars
      BY <2>5 DEF EngineNext, VisitNext, Comes, Goes, ProcessesNext
    <3>3. ProcessesInv'
      BY <3>2, <1>2, ProcessesStep DEF HostInv
    <3> QED
      BY <2>1, <2>5, <3>1, <3>3, <1>1, <1>3, <1>5 DEF HostInv
  <2>6. CASE part = "watches" /\ WatchNext /\ UNCHANGED <<processVars, firewallVars>>
    <3>1. EngineInv' /\ VisitInv' /\ WatchInv'
      BY <1>4, <2>6, WatchPart DEF HostInv
    <3>2. MonitorsInv'
      <4>1. FilesNext \/ UNCHANGED monitorVars
        BY <2>6 DEF WatchNext, FilesNext
      <4> QED BY <4>1, <1>1, MonitorsStep DEF HostInv
    <3> QED
      BY <2>1, <2>6, <3>1, <3>2, <1>2, <1>3 DEF HostInv
  <2> QED
    BY <1>7, <2>2, <2>3, <2>4, <2>5, <2>6 DEF Next
<1>8. CASE UNCHANGED vars
  <2>1. UNCHANGED <<part, monitorVars, processVars, firewallVars, engineVars, visitVars, watchVars>>
    BY <1>8 DEF vars, edgeVars
  <2>2. WatchInv'
    BY <2>1 DEF HostInv, WatchInv, WatchesReport, Wanted, watchVars, monitorVars, fileVars
  <2>3. hashed' = hashed
    BY <2>1 DEF watchVars
  <2>4. EngineInv' /\ VisitInv'
    BY <2>1, <1>2, <1>6 DEF edgeVars
  <2> QED
    BY <2>1, <2>2, <2>3, <2>4, <1>1, <1>2, <1>3 DEF HostInv
<1>. QED
  BY <1>7, <1>8

\* In every behaviour of the host the parts' invariants hold.
THEOREM HostInvariant == Spec => []HostInv
<1>1. Init => HostInv
  BY MonitorsInitial, ProcessesInitial, FirewallInitial, EdgeInitial DEF Init, HostInv
<1>2. HostInv /\ [Next]_vars => HostInv'
  BY HostStep
<1>. QED
  BY <1>1, <1>2, PTL DEF Spec

\* The states of the parts always have their types; in particular no
\* protected process is ever in quarantine.
THEOREM TypeCorrect == Spec => []TypeOK
<1>1. HostInv => TypeOK
  BY ProcessesGiveTable, EdgeTyped DEF HostInv, MonitorsInv, ProcessesInv, FirewallInv, TypeOK
<1>. QED
  BY <1>1, HostInvariant, PTL

\* What the monitors' last checks found, and what is at the paths the edge agent
\* watches, is what was last told, up to the causes that HostReported names.
THEOREM HostIsReported == Spec => []HostReported
<1>1. HostInv => HostReported
  BY AgreesReported DEF HostInv, HostReported, MonitorsInv, WatchInv
<1>. QED
  BY <1>1, HostInvariant, PTL

\* New processes are examined and counted, and reported once, unless they inherit
\* a PID or a key; suspended ones are in the agent's list until it restarts.
THEOREM ProcessesAreAccounted == Spec => []ProcessesAccounted
<1>1. HostInv => ProcessesAccounted
  BY DEF HostInv, ProcessesInv, EngineInv, VisitInv, ProcessesAccounted
<1>. QED
  BY <1>1, HostInvariant, PTL

\* The set of blocked addresses agrees with the rules of the firewall up to the
\* causes that BlockedMatchesRules names.
THEOREM BlockedAgreesWithRules == Spec => []BlockedMatchesRules
<1>1. HostInv => BlockedMatchesRules
  BY DEF HostInv, FirewallInv
<1>. QED
  BY <1>1, HostInvariant, PTL
=============================================================================
