------------------------------ MODULE DiskQueue ------------------------------
(***************************************************************************)
(* internal/queue/queue.go of the edge agent, file operation by file       *)
(* operation.  The directory maps names to contents; a name is the wall    *)
(* clock's UnixNano in decimal, and names are ordered as strings.  q.mu    *)
(* lets one operation run at a time; the process may be killed between any *)
(* two file operations.                                                    *)
(***************************************************************************)
EXTENDS OfflineQueue

CONSTANTS
  Bodies,      \* the request bodies the agent enqueues
  Clock,       \* the readings of time.Now().UnixNano()
  StepsBack,   \* may the wall clock be set back?
  WriteFaults  \* can WriteFile fail?

ASSUME DiskQueueAssumption ==
  /\ Bodies \subseteq Body /\ \A b \in Bodies : IsFiniteSet(b.events)
  /\ Clock \subseteq Nat /\ Clock # {}
  /\ {StepsBack, WriteFaults} \subseteq BOOLEAN

VARIABLES
  now,     \* the wall clock
  files,   \* the .gpi files of the queue directory
  pc,      \* the operation under way, or how the last one ended
  data,    \* the body being or last enqueued, or the one Dequeue has read
  name,    \* the file being written or removed
  size,    \* enforceLimit's totalSize
  list,    \* the names enforceLimit has not looked at yet
  before   \* history: the contents when the operation began

vars == <<now, files, pc, data, name, size, list, before>>

-----------------------------------------------------------------------------
(* Names.                                                                   *)

\* fmt.Sprintf("%d", n)
Digits[n \in Nat] ==
  IF n < 10 THEN <<n>> ELSE Append(Digits[n \div 10], n % 10)

\* A change of SortsFirst a bug might make.
NewestFirst(m, n) == m > n

\* sort.Strings on the names; ".gpi" sorts before every digit.
SortsFirst(m, n) ==
  LET s == Digits[m]
      t == Digits[n]
  IN  \E k \in 0 .. Len(s) :
        /\ k <= Len(t) /\ \A i \in 1 .. k : s[i] = t[i]
        /\ k < Len(t)
        /\ k = Len(s) \/ s[k + 1] < t[k + 1]

\* The i-th name is the one that i - 1 names sort before.
Place(n, names) == 1 + Cardinality({m \in names : SortsFirst(m, n)})
Sorted(names) ==
  [i \in 1 .. Cardinality(names) |-> CHOOSE n \in names : Place(n, names) = i]

Names    == Sorted(DOMAIN files)
Contents == [i \in DOMAIN Names |-> files[Names[i]]]

\* What the directory's files weigh.
Size == WeightFrom(Contents, 1)

\* A change of Without: the file is emptied but stays.
Emptied(n) == [files EXCEPT ![n] = [kind |-> "none", events |-> {}, device |-> FALSE]]

Without(n) == [m \in DOMAIN files \ {n} |-> files[m]]

\* The file of that name now holds b, and is new if there was none.
With(n, b) == [m \in DOMAIN files \cup {n} |-> IF m = n THEN b ELSE files[m]]

-----------------------------------------------------------------------------

NoData == [kind |-> "none", events |-> {}, device |-> FALSE]

\* q.mu is free.  "saved" and "taken": the last operation ran to its end.
Ready == pc \in {"idle", "saved", "taken"}

TypeOK ==
  /\ now \in Clock
  /\ DOMAIN files \subseteq Clock /\ \A n \in DOMAIN files : files[n] \in Body
  /\ pc \in {"idle", "saved", "taken", "limit", "write", "remove"}
  /\ data \in Body \cup {NoData}
  /\ name \in Clock
  /\ size \in Nat /\ list \in Seq(Clock)
  /\ before \in Seq(Body)

Init ==
  /\ now \in Clock /\ files = <<>> /\ pc = "idle"
  /\ data = NoData /\ name = now /\ size = 0 /\ list = <<>> /\ before = <<>>

\* Enqueue takes the lock; enforceLimit adds up the sizes and lists the files.
Enqueue(b) ==
  /\ Ready
  /\ pc' = "limit" /\ data' = b /\ before' = Contents
  /\ size' = Size /\ list' = Names
  /\ UNCHANGED <<now, files, name>>

\* A change of TooMuch: the loop stops one file early.
TooMuchLess == size > MaxQueue + 1 /\ list # <<>>

TooMuch == size > MaxQueue /\ list # <<>>

\* One turn of enforceLimit's loop.
RemoveOldest ==
  /\ pc = "limit" /\ TooMuch
  /\ files' = Without(Head(list))
  /\ size' = size - Weight(files[Head(list)])
  /\ list' = Tail(list)
  /\ UNCHANGED <<now, pc, data, name, before>>

\* WriteFile opens the file for the name of this moment and truncates it.
Create ==
  /\ pc = "limit" /\ ~TooMuch
  /\ files' = With(now, Torn)
  /\ name' = now
  /\ pc' = "write" /\ list' = <<>> /\ size' = 0
  /\ UNCHANGED <<now, data, before>>

Write ==
  /\ pc = "write"
  /\ files' = [files EXCEPT ![name] = data]
  /\ pc' = "saved"
  /\ UNCHANGED <<now, data, name, size, list, before>>

\* Opening or writing the file fails.
WriteFails ==
  /\ WriteFaults
  /\ pc = "write" \/ (pc = "limit" /\ ~TooMuch)
  /\ pc' = "idle" /\ data' = NoData /\ list' = <<>> /\ size' = 0
  /\ UNCHANGED <<now, files, name, before>>

\* Dequeue reads the file with the first name, ...
Read ==
  /\ Ready /\ Names # <<>>
  /\ name' = Names[1] /\ data' = files[Names[1]] /\ before' = Contents
  /\ pc' = "remove"
  /\ UNCHANGED <<now, files, size, list>>

\* ... removes it and returns what it read.
RemoveRead ==
  /\ pc = "remove"
  /\ files' = Without(name)
  /\ pc' = "taken" /\ data' = NoData
  /\ UNCHANGED <<now, name, size, list, before>>

\* The process is killed in the middle of an operation, and restarted.
Crash ==
  /\ ~Ready
  /\ pc' = "idle" /\ data' = NoData /\ list' = <<>> /\ size' = 0
  /\ UNCHANGED <<now, files, name, before>>

ClockMoves ==
  /\ \E t \in Clock : (StepsBack \/ t > now) /\ now' = t
  /\ UNCHANGED <<files, pc, data, name, size, list, before>>

Next ==
  \/ \E b \in Bodies : Enqueue(b)
  \/ RemoveOldest \/ Create \/ Write \/ WriteFails
  \/ Read \/ RemoveRead
  \/ Crash
  \/ ClockMoves

Spec == Init /\ [][Next]_vars

-----------------------------------------------------------------------------

\* The step-by-step operations do what EdgeAgent takes them to do at once
\* (Put, PutOver, Limiting, Head and Tail), also when they are cut short.
StepsAddUp ==
  /\ pc = "limit" => Contents \in Limiting(before)
  /\ pc = "write" => Contents \in
       {Put(before, Torn)} \cup
       (IF Limit(before) = <<>> THEN {} ELSE {PutOver(before, Torn)})
  /\ pc = "saved" => Contents \in
       {Put(before, data)} \cup
       (IF Limit(before) = <<>> THEN {} ELSE {PutOver(before, data)})
  /\ pc = "remove" => Contents = before /\ data = Head(before)
  /\ pc = "taken" => Contents = Tail(before)

\* queue.go:14: files leave in the order in which they were added.
Queue == INSTANCE Fifo WITH File <- Bodies \cup {Torn}, queue <- Contents

KeepsOrder == Queue!Spec
=============================================================================
