-------------------------------- MODULE Fifo --------------------------------
(***************************************************************************)
(* A first-in, first-out queue of files that may give up its oldest files: *)
(* what internal/queue promises (queue.go:14).  A file is added at one     *)
(* end, where it may still be rewritten, and leaves at the other.          *)
(***************************************************************************)
EXTENDS Sequences, Integers

CONSTANT File

VARIABLE queue

Init == queue = <<>>

Add(f)     == queue' = Append(queue, f)
Rewrite(f) == queue # <<>> /\ queue' = [queue EXCEPT ![Len(queue)] = f]
Leave      == queue # <<>> /\ queue' = Tail(queue)

Next == Leave \/ \E f \in File : Add(f) \/ Rewrite(f)

Spec == Init /\ [][Next]_queue
=============================================================================
