------------------------------ MODULE Delivery ------------------------------
(***************************************************************************)
(* What an agent with a store-and-forward queue promises about an event:   *)
(* it is held until it has arrived or has been given up, and what has      *)
(* arrived stays.  It promises neither order nor a single arrival.         *)
(* EdgeAgent and TelemetrySender implement it.                             *)
(***************************************************************************)
EXTENDS Integers

VARIABLES
  known,     \* events 1 .. known exist
  held,      \* those the sender still answers for
  arrived,   \* those the receiver has
  dropped    \* those the sender gave up

vars == <<known, held, arrived, dropped>>

Init == known = 0 /\ held = {} /\ arrived = {} /\ dropped = {}

\* A new event, which may push others out.
Create(evicted) ==
  /\ evicted \subseteq held
  /\ known' = known + 1
  /\ held' = (held \ evicted) \cup {known + 1}
  /\ dropped' = dropped \cup evicted
  /\ UNCHANGED arrived

\* The receiver takes events the sender knows, whether or not it still
\* holds them; the sender may let go of those, and of no others.
Arrive(events) ==
  /\ events \subseteq 1 .. known
  /\ arrived' = arrived \cup events
  /\ held' \in {held, held \ events}
  /\ UNCHANGED <<known, dropped>>

GiveUp(events) ==
  /\ events \subseteq held
  /\ held' = held \ events
  /\ dropped' = dropped \cup events
  /\ UNCHANGED <<known, arrived>>

Next ==
  \E events \in SUBSET (1 .. known) :
    Create(events) \/ Arrive(events) \/ GiveUp(events)

Spec == Init /\ [][Next]_vars
=============================================================================
