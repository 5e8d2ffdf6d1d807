---------------------------- MODULE MCDiskQueue ----------------------------
(* DiskQueue on a small instance: a body of one event and a body of two, and *)
(* clock readings of two digits, as UnixNano has 19 from 2001 to 2286.       *)
EXTENDS DiskQueue

TwoBodies == {[kind |-> "payload", events |-> {1}, device |-> TRUE],
              [kind |-> "array", events |-> {1, 2}, device |-> FALSE]}
Readings  == 10 .. 14
=============================================================================
