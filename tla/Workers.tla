------------------------------ MODULE Workers ------------------------------
(***************************************************************************)
(* What the worker processes of the backend keep outside the database: the *)
(* keys of their tokens, their registries of agent versions, the counters  *)
(* they share in Redis, and the telemetry stream with the sockets it       *)
(* feeds.  The four do not depend on each other; a behaviour moves one.    *)
(***************************************************************************)
EXTENDS Sessions, AgentUpdates, RateLimiter, AlertStream

CONSTANT Parts     \* bound: the parts that a run looks at

VARIABLE part

vars == <<part, sessionVars, updateVars, limiterVars, streamVars>>

Init ==
  /\ part \in Parts
  /\ SessionsInit /\ UpdateInit /\ LimiterInit /\ StreamInit
  /\ part # "sessions" => configured /\ ~local
  /\ part # "updates" => builtIn = 1
  /\ part # "stream" => autoAck /\ columns = AlertColumns  /\ todo = [b \in Batches |-> <<>>]

Next ==
  /\ UNCHANGED part
  /\ \/ part = "sessions" /\ SessionsNext /\ UNCHANGED <<updateVars, limiterVars, streamVars>>
     \/ part = "updates" /\ UpdateNext /\ UNCHANGED <<sessionVars, limiterVars, streamVars>>
     \/ part = "limiter" /\ LimiterNext /\ UNCHANGED <<sessionVars, updateVars, streamVars>>
     \/ part = "stream" /\ StreamNext /\ UNCHANGED <<sessionVars, updateVars, limiterVars>>

Spec == Init /\ [][Next]_vars

\* The states of the four parts have their types.
TypeOK == SessionsTypeOK /\ UpdateTypeOK /\ LimiterTypeOK /\ StreamTypeOK
=============================================================================
