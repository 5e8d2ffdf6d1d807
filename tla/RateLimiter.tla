---------------------------- MODULE RateLimiter ----------------------------
(***************************************************************************)
(* RedisManager.check_rate_limit (core/redis.py) for one key: the counter  *)
(* is incremented and its expiry renewed in one MULTI, by any process, and *)
(* the request is allowed while the counter is within the limit.  Redis    *)
(* drops the key when nothing has renewed it for a window.                 *)
(***************************************************************************)
EXTENDS Integers, Sequences, FiniteSets

CONSTANTS
  MaxRequests,       \* max_requests
  Window,            \* window_seconds, in ticks
  MaxAsked, MaxClock \* bounds

ASSUME RateLimiterAssumption ==
  /\ MaxRequests \in Nat /\ Window \in Nat \ {0}
  /\ MaxAsked \in Nat /\ MaxClock \in Nat

VARIABLES
  current,  \* the counter, 0 when there is no key
  expires,  \* when Redis drops it
  clock,
  log       \* the requests so far: when, and whether they were allowed

limiterVars == <<current, expires, clock, log>>

\* A change of Renewed: the expiry is set with the first request only.
RenewedOnce == IF current = 0 THEN clock + Window ELSE expires

Renewed == clock + Window

CheckRateLimit ==
  /\ Len(log) < MaxAsked
  /\ current' = current + 1
  /\ expires' = Renewed
  /\ log' = Append(log, [at |-> clock, allowed |-> current + 1 <= MaxRequests])
  /\ UNCHANGED clock

TimePasses ==
  /\ clock < MaxClock
  /\ clock' = clock + 1
  /\ current' = IF clock + 1 >= expires THEN 0 ELSE current
  /\ UNCHANGED <<expires, log>>

LimiterInit == current = 0 /\ expires = 0 /\ clock = 0 /\ log = <<>>

LimiterNext == CheckRateLimit \/ TimePasses

-----------------------------------------------------------------------------
Entry == [at : 0 .. MaxClock, allowed : BOOLEAN]

LimiterTypeOK ==
  /\ current \in 0 .. MaxAsked /\ expires \in 0 .. MaxClock + Window
  /\ clock \in 0 .. MaxClock
  /\ \A i \in DOMAIN log : log[i] \in Entry

\* The limit holds over every window, wherever it begins (a sliding window, as
\* the function says); and a request is refused only if the client has been
\* asking without a pause of one window, refused requests included, so that a
\* client that keeps asking is refused for ever.
SlidingLimit ==
  /\ \A t \in 0 .. clock :
       Cardinality({i \in DOMAIN log : log[i].allowed /\ log[i].at \in t .. t + Window - 1})
         <= MaxRequests
  /\ \A i \in DOMAIN log : ~log[i].allowed =>
       /\ i > MaxRequests
       /\ \A j \in i - MaxRequests + 1 .. i : log[j].at - log[j - 1].at < Window
=============================================================================
