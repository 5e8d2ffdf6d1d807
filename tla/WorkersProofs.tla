---------------------------- MODULE WorkersProofs ----------------------------
(***************************************************************************)
(* Proofs about the parts of Workers that share nothing but the process:   *)
(* the tokens (rights are those of the user's row, and a token with the    *)
(* configured key is honoured everywhere), the registries of agent         *)
(* versions (what takes an agent back), and the rate limiter (the limit    *)
(* holds over every window).                                               *)
(***************************************************************************)
EXTENDS Workers, FiniteSetTheorems, FunctionTheorems, SequenceTheorems, TLAPS

-----------------------------------------------------------------------------
(* The rate limiter.  The last `current` entries of the log are a run:      *)
(* each came within a window of the one before, the first of them at least  *)
(* a window after all that went before, and the first MaxRequests of the    *)
(* run were allowed.                                                        *)

Before == Len(log) - current

Logged == [at : Nat, allowed : BOOLEAN]

LimiterShape ==
  /\ clock \in Nat /\ expires \in Nat /\ log \in Seq(Logged)
  /\ current \in 0 .. Len(log)

Ordered ==
  /\ \A i \in DOMAIN log : log[i].at <= clock
  /\ \A i, j \in DOMAIN log : i <= j => log[i].at <= log[j].at

Expiry ==
  /\ current > 0 => clock < expires /\ expires = log[Len(log)].at + Window
  /\ current = 0 => \A i \in DOMAIN log : log[i].at + Window <= clock

Run ==
  /\ \A i \in 1 .. Before, j \in Before + 1 .. Len(log) : log[i].at + Window <= log[j].at
  /\ \A i \in Before + 1 .. Len(log) : log[i].allowed <=> i <= Before + MaxRequests
  /\ \A i \in Before + 2 .. Len(log) : log[i].at - log[i - 1].at < Window

Allowed(t) == {i \in DOMAIN log : log[i].allowed /\ log[i].at \in t .. t + Window - 1}

\* What is allowed in a window are requests that follow each other.
Windows == \A t \in 0 .. clock : \E k \in Nat : Allowed(t) \subseteq k + 1 .. k + MaxRequests

Refusals ==
  \A i \in DOMAIN log : ~log[i].allowed =>
    /\ i > MaxRequests
    /\ \A j \in i - MaxRequests + 1 .. i : log[j].at - log[j - 1].at < Window

LimiterInv == LimiterShape /\ Ordered /\ Expiry /\ Run /\ Windows /\ Refusals

\* What the shape says of the log.
LEMMA LogEntries ==
  ASSUME LimiterShape
  PROVE  /\ Len(log) \in Nat /\ DOMAIN log = 1 .. Len(log)
         /\ \A i \in 1 .. Len(log) : log[i].at \in Nat /\ log[i].allowed \in BOOLEAN
<1>1. \A i \in 1 .. Len(log) : log[i] \in Logged
  BY DEF LimiterShape
<1>2. \A r \in Logged : r.at \in Nat /\ r.allowed \in BOOLEAN
  BY DEF Logged
<1>3. Len(log) \in Nat /\ DOMAIN log = 1 .. Len(log)
  BY DEF LimiterShape
<1> QED BY <1>1, <1>2, <1>3

\* At first there is no counter and no request.
LEMMA LimiterInitial ==
  ASSUME LimiterInit
  PROVE  LimiterInv
<1>1. LimiterShape /\ DOMAIN log = {} /\ Len(log) = 0 /\ current = 0
  BY DEF LimiterInit, LimiterShape
<1>2. Before = 0
  BY <1>1 DEF Before
<1>3. Windows
  BY <1>1 DEF Windows, Allowed
<1> QED
  BY <1>1, <1>2, <1>3 DEF LimiterInv, Ordered, Expiry, Run, Refusals

\* A request extends the run, or begins one after the counter has expired.
LEMMA RequestStep ==
  ASSUME LimiterInv, CheckRateLimit
  PROVE  LimiterInv'
<1> USE RateLimiterAssumption
<1> DEFINE n == Len(log)
           e == [at |-> clock, allowed |-> current + 1 <= MaxRequests]
<1>1. n \in Nat /\ DOMAIN log = 1 .. n /\ current \in 0 .. n /\ clock \in Nat
  BY DEF LimiterInv, LimiterShape
<1>2. e \in Logged
  BY <1>1 DEF Logged
<1>3. /\ log' \in Seq(Logged)
      /\ Len(log') = n + 1 /\ DOMAIN log' = 1 .. n + 1
      /\ \A i \in 1 .. n : log'[i] = log[i]
      /\ log'[n + 1] = e
  BY <1>2, AppendProperties DEF CheckRateLimit, LimiterInv, LimiterShape
<1>4. \A i \in 1 .. n : log[i].at \in Nat /\ log[i].allowed \in BOOLEAN
  BY LogEntries DEF LimiterInv
<1>5. current' = current + 1 /\ expires' = clock + Window /\ clock' = clock
  BY DEF CheckRateLimit, Renewed
<1>6. Before' = n - current /\ Before' = Before
  BY <1>1, <1>3, <1>5 DEF Before
<1> DEFINE b == Before
<1>7. b \in 0 .. n /\ b + current = n
  BY <1>1 DEF Before
<1>8. log'[n + 1].at = clock /\ (log'[n + 1].allowed <=> n + 1 <= b + MaxRequests)
  <2>1. e.at = clock /\ e.allowed = (current + 1 <= MaxRequests)
    OBVIOUS
  <2>2. current + 1 <= MaxRequests <=> n + 1 <= b + MaxRequests
    BY <1>1, <1>7
  <2> HIDE DEF e
  <2> QED BY <1>3, <2>1, <2>2
<1> HIDE DEF n, e, b
<1>9. LimiterShape'
  BY <1>1, <1>3, <1>5 DEF LimiterShape, n
<1>10. Ordered'
  <2>1. \A i \in 1 .. n : log[i].at <= clock
    BY <1>1 DEF LimiterInv, Ordered
  <2>2. \A i \in 1 .. n + 1 : log'[i].at <= clock
    BY <1>1, <1>3, <1>8, <2>1
  <2>3. ASSUME NEW i \in 1 .. n + 1, NEW j \in 1 .. n + 1, i <= j
        PROVE  log'[i].at <= log'[j].at
    <3>1. CASE j = n + 1
      BY <1>8, <2>2, <3>1
    <3>2. CASE j # n + 1
      <4>1. i \in 1 .. n /\ j \in 1 .. n
        BY <1>1, <2>3, <3>2
      <4> QED BY <1>1, <1>3, <2>3, <4>1 DEF LimiterInv, Ordered
    <3> QED BY <3>1, <3>2
  <2> QED BY <1>3, <1>5, <2>2, <2>3 DEF Ordered
<1>11. Expiry'
  BY <1>1, <1>3, <1>5, <1>8 DEF Expiry, n
<1>12. Run'
  <2>1. ASSUME NEW i \in 1 .. b, NEW j \in b + 1 .. n + 1
        PROVE  log'[i].at + Window <= log'[j].at
    <3>1. i \in 1 .. n /\ log'[i] = log[i]
      BY <1>1, <1>3, <1>7
    <3>2. CASE j # n + 1
      <4>1. j \in b + 1 .. n /\ log'[j] = log[j]
        BY <1>1, <1>3, <1>7, <2>1, <3>2
      <4> QED BY <2>1, <3>1, <4>1 DEF LimiterInv, Run, b, n
    <3>3. CASE j = n + 1 /\ current = 0
      BY <1>1, <1>8, <3>1, <3>3 DEF LimiterInv, Expiry
    <3>4. CASE j = n + 1 /\ current > 0
      <4>1. n \in b + 1 .. n /\ n \in 1 .. n
        BY <1>1, <1>7, <3>4
      <4>2. log[i].at + Window <= log[n].at
        BY <2>1, <4>1 DEF LimiterInv, Run, b, n
      <4>3. log[n].at <= clock
        BY <1>1, <4>1 DEF LimiterInv, Ordered
      <4> QED BY <1>1, <1>4, <1>8, <3>1, <3>4, <4>1, <4>2, <4>3
    <3> QED BY <1>1, <3>2, <3>3, <3>4
  <2>2. ASSUME NEW i \in b + 1 .. n + 1
        PROVE  log'[i].allowed <=> i <= b + MaxRequests
    <3>1. CASE i = n + 1
      BY <1>8, <3>1
    <3>2. CASE i # n + 1
      BY <1>1, <1>3, <1>7, <3>2 DEF LimiterInv, Run, b, n
    <3> QED BY <3>1, <3>2
  <2>3. ASSUME NEW i \in b + 2 .. n + 1
        PROVE  log'[i].at - log'[i - 1].at < Window
    <3>1. CASE i = n + 1
      <4>1. current > 0 /\ n \in 1 .. n
        BY <1>1, <1>7, <2>3, <3>1
      <4>2. clock < log[n].at + Window
        BY <4>1 DEF LimiterInv, Expiry, n
      <4> QED BY <1>1, <1>3, <1>4, <1>8, <3>1, <4>1, <4>2
    <3>2. CASE i # n + 1
      <4>1. i \in b + 2 .. n /\ i \in 1 .. n /\ i - 1 \in 1 .. n
        BY <1>1, <1>7, <2>3, <3>2
      <4> QED BY <1>3, <4>1 DEF LimiterInv, Run, b, n
    <3> QED BY <3>1, <3>2
  <2>4. Before' = b /\ Len(log') = n + 1
    BY <1>3, <1>6 DEF b
  <2> QED BY <2>1, <2>2, <2>3, <2>4 DEF Run
<1>13. Windows'
  <2> SUFFICES ASSUME NEW t \in 0 .. clock
               PROVE  \E k \in Nat : Allowed(t)' \subseteq k + 1 .. k + MaxRequests
    BY <1>5 DEF Windows
  <2>0. t \in Nat /\ t <= clock
    BY <1>1
  <2>1. CASE clock \in t .. t + Window - 1
    <3>1. b \in Nat
      BY <1>1, <1>7
    <3>2. ASSUME NEW i \in Allowed(t)' PROVE i \in b + 1 .. b + MaxRequests
      <4>1. i \in 1 .. n + 1 /\ log'[i].allowed /\ log'[i].at >= t
        BY <1>3, <2>0 DEF Allowed
      <4>2. i > b
        <5> SUFFICES ASSUME i <= b PROVE FALSE
          BY <1>1, <1>7, <4>1
        <5>1. i \in 1 .. b /\ n + 1 \in b + 1 .. n + 1 /\ i \in 1 .. n
          BY <1>1, <1>7, <4>1
        <5>2. log'[i].at + Window <= log'[n + 1].at
          BY <1>3, <1>6, <1>12, <5>1 DEF Run, b
        <5>3. log'[i].at \in Nat
          BY <1>3, <1>4, <5>1
        <5> QED BY <1>1, <1>8, <2>0, <2>1, <4>1, <5>2, <5>3
      <4>3. i \in b + 1 .. n + 1
        BY <1>1, <1>7, <4>1, <4>2
      <4>4. i <= b + MaxRequests
        BY <1>3, <1>6, <1>12, <4>1, <4>3 DEF Run, b
      <4> QED BY <1>1, <1>7, <4>3, <4>4
    <3> QED BY <3>1, <3>2
  <2>2. CASE clock \notin t .. t + Window - 1
    <3>1. PICK k \in Nat : Allowed(t) \subseteq k + 1 .. k + MaxRequests
      BY DEF LimiterInv, Windows
    <3>2. Allowed(t)' \subseteq Allowed(t)
      <4> SUFFICES ASSUME NEW i \in Allowed(t)' PROVE i \in Allowed(t)
        OBVIOUS
      <4>1. i \in 1 .. n + 1 /\ log'[i].allowed /\ log'[i].at \in t .. t + Window - 1
        BY <1>3 DEF Allowed
      <4>2. i # n + 1
        BY <1>8, <2>2, <4>1
      <4>3. i \in 1 .. n
        BY <1>1, <4>1, <4>2
      <4> QED BY <1>1, <1>3, <4>1, <4>3 DEF Allowed
    <3> QED BY <3>1, <3>2
  <2> QED BY <2>1, <2>2
<1>14. Refusals'
  <2> SUFFICES ASSUME NEW i \in 1 .. n + 1, ~log'[i].allowed
               PROVE  /\ i > MaxRequests
                      /\ \A j \in i - MaxRequests + 1 .. i :
                           log'[j].at - log'[j - 1].at < Window
    BY <1>3 DEF Refusals
  <2>1. CASE i = n + 1
    <3>1. n + 1 > b + MaxRequests
      BY <1>1, <1>7, <1>8, <2>1
    <3>2. \A j \in i - MaxRequests + 1 .. i : j \in b + 2 .. n + 1
      BY <1>1, <1>7, <2>1, <3>1
    <3> QED BY <1>1, <1>3, <1>6, <1>7, <1>12, <2>1, <3>1, <3>2 DEF Run, b
  <2>2. CASE i # n + 1
    <3>1. i \in 1 .. n /\ log'[i] = log[i]
      BY <1>1, <1>3, <2>2
    <3>2. i > MaxRequests /\ \A j \in i - MaxRequests + 1 .. i :
                               log[j].at - log[j - 1].at < Window
      BY <1>1, <3>1 DEF LimiterInv, Refusals
    <3>3. \A j \in i - MaxRequests + 1 .. i : j \in 1 .. n /\ j - 1 \in 0 .. n
      BY <1>1, <3>1, <3>2
    <3>4. ASSUME NEW j \in i - MaxRequests + 1 .. i
          PROVE  log'[j].at - log'[j - 1].at < Window
      <4>1. j - 1 \in 1 .. n
        BY <1>1, <3>1, <3>2
      <4> QED BY <1>3, <3>2, <3>3, <4>1
    <3> QED BY <3>2, <3>4
  <2> QED BY <2>1, <2>2
<1> QED BY <1>9, <1>10, <1>11, <1>12, <1>13, <1>14 DEF LimiterInv

\* When the counter expires, every request is a window old.
LEMMA TimeStep ==
  ASSUME LimiterInv, TimePasses
  PROVE  LimiterInv'
<1> USE RateLimiterAssumption
<1>1. /\ log' = log /\ clock' = clock + 1 /\ expires' = expires
      /\ current' = IF clock + 1 >= expires THEN 0 ELSE current
  BY DEF TimePasses
<1>2. /\ Len(log) \in Nat /\ DOMAIN log = 1 .. Len(log) /\ current \in 0 .. Len(log)
      /\ clock \in Nat /\ expires \in Nat
      /\ \A i \in 1 .. Len(log) : log[i].at \in Nat /\ log[i].allowed \in BOOLEAN
  BY LogEntries DEF LimiterInv, LimiterShape
<1>3. LimiterShape' /\ Ordered'
  BY <1>1, <1>2 DEF LimiterInv, LimiterShape, Ordered
<1>4. Windows'
  <2> SUFFICES ASSUME NEW t \in 0 .. clock + 1
               PROVE  \E k \in Nat : Allowed(t) \subseteq k + 1 .. k + MaxRequests
    BY <1>1 DEF Windows, Allowed
  <2>1. CASE t = clock + 1
    <3>1. \A i \in 1 .. Len(log) : log[i].at <= clock
      BY <1>2 DEF LimiterInv, Ordered
    <3>2. Allowed(t) = {}
      BY <1>2, <2>1, <3>1 DEF Allowed
    <3> QED BY <3>2
  <2>2. CASE t # clock + 1
    <3>1. t \in 0 .. clock
      BY <1>2, <2>2
    <3> QED BY <3>1 DEF LimiterInv, Windows
  <2> QED BY <2>1, <2>2
<1>5. Refusals'
  BY <1>1 DEF LimiterInv, Refusals
<1>6. CASE current' = current
  <2>1. Expiry'
    BY <1>1, <1>2, <1>6 DEF LimiterInv, Expiry
  <2>2. Run'
    BY <1>1, <1>6 DEF LimiterInv, Run, Before
  <2> QED BY <1>3, <1>4, <1>5, <2>1, <2>2 DEF LimiterInv
<1>7. CASE current > 0 /\ current' = 0 /\ clock + 1 >= expires
  <2>1. \A i \in 1 .. Len(log) : log[i].at + Window <= clock + 1
    BY <1>2, <1>7 DEF LimiterInv, Expiry, Ordered
  <2>2. Expiry'
    BY <1>1, <1>2, <1>7, <2>1 DEF Expiry
  <2>3. Before' = Len(log)
    BY <1>1, <1>2, <1>7 DEF Before
  <2>4. Run'
    BY <1>1, <1>2, <2>3 DEF Run
  <2> QED BY <1>3, <1>4, <1>5, <2>2, <2>4 DEF LimiterInv
<1> QED BY <1>1, <1>2, <1>6, <1>7

\* The invariant bounds the requests allowed in a window.
LEMMA WindowsLimit ==
  ASSUME LimiterInv
  PROVE  SlidingLimit
<1> USE RateLimiterAssumption
<1>1. ASSUME NEW t \in 0 .. clock PROVE Cardinality(Allowed(t)) <= MaxRequests
  <2>1. PICK k \in Nat : Allowed(t) \subseteq k + 1 .. k + MaxRequests
    BY DEF LimiterInv, Windows
  <2>2. /\ IsFiniteSet(k + 1 .. k + MaxRequests)
        /\ Cardinality(k + 1 .. k + MaxRequests) = MaxRequests
    <3>1. k + 1 \in Int /\ k + MaxRequests \in Int
      OBVIOUS
    <3>2. (IF k + 1 > k + MaxRequests THEN 0 ELSE k + MaxRequests - (k + 1) + 1) = MaxRequests
      OBVIOUS
    <3> QED BY <3>1, <3>2, FS_Interval
  <2>3. Cardinality(Allowed(t)) <= Cardinality(k + 1 .. k + MaxRequests)
    BY <2>1, <2>2, FS_Subset
  <2> QED BY <2>2, <2>3
<1> QED BY <1>1 DEF LimiterInv, Refusals, SlidingLimit, Allowed

\* The bounds of the limiter's state.
LEMMA LimiterTyped ==
  /\ LimiterInit => LimiterTypeOK
  /\ LimiterTypeOK /\ LimiterInv /\ LimiterNext => LimiterTypeOK'
<1> USE RateLimiterAssumption
<1>1. LimiterInit => LimiterTypeOK
  BY DEF LimiterInit, LimiterTypeOK
<1>2. ASSUME LimiterTypeOK, LimiterInv, TimePasses PROVE LimiterTypeOK'
  BY <1>2 DEF TimePasses, LimiterTypeOK
<1>3. ASSUME LimiterTypeOK, LimiterInv, CheckRateLimit PROVE LimiterTypeOK'
  <2> DEFINE e == [at |-> clock, allowed |-> current + 1 <= MaxRequests]
  <2>1. /\ Len(log) \in Nat /\ DOMAIN log = 1 .. Len(log) /\ current \in 0 .. Len(log)
        /\ Len(log) < MaxAsked
    BY <1>3, LogEntries DEF LimiterInv, LimiterShape, CheckRateLimit
  <2>2. e \in Entry /\ e \in Logged
    BY <1>3 DEF Entry, Logged, LimiterTypeOK
  <2>3. /\ DOMAIN log' = 1 .. Len(log) + 1 /\ log'[Len(log) + 1] = e
        /\ \A i \in 1 .. Len(log) : log'[i] = log[i]
    BY <1>3, <2>2, AppendProperties DEF CheckRateLimit, LimiterInv, LimiterShape
  <2> HIDE DEF e
  <2>4. \A i \in DOMAIN log' : log'[i] \in Entry
    <3>1. 1 .. Len(log) + 1 = (1 .. Len(log)) \cup {Len(log) + 1}
      BY <2>1
    <3> QED BY <1>3, <2>1, <2>2, <2>3, <3>1 DEF LimiterTypeOK
  <2> QED BY <1>3, <2>1, <2>4 DEF LimiterTypeOK, CheckRateLimit, Renewed
<1> QED BY <1>1, <1>2, <1>3 DEF LimiterNext

-----------------------------------------------------------------------------
(* Agent updates.  What a process has published and holds no more, or an    *)
(* upload that is still being read, is older than what came after it only   *)
(* if the two uploads overlapped.                                           *)

UpdateInv ==
  /\ UpdateTypeOK /\ builtIn \in {0, 1}
  /\ \A u \in uploads : u.version <= released
  /\ \A w \in Workers : \A v \in published[w] : v <= released
  /\ \A u, x \in uploads : x.version > u.version => u.version \in crossed
  /\ \A u \in uploads, w \in Workers : \A v \in published[w] :
       v > u.version => u.version \in crossed
  /\ \A w \in Workers : \A v \in published[w] :
       v > registry[w] => registry[w] \in crossed

\* At first nothing has been published.
LEMMA UpdateInitial ==
  ASSUME UpdateInit
  PROVE  UpdateInv
BY AgentUpdatesAssumption DEF UpdateInit, UpdateInv, UpdateTypeOK, Versions

\* An upload that begins has the newest version; those it meets are marked.
LEMMA StartUploadStep ==
  ASSUME UpdateInv, NEW w \in Workers, StartUpload(w)
  PROVE  UpdateInv'
<1> USE AgentUpdatesAssumption
<1>1. PICK v \in {released, released + 1} :
        /\ v <= MaxVersion /\ released' = v
        /\ uploads' = uploads \cup {[worker |-> w, version |-> v]}
        /\ crossed' = crossed \cup {u.version : u \in {x \in uploads : x.version < v}}
  BY DEF StartUpload
<1>2. /\ started' = started + 1 /\ started < MaxUploads
      /\ UNCHANGED <<builtIn, registry, agent, published>>
  BY DEF StartUpload
<1>3. v \in Versions /\ v >= released /\ released \in Nat
  BY <1>1 DEF UpdateInv, UpdateTypeOK, Versions
<1>4. ASSUME NEW u \in uploads'
      PROVE  /\ u.worker \in Workers /\ u.version \in Versions /\ u.version <= v
             /\ u \notin uploads => u.version = v
             /\ u.version < v => u.version \in crossed'
  <2>1. CASE u \in uploads
    BY <1>1, <1>3, <2>1 DEF UpdateInv, UpdateTypeOK, Versions
  <2>2. CASE u = [worker |-> w, version |-> v]
    BY <1>3, <2>2 DEF Versions
  <2> QED BY <1>1, <2>1, <2>2
<1>5. crossed \subseteq crossed' /\ crossed' \subseteq Versions
  BY <1>1 DEF UpdateInv, UpdateTypeOK
<1>6. UpdateTypeOK'
  BY <1>1, <1>2, <1>3, <1>4, <1>5 DEF UpdateInv, UpdateTypeOK
<1>7. \A x \in Workers : \A k \in published'[x] : k <= v /\ k \in Nat
  BY <1>2, <1>3 DEF UpdateInv, UpdateTypeOK, Versions
<1>8. \A u, x \in uploads' : x.version > u.version => u.version \in crossed'
  BY <1>3, <1>4 DEF Versions
<1>9. \A u \in uploads', x \in Workers : \A k \in published'[x] :
        k > u.version => u.version \in crossed'
  BY <1>3, <1>4, <1>7 DEF Versions
<1> QED BY <1>1, <1>2, <1>4, <1>5, <1>6, <1>7, <1>8, <1>9 DEF UpdateInv

\* An upload that has been read replaces the entry.
LEMMA FinishUploadStep ==
  ASSUME UpdateInv, NEW u \in uploads, FinishUpload(u)
  PROVE  UpdateInv'
<1>1. /\ uploads' = uploads \ {u}
      /\ registry' = [registry EXCEPT ![u.worker] = u.version]
      /\ published' = [published EXCEPT ![u.worker] = @ \cup {u.version}]
      /\ UNCHANGED <<builtIn, released, started, agent, crossed>>
  BY DEF FinishUpload, Publish
<1>2. u.worker \in Workers /\ u.version \in Versions
  BY DEF UpdateInv, UpdateTypeOK
<1>3. UpdateTypeOK'
  BY <1>1, <1>2 DEF UpdateInv, UpdateTypeOK
<1>4. \A w \in Workers : \A v \in published'[w] :
        v \in published[w] \/ (w = u.worker /\ v = u.version)
  BY <1>1, <1>2 DEF UpdateInv, UpdateTypeOK
<1>5. \A w \in Workers : w # u.worker => registry'[w] = registry[w]
  BY <1>1 DEF UpdateInv, UpdateTypeOK
<1>6. registry'[u.worker] = u.version
  BY <1>1, <1>2 DEF UpdateInv, UpdateTypeOK
<1>7. ~(u.version > u.version)
  BY <1>2 DEF Versions
<1>8. \A w \in Workers : \A v \in published'[w] :
        v > registry'[w] => registry'[w] \in crossed'
  BY <1>1, <1>4, <1>5, <1>6, <1>7 DEF UpdateInv
<1>9. \A x \in uploads', w \in Workers : \A v \in published'[w] :
        v > x.version => x.version \in crossed'
  BY <1>1, <1>4 DEF UpdateInv
<1> QED BY <1>1, <1>3, <1>4, <1>8, <1>9 DEF UpdateInv

\* Every step of the registries keeps their invariant.
LEMMA UpdateStep ==
  ASSUME UpdateInv, UpdateNext
  PROVE  UpdateInv'
<1>1. ASSUME NEW w \in Workers, CheckForUpdate(w) PROVE UpdateInv'
  BY <1>1 DEF CheckForUpdate, UpdateInv, UpdateTypeOK
<1>2. ASSUME NEW w \in Workers, RestartProcess(w) PROVE UpdateInv'
  <2>1. /\ registry' \in [Workers -> Versions] /\ published' \in [Workers -> SUBSET Versions]
        /\ \A x \in Workers : \/ published'[x] = {}
                              \/ published'[x] = published[x] /\ registry'[x] = registry[x]
    BY <1>2, AgentUpdatesAssumption DEF RestartProcess, UpdateInv, UpdateTypeOK, Versions
  <2>2. uploads' \subseteq uploads /\ UNCHANGED <<builtIn, released, started, agent, crossed>>
    BY <1>2 DEF RestartProcess
  <2> QED BY <2>1, <2>2 DEF UpdateInv, UpdateTypeOK
<1> QED
  BY <1>1, <1>2, StartUploadStep, FinishUploadStep DEF UpdateNext

\* What an offer of an older version comes from.
LEMMA OfferExplained ==
  ASSUME UpdateInv, UpdateNext, agent' < agent
  PROVE  \E w \in Workers : /\ registry[w] = agent'
                            /\ agent \notin published[w] \/ agent' \in crossed
<1>1. agent \in Nat
  BY DEF UpdateInv, UpdateTypeOK, Versions
<1>2. agent' # agent
  BY <1>1
<1>3. PICK w \in Workers : CheckForUpdate(w)
  BY <1>2 DEF UpdateNext, StartUpload, FinishUpload, RestartProcess
<1>4. agent' = registry[w] /\ registry[w] \in Nat
  BY <1>3 DEF CheckForUpdate, UpdateInv, UpdateTypeOK, Versions
<1>5. agent \in published[w] => agent' \in crossed
  BY <1>1, <1>4 DEF UpdateInv
<1> QED BY <1>4, <1>5

-----------------------------------------------------------------------------
(* Sessions.  With the key configured, every process and token has it.      *)

SessionsInv ==
  /\ SessionsTypeOK
  /\ restarts \in 0 .. MaxRestarts
  /\ configured /\ ~local => /\ \A w \in Procs : signing[w] = 0
                             /\ \A t \in tokens : t.key = 0
  /\ TokensHonoured

\* There is an assignment of different keys to the processes.
LEMMA KeysAreDrawn == DrawnKeys \in [Procs -> 0 .. Cardinality(Procs) - 1]
<1> DEFINE n == Cardinality(Procs)
<1>1. n \in Nat /\ ExistsBijection(1 .. n, Procs)
  BY SessionsAssumption, FS_CardinalityType
<1>2. PICK g \in Bijection(Procs, 1 .. n) : TRUE
  BY <1>1, Fun_ExistsBijSymmetric DEF ExistsBijection
<1>3. /\ g \in [Procs -> 1 .. n]
      /\ \A v, w \in Procs : g[v] = g[w] => v = w
  BY <1>2 DEF Bijection, Injection, IsInjective
<1> HIDE DEF n
<1> DEFINE f == [w \in Procs |-> g[w] - 1]
<1>4. f \in [Procs -> 0 .. n - 1]
  BY <1>1, <1>3
<1>5. \A v, w \in Procs : f[v] = f[w] => v = w
  BY <1>1, <1>3
<1> QED BY <1>4, <1>5 DEF DrawnKeys, n

\* At first no token has been issued; with the key configured all have it.
LEMMA SessionsInitial ==
  ASSUME SessionsInit, configured \in BOOLEAN, local \in BOOLEAN
  PROVE  SessionsInv
<1>1. Cardinality(Procs) \in Nat
  BY SessionsAssumption, FS_CardinalityType
<1>2. LocalProc \in Procs => Cardinality(Procs) > 0
  BY <1>1, SessionsAssumption, FS_EmptySet
<1>3. signing \in [Procs -> 0 .. Cardinality(Procs) + MaxRestarts]
  BY <1>1, <1>2, KeysAreDrawn, SessionsAssumption DEF SessionsInit
<1>4. configured => \A w \in Procs : signing[w] = 0
  BY DEF SessionsInit
<1>5. users \in [Users -> [role : Roles, active : BOOLEAN]]
  BY DEF SessionsInit, Roles
<1>6. reply.code # "401"
  BY DEF SessionsInit, NoReply
<1>7. tokens = {} /\ now = 0 /\ restarts = 0
  BY DEF SessionsInit
<1> QED
  BY <1>3, <1>4, <1>5, <1>6, <1>7, SessionsAssumption
  DEF SessionsInv, SessionsTypeOK, TokensHonoured

\* The tokens of a login or a refresh.
LEMMA NewTokens ==
  ASSUME SessionsInv, NEW w \in Procs, NEW u \in Users,
         NEW t \in {AccessToken(w, u), RefreshToken(w, u)}
  PROVE  /\ t.user = u /\ t.key = signing[w]
         /\ t.exp \in 0 .. MaxTime + RefreshLife
         /\ t.type = "access" <=> t.role \in Roles
<1> USE SessionsAssumption
<1>1. now \in 0 .. MaxTime /\ users[u].role \in Roles
  BY DEF SessionsInv, SessionsTypeOK
<1>2. CASE t = AccessToken(w, u)
  BY <1>1, <1>2 DEF AccessToken
<1>3. CASE t = RefreshToken(w, u)
  BY <1>1, <1>3 DEF RefreshToken, Roles
<1> QED BY <1>2, <1>3

\* A step that issues tokens of one user, or none, and is not a restart.
LEMMA IssueKeeps ==
  ASSUME SessionsInv, NEW w \in Procs, NEW u \in Users,
         \/ tokens' = tokens \cup {AccessToken(w, u), RefreshToken(w, u)}
         \/ tokens' = tokens,
         UNCHANGED <<configured, local, signing, restarts, users, now>>,
         TokensHonoured'
  PROVE  SessionsInv'
<1>1. ASSUME NEW t \in tokens', t \notin tokens
      PROVE  /\ t.user \in Users /\ t.exp \in 0 .. MaxTime + RefreshLife
             /\ t.type = "access" <=> t.role \in Roles
             /\ t.key = signing[w]
  <2>1. t \in {AccessToken(w, u), RefreshToken(w, u)}
    BY <1>1
  <2> QED BY <2>1, NewTokens
<1>2. SessionsTypeOK'
  BY <1>1 DEF SessionsInv, SessionsTypeOK
<1> QED BY <1>1, <1>2 DEF SessionsInv

\* The answer to a request or a refresh.
LEMMA AnswerHonours ==
  ASSUME SessionsInv, NEW w \in Procs, NEW t \in tokens, NEW takes, NEW code,
         Answer(w, t, takes, code),
         UNCHANGED <<configured, local, signing, users, now>>,
         code = "401" => \/ ~Decodes(w, t) \/ t.type # takes
                         \/ ~local /\ ~users[t.user].active
  PROVE  TokensHonoured'
<1>1. /\ reply'.code = code /\ reply'.worker = w
      /\ reply'.token = t /\ reply'.takes = takes
  BY DEF Answer
<1>2. t.exp \in Nat /\ now \in Nat
  BY SessionsAssumption DEF SessionsInv, SessionsTypeOK
<1>3. ~Decodes(w, t) => t.exp < now \/ (t.key # signing[w] /\ (configured => local))
  BY <1>2 DEF Decodes, SessionsInv
<1> QED BY <1>1, <1>3 DEF TokensHonoured

\* Every step of the sessions keeps their invariant.
LEMMA SessionsStep ==
  ASSUME SessionsInv, SessionsNext
  PROVE  SessionsInv'
<1> USE SessionsAssumption
<1>0. reply' = NoReply => TokensHonoured'
  BY DEF NoReply, TokensHonoured
<1>1. ASSUME NEW w \in Procs, NEW u \in Users, Login(w, u) \/ LocalLogin(w, u)
      PROVE  SessionsInv'
  <2>1. /\ \/ tokens' = tokens \cup {AccessToken(w, u), RefreshToken(w, u)}
           \/ tokens' = tokens
        /\ UNCHANGED <<configured, local, signing, restarts, users, now>>
        /\ reply' = NoReply
    BY <1>1 DEF Login, LocalLogin, Issue, LocalTokens
  <2> QED BY <1>0, <2>1, IssueKeeps
<1>2. ASSUME NEW w \in Procs, NEW t \in tokens, Refresh(w, t) PROVE SessionsInv'
  <2>1. UNCHANGED <<configured, local, signing, restarts, users, now>>
    BY <1>2 DEF Refresh
  <2>2. t.user \in Users
    BY DEF SessionsInv, SessionsTypeOK
  <2>3. CASE Decodes(w, t) /\ t.type = "refresh" /\ users[t.user].active
    <3>1. /\ tokens' = tokens \cup {AccessToken(w, t.user), RefreshToken(w, t.user)}
          /\ Answer(w, t, "refresh", "refreshed")
      BY <1>2, <2>3 DEF Refresh, Issue
    <3>2. TokensHonoured'
      BY <2>1, <3>1, AnswerHonours
    <3> QED BY <2>1, <2>2, <3>1, <3>2, IssueKeeps
  <2>4. CASE ~(Decodes(w, t) /\ t.type = "refresh" /\ users[t.user].active)
    <3>1. tokens' = tokens /\ ~local /\ Answer(w, t, "refresh", "401")
      BY <1>2, <2>4 DEF Refresh
    <3>2. TokensHonoured'
      BY <2>1, <2>4, <3>1, AnswerHonours
    <3> QED BY <2>1, <2>2, <3>1, <3>2, IssueKeeps
  <2> QED BY <2>3, <2>4
<1>3. ASSUME NEW w \in Procs, NEW t \in tokens, Request(w, t) PROVE SessionsInv'
  <2> DEFINE code == IF ~GetCurrentUser(w, t) THEN "401"
                     ELSE IF RoleOf(t) # "admin" THEN "403" ELSE "ok"
  <2>1. /\ UNCHANGED <<configured, local, signing, restarts, users, tokens, now>>
        /\ ~local /\ Answer(w, t, "access", code)
    BY <1>3 DEF Request
  <2>2. code = "401" => ~Decodes(w, t) \/ t.type # "access" \/ ~users[t.user].active
    BY DEF GetCurrentUser
  <2> HIDE DEF code
  <2>3. TokensHonoured'
    BY <2>1, <2>2, AnswerHonours
  <2> QED BY <2>1, <2>3 DEF SessionsInv, SessionsTypeOK
<1>4. ASSUME NEW w \in Procs, NEW t \in tokens, LocalRequest(w, t) PROVE SessionsInv'
  <2> DEFINE code == IF Decodes(w, t) THEN "ok" ELSE "401"
  <2>1. /\ UNCHANGED <<configured, local, signing, restarts, users, tokens, now>>
        /\ Answer(w, t, t.type, code)
    BY <1>4 DEF LocalRequest
  <2>2. code = "401" => ~Decodes(w, t)
    OBVIOUS
  <2> HIDE DEF code
  <2>3. TokensHonoured'
    BY <2>1, <2>2, AnswerHonours
  <2> QED BY <2>1, <2>3 DEF SessionsInv, SessionsTypeOK
<1>5. ASSUME NEW w \in Procs, RestartWorker(w) PROVE SessionsInv'
  <2>1. /\ restarts < MaxRestarts /\ restarts' = restarts + 1 /\ reply' = NoReply
        /\ UNCHANGED <<configured, local, users, tokens, now>> /\ NewKey(w)
    BY <1>5 DEF RestartWorker
  <2>2. Cardinality(Procs) \in Nat
    BY FS_CardinalityType
  <2>3. restarts \in 0 .. MaxRestarts /\ restarts' \in 0 .. MaxRestarts
    BY <2>1 DEF SessionsInv
  <2>4. Cardinality(Procs) + restarts \in 0 .. Cardinality(Procs) + MaxRestarts
    BY <2>2, <2>3
  <2>5. signing' \in [Procs -> 0 .. Cardinality(Procs) + MaxRestarts]
    BY <2>1, <2>4 DEF NewKey, SessionsInv, SessionsTypeOK
  <2>6. configured /\ ~local => signing' = signing
    BY <2>1 DEF NewKey
  <2> QED BY <1>0, <2>1, <2>3, <2>5, <2>6 DEF SessionsInv, SessionsTypeOK
<1>6. ASSUME NEW u \in Users, ChangeUser(u) PROVE SessionsInv'
  <2>1. users' \in [Users -> [role : Roles, active : BOOLEAN]]
    BY <1>6 DEF ChangeUser, SessionsInv, SessionsTypeOK
  <2>2. reply' = NoReply /\ UNCHANGED <<configured, local, signing, restarts, tokens, now>>
    BY <1>6 DEF ChangeUser
  <2> QED BY <1>0, <2>1, <2>2 DEF SessionsInv, SessionsTypeOK
<1>7. CASE Tick
  BY <1>0, <1>7 DEF Tick, SessionsInv, SessionsTypeOK
<1> QED
  BY <1>1, <1>2, <1>3, <1>4, <1>5, <1>6, <1>7 DEF SessionsNext

\* Rights are read from the user's row when they are used.
LEMMA RightsStep ==
  ASSUME SessionsInv, SessionsNext
  PROVE  /\ (reply'.code = "ok" /\ ~local) =>
              users[reply'.token.user] = [role |-> "admin", active |-> TRUE]
         /\ \A t \in tokens' \ tokens : users[t.user].active \/ local
<1>1. ASSUME reply'.code = "ok", ~local
      PROVE  users[reply'.token.user] = [role |-> "admin", active |-> TRUE]
  <2>1. reply' # NoReply
    BY <1>1 DEF NoReply
  <2>2. ASSUME NEW w, NEW t, Refresh(w, t) PROVE FALSE
    BY <1>1, <2>2 DEF Refresh, Answer
  <2>3. PICK w \in Procs, t \in tokens : Request(w, t)
    BY <1>1, <2>1, <2>2
    DEF SessionsNext, Login, LocalLogin, LocalRequest, RestartWorker, ChangeUser, Tick
  <2>4. reply'.token = t /\ GetCurrentUser(w, t) /\ RoleOf(t) = "admin"
    BY <1>1, <2>3 DEF Request, Answer
  <2>5. users[t.user] \in [role : Roles, active : BOOLEAN]
    BY <2>3 DEF SessionsInv, SessionsTypeOK
  <2>6. users[t.user].role = "admin" /\ users[t.user].active
    BY <2>4 DEF GetCurrentUser, RoleOf
  <2> QED BY <2>4, <2>5, <2>6
<1>2. ASSUME NEW t \in tokens', t \notin tokens PROVE users[t.user].active \/ local
  <2>1. ASSUME NEW w \in Procs, NEW u \in Users, Login(w, u) PROVE users[t.user].active
    <3>1. users[u].active /\ t \in {AccessToken(w, u), RefreshToken(w, u)}
      BY <1>2, <2>1 DEF Login, Issue
    <3> QED BY <3>1, NewTokens
  <2>2. ASSUME NEW w \in Procs, NEW s \in tokens, Refresh(w, s) PROVE users[t.user].active
    <3>1. users[s.user].active /\ t \in {AccessToken(w, s.user), RefreshToken(w, s.user)}
      BY <1>2, <2>2 DEF Refresh, Issue
    <3>2. s.user \in Users
      BY DEF SessionsInv, SessionsTypeOK
    <3> QED BY <3>1, <3>2, NewTokens
  <2> QED
    BY <1>2, <2>1, <2>2
    DEF SessionsNext, LocalLogin, Request, LocalRequest, RestartWorker, ChangeUser, Tick
<1> QED BY <1>1, <1>2

-----------------------------------------------------------------------------
(* The workers.                                                             *)

WorkersInv == SessionsInv /\ UpdateInv /\ LimiterInv /\ LimiterTypeOK

\* A step of one part leaves the others' variables alone.
LEMMA WorkersStep ==
  ASSUME WorkersInv, [Next]_vars
  PROVE  WorkersInv'
<1>1. ASSUME UNCHANGED sessionVars PROVE SessionsInv'
  BY <1>1 DEF WorkersInv, SessionsInv, SessionsTypeOK, TokensHonoured, sessionVars
<1>2. ASSUME UNCHANGED updateVars PROVE UpdateInv'
  BY <1>2 DEF WorkersInv, UpdateInv, UpdateTypeOK, updateVars
<1>3. ASSUME UNCHANGED limiterVars PROVE LimiterInv' /\ LimiterTypeOK'
  BY <1>3
  DEF WorkersInv, LimiterInv, LimiterShape, Ordered, Expiry, Run, Windows, Allowed, Refusals,
      Before, LimiterTypeOK, limiterVars
<1>4. ASSUME LimiterNext PROVE LimiterInv' /\ LimiterTypeOK'
  BY <1>4, RequestStep, TimeStep, LimiterTyped DEF WorkersInv, LimiterNext
<1>5. CASE Next
  BY <1>1, <1>2, <1>3, <1>4, <1>5, SessionsStep, UpdateStep DEF Next, WorkersInv
<1>6. CASE UNCHANGED vars
  BY <1>1, <1>2, <1>3, <1>6 DEF vars, WorkersInv
<1> QED BY <1>5, <1>6

\* In every behaviour of the workers the parts' invariants hold.
LEMMA WorkersInvariant == Spec => []WorkersInv
<1>1. Init => WorkersInv
  <2> SUFFICES ASSUME Init PROVE WorkersInv
    OBVIOUS
  <2>1. configured \in BOOLEAN /\ local \in BOOLEAN
    BY DEF Init, SessionsInit
  <2> QED
    BY <2>1, SessionsInitial, UpdateInitial, LimiterInitial, LimiterTyped DEF Init, WorkersInv
<1>2. WorkersInv /\ [Next]_vars => WorkersInv'
  BY WorkersStep
<1> QED BY <1>1, <1>2, PTL DEF Spec

\* With the key configured a token is refused by no worker, whichever issued it
\* and however often they restart, until it expires or its user is disabled.
THEOREM TokensAreHonoured == Spec => []TokensHonoured
<1>1. WorkersInv => TokensHonoured
  BY DEF WorkersInv, SessionsInv
<1> QED BY <1>1, WorkersInvariant, PTL

\* A request is served, and a token issued, by what the user's row says then.
THEOREM RightsAlwaysCurrent == Spec => RightsAreCurrent
<1>1. WorkersInv /\ [Next]_vars =>
        [/\ (reply'.code = "ok" /\ ~local) =>
              users[reply'.token.user] = [role |-> "admin", active |-> TRUE]
         /\ \A t \in tokens' \ tokens : users[t.user].active \/ local]_sessionVars
  BY RightsStep DEF WorkersInv, Next, vars
<1> QED BY <1>1, WorkersInvariant, PTL DEF Spec, RightsAreCurrent

\* An agent is taken back to an older version only where its own had not been
\* published, or after uploads that overlapped.
THEOREM DowngradesExplained == Spec => DowngradeExplained
<1>1. WorkersInv /\ [Next]_vars =>
        [agent' < agent =>
           \E w \in Workers : /\ registry[w] = agent'
                              /\ agent \notin published[w] \/ agent' \in crossed]_updateVars
  BY OfferExplained DEF WorkersInv, Next, vars
<1> QED BY <1>1, WorkersInvariant, PTL DEF Spec, DowngradeExplained

\* The limit holds over every window, wherever it begins, and a client is
\* refused only while it keeps asking.
THEOREM LimitSlides == Spec => []SlidingLimit
<1>1. WorkersInv => SlidingLimit
  BY WindowsLimit DEF WorkersInv
<1> QED BY <1>1, WorkersInvariant, PTL
=============================================================================
