------------------------------ MODULE Sessions ------------------------------
(***************************************************************************)
(* Logins and tokens over several worker processes (gunicorn -w 4): each   *)
(* process makes its settings when it starts, so that the key it signs and *)
(* checks tokens with is its own and is new after a restart, unless the    *)
(* environment sets JWT_SECRET_KEY.  Tokens are not stored: only the key,  *)
(* the expiry and the user's row decide (api/v1/auth.py, api/deps.py,      *)
(* core/security.py; the same in run_local.py, with one process).          *)
(***************************************************************************)
EXTENDS Integers, FiniteSets

CONSTANTS
  Procs,                     \* worker processes
  LocalProc,                 \* the process of run_local
  Users,
  AccessLife, RefreshLife,   \* lifetimes, in ticks
  MaxTime, MaxRestarts, MaxTokens   \* bounds

ASSUME SessionsAssumption ==
  /\ IsFiniteSet(Procs) /\ LocalProc \in Procs
  /\ AccessLife \in Nat /\ RefreshLife \in Nat /\ AccessLife < RefreshLife
  /\ MaxTime \in Nat /\ MaxRestarts \in Nat

VARIABLES
  configured,  \* is JWT_SECRET_KEY set in the environment?
  local,       \* is it run_local that serves?
  signing,     \* the key of each process, by the number it was drawn with
  restarts,    \* how many keys have been drawn since the first ones
  users,       \* the rows of users
  tokens,      \* the tokens clients hold
  now,
  reply        \* what the last request was answered

sessionVars == <<configured, local, signing, restarts, users, tokens, now, reply>>

Roles == {"admin", "viewer"}
NoReply == [code |-> "none"]

AccessToken(w, u) ==
  [user |-> u, role |-> users[u].role, type |-> "access", exp |-> now + AccessLife,
   key |-> signing[w]]
\* A change of RefreshToken: it is made like an access token.
RefreshUntyped(w, u) ==
  [user |-> u, role |-> "none", type |-> "access", exp |-> now + RefreshLife,
   key |-> signing[w]]

RefreshToken(w, u) ==
  [user |-> u, role |-> "none", type |-> "refresh", exp |-> now + RefreshLife,
   key |-> signing[w]]

\* make_token and make_refresh of run_local.
LocalTokens(w, u) == {AccessToken(w, u), RefreshToken(w, u)}

Decodes(w, t) == t.key = signing[w] /\ now <= t.exp

Answer(w, t, takes, code) ==
  reply' = [code |-> code, worker |-> w, token |-> t, takes |-> takes]
Issue(new) == Cardinality(tokens \cup new) <= MaxTokens /\ tokens' = tokens \cup new

Login(w, u) ==
  /\ ~local
  /\ IF users[u].active
     THEN Issue({AccessToken(w, u), RefreshToken(w, u)})
     ELSE UNCHANGED tokens
  /\ reply' = NoReply
  /\ UNCHANGED <<configured, local, signing, restarts, users, now>>

LocalLogin(w, u) ==
  /\ local /\ w = LocalProc
  /\ Issue(LocalTokens(w, u))
  /\ reply' = NoReply
  /\ UNCHANGED <<configured, local, signing, restarts, users, now>>

\* The token that was used stays valid.
Refresh(w, t) ==
  /\ ~local /\ t \in tokens
  /\ IF Decodes(w, t) /\ t.type = "refresh" /\ users[t.user].active
     THEN /\ Issue({AccessToken(w, t.user), RefreshToken(w, t.user)})
          /\ Answer(w, t, "refresh", "refreshed")
     ELSE Answer(w, t, "refresh", "401") /\ UNCHANGED tokens
  /\ UNCHANGED <<configured, local, signing, restarts, users, now>>

GetCurrentUser(w, t) == Decodes(w, t) /\ t.type = "access" /\ users[t.user].active

\* A change of RoleOf: the claim in the token is believed.
RoleClaimed(t) == t.role

RoleOf(t) == users[t.user].role

\* A request to a handler that require_role lets admins use.
Request(w, t) ==
  /\ ~local /\ t \in tokens
  /\ Answer(w, t, "access", IF ~GetCurrentUser(w, t) THEN "401"
                            ELSE IF RoleOf(t) # "admin" THEN "403" ELSE "ok")
  /\ UNCHANGED <<configured, local, signing, restarts, users, tokens, now>>

\* run_local looks neither at the token's type nor at is_active, and has no
\* roles to check.
LocalRequest(w, t) ==
  /\ local /\ w = LocalProc /\ t \in tokens
  /\ Answer(w, t, t.type, IF Decodes(w, t) THEN "ok" ELSE "401")
  /\ UNCHANGED <<configured, local, signing, restarts, users, tokens, now>>

\* No handler changes a user: an operator's SQL does.
ChangeUser(u) ==
  /\ \E role \in Roles, active \in BOOLEAN :
       users' = [users EXCEPT ![u] = [role |-> role, active |-> active]]
  /\ reply' = NoReply
  /\ UNCHANGED <<configured, local, signing, restarts, tokens, now>>

\* A change of NewKey: the environment is not asked.
NewKeyAlways(w) == signing' = [signing EXCEPT ![w] = Cardinality(Procs) + restarts]

\* run_local draws a key whatever the environment says.
NewKey(w) ==
  IF configured /\ ~local THEN UNCHANGED signing
  ELSE signing' = [signing EXCEPT ![w] = Cardinality(Procs) + restarts]

\* gunicorn replaces a worker that died.
RestartWorker(w) ==
  /\ restarts < MaxRestarts
  /\ NewKey(w)
  /\ restarts' = restarts + 1
  /\ reply' = NoReply
  /\ UNCHANGED <<configured, local, users, tokens, now>>

Tick ==
  /\ now < MaxTime
  /\ now' = now + 1
  /\ reply' = NoReply
  /\ UNCHANGED <<configured, local, signing, restarts, users, tokens>>

DrawnKeys == CHOOSE f \in [Procs -> 0 .. Cardinality(Procs) - 1] :
               \A v, w \in Procs : f[v] = f[w] => v = w

SessionsInit ==
  /\ configured \in BOOLEAN /\ local \in BOOLEAN
  /\ signing = IF configured THEN [w \in Procs |-> 0] ELSE DrawnKeys
  /\ restarts = 0
  /\ users = [u \in Users |-> [role |-> "admin", active |-> TRUE]]
  /\ tokens = {} /\ now = 0 /\ reply = NoReply

SessionsNext ==
  \/ \E w \in Procs :
       \/ \E u \in Users : Login(w, u) \/ LocalLogin(w, u)
       \/ \E t \in tokens : Refresh(w, t) \/ Request(w, t) \/ LocalRequest(w, t)
       \/ RestartWorker(w)
  \/ \E u \in Users : ChangeUser(u)
  \/ Tick

-----------------------------------------------------------------------------
SessionsTypeOK ==
  /\ signing \in [Procs -> 0 .. Cardinality(Procs) + MaxRestarts]
  /\ users \in [Users -> [role : Roles, active : BOOLEAN]]
  /\ \A t \in tokens : /\ t.user \in Users /\ t.exp \in 0 .. MaxTime + RefreshLife
                       /\ t.type = "access" <=> t.role \in Roles
  /\ now \in 0 .. MaxTime

\* With the key configured, a token that any worker issued is good at every
\* worker, restarted ones too, until it expires or its user is disabled; with
\* keys of their own, at the process that issued it until that restarts.
TokensHonoured ==
  reply.code = "401" =>
    LET t == reply.token
    IN  \/ t.exp < now
        \/ ~users[t.user].active
        \/ t.type # reply.takes
        \/ t.key # signing[reply.worker] /\ (configured => local)

\* A token carries no rights of its own: the backend serves a request, or
\* issues new tokens, only for a user who is active, and an admin's request
\* only for an admin, whatever the row said when the token was issued.
RightsAreCurrent ==
  [][/\ (reply'.code = "ok" /\ ~local) =>
          users[reply'.token.user] = [role |-> "admin", active |-> TRUE]
     /\ \A t \in tokens' \ tokens : users[t.user].active \/ local]_sessionVars
=============================================================================
