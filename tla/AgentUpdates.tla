---------------------------- MODULE AgentUpdates ----------------------------
(***************************************************************************)
(* The registry of agent versions (api/v1/agent_update.py): a dictionary   *)
(* in the memory of each worker process.  A publication reaches the one    *)
(* process that served it, when its upload has been read; a restart is     *)
(* back to the built-in registry; and a check at any process offers what   *)
(* that one has whenever it differs from what the agent runs.  One         *)
(* platform is modelled, as no entry depends on another platform's.        *)
(***************************************************************************)
EXTENDS Integers

CONSTANTS
  Workers,           \* processes that serve the API
  MaxVersion,        \* bound: versions are released as 1, 2, ...
  MaxUploads         \* bound: uploads of a behaviour

ASSUME AgentUpdatesAssumption ==
  MaxVersion \in Nat \ {0} /\ MaxUploads \in Nat

VARIABLES
  builtIn,    \* what the registry starts with: 1 for linux, 0 (nothing) elsewhere
  registry,   \* _versions of each process
  uploads,    \* publications whose upload is being read
  released,   \* the newest version there is
  started,    \* how many uploads have begun
  agent,      \* what the agent runs
  published,  \* what each process has published since it started
  crossed     \* versions whose upload ran while a newer one's did

updateVars == <<builtIn, registry, uploads, released, started, agent, published, crossed>>

\* An administrator publishes the newest version, at one process and again at
\* another, or releases the next one.
StartUpload(w) ==
  /\ started < MaxUploads
  /\ \E v \in {released, released + 1} :
       /\ v <= MaxVersion
       /\ released' = v
       /\ uploads' = uploads \cup {[worker |-> w, version |-> v]}
       /\ crossed' = crossed \cup {u.version : u \in {x \in uploads : x.version < v}}
  /\ started' = started + 1
  /\ UNCHANGED <<builtIn, registry, agent, published>>

\* A change of Publish: an entry that is there is kept.
PublishFirst(w, v) ==
  registry' = [registry EXCEPT ![w] = IF @ = 0 THEN v ELSE @]

Publish(w, v) == registry' = [registry EXCEPT ![w] = v]

FinishUpload(u) ==
  /\ u \in uploads
  /\ uploads' = uploads \ {u}
  /\ Publish(u.worker, u.version)
  /\ published' = [published EXCEPT ![u.worker] = @ \cup {u.version}]
  /\ UNCHANGED <<builtIn, released, started, agent, crossed>>

\* The agent installs what it is offered.
CheckForUpdate(w) ==
  /\ registry[w] # 0 /\ registry[w] # agent
  /\ agent' = registry[w]
  /\ UNCHANGED <<builtIn, registry, uploads, released, started, published, crossed>>

RestartProcess(w) ==
  /\ published[w] # {}
  /\ registry' = [registry EXCEPT ![w] = builtIn]
  /\ published' = [published EXCEPT ![w] = {}]
  /\ uploads' = {u \in uploads : u.worker # w}
  /\ UNCHANGED <<builtIn, released, started, agent, crossed>>

UpdateInit ==
  /\ builtIn \in {0, 1}
  /\ registry = [w \in Workers |-> builtIn]
  /\ uploads = {} /\ released = 1 /\ started = 0 /\ agent = 1
  /\ published = [w \in Workers |-> {}] /\ crossed = {}

UpdateNext ==
  \/ \E w \in Workers : StartUpload(w) \/ CheckForUpdate(w) \/ RestartProcess(w)
  \/ \E u \in uploads : FinishUpload(u)

-----------------------------------------------------------------------------
Versions == 0 .. MaxVersion

UpdateTypeOK ==
  /\ registry \in [Workers -> Versions]
  /\ \A u \in uploads : u.worker \in Workers /\ u.version \in Versions
  /\ agent \in Versions \ {0} /\ released \in Versions /\ started \in 0 .. MaxUploads
  /\ published \in [Workers -> SUBSET Versions] /\ crossed \subseteq Versions

\* An agent is taken back to an older version only by a process at which the
\* version it runs has not been published since the process started, or
\* because the two uploads overlapped and the older one was read last.
DowngradeExplained ==
  [][agent' < agent =>
       \E w \in Workers : /\ registry[w] = agent'
                          /\ agent \notin published[w] \/ agent' \in crossed]_updateVars
=============================================================================
