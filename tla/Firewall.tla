------------------------------ MODULE Firewall ------------------------------
(***************************************************************************)
(* FirewallManager of the Python agent (src/agent/remediation): the rules  *)
(* it adds to the firewall of the host and the set of addresses it keeps.  *)
(* Addresses are public: others are refused.  Nothing in the repository    *)
(* calls it yet; its calls come at any time.                               *)
(***************************************************************************)
EXTENDS Integers, FiniteSets

CONSTANTS
  Ips,
  MaxRules,     \* bound: equal rules for an address
  MaxManagers   \* bound: starts of the agent

ASSUME FirewallAssumption == MaxRules \in Nat \ {0} /\ MaxManagers \in Nat \ {0}

VARIABLES
  os,           \* "linux", "windows", "darwin", or "other"
  rules,        \* the rules the agent has added for each address
  plain,        \* addresses somebody else blocks, with no comment
  blocked,      \* self._blocked_ips
  managers,     \* starts of the agent
  left,         \* history: addresses that were blocked when the agent ended
  timedOut,     \* history: addresses for which a command was given up
  released      \* history: addresses that unblock_ip was asked for, with success

firewallVars == <<os, rules, plain, blocked, managers, left, timedOut, released>>

\* iptables and netsh add an equal rule again, pfctl's table is a set.
Added(ip) == [rules EXCEPT ![ip] = IF os = "darwin" THEN 1 ELSE @ + 1]

BlockIp(ip) ==
  /\ os # "other" /\ rules[ip] < MaxRules
  /\ rules' = Added(ip) /\ blocked' = blocked \cup {ip}
  /\ UNCHANGED <<os, plain, managers, left, timedOut, released>>

\* TimeoutExpired is not caught: the rule may be there or not.
BlockTimesOut(ip) ==
  /\ os # "other" /\ rules[ip] < MaxRules
  /\ rules' \in {rules, Added(ip)} /\ timedOut' = timedOut \cup {ip}
  /\ UNCHANGED <<os, plain, blocked, managers, left, released>>

\* The command exits with 0: "iptables -D" without the comment matches only a
\* rule that has none, netsh deletes all rules of the name.
Deletes(ip) ==
  /\ os = "linux" => ip \in plain
  /\ os = "windows" => rules[ip] > 0

\* macOS has no command here.
Removed(ip) ==
  /\ rules' = IF os = "windows" THEN [rules EXCEPT ![ip] = 0] ELSE rules
  /\ plain' = IF os = "linux" THEN plain \ {ip} ELSE plain

\* A change of UnblockIp: the address is forgotten although the command failed.
UnblockAnyway(ip) ==
  /\ IF Deletes(ip) THEN Removed(ip) ELSE UNCHANGED <<rules, plain>>
  /\ blocked' = blocked \ {ip}
  /\ released' = IF Deletes(ip) THEN released \cup {ip} ELSE released
  /\ UNCHANGED <<os, managers, left, timedOut>>

UnblockIp(ip) ==
  /\ Deletes(ip) /\ Removed(ip)
  /\ blocked' = blocked \ {ip} /\ released' = released \cup {ip}
  /\ UNCHANGED <<os, managers, left, timedOut>>

UnblockTimesOut(ip) ==
  /\ os \in {"linux", "windows"}
  /\ \/ Deletes(ip) /\ Removed(ip)
     \/ UNCHANGED <<rules, plain>>
  /\ timedOut' = timedOut \cup {ip}
  /\ UNCHANGED <<os, blocked, managers, left, released>>

\* Somebody else blocks and unblocks an address.
Administer(ip) ==
  /\ os = "linux"
  /\ plain' = IF ip \in plain THEN plain \ {ip} ELSE plain \cup {ip}
  /\ UNCHANGED <<os, rules, blocked, managers, left, timedOut, released>>

\* With the host or alone; only Windows keeps its rules over a boot.
ManagerRestarts(boot) ==
  /\ managers < MaxManagers /\ managers' = managers + 1
  /\ left' = left \cup blocked /\ blocked' = {}
  /\ IF boot /\ os # "windows" THEN rules' = [ip \in Ips |-> 0] /\ plain' = {}
     ELSE UNCHANGED <<rules, plain>>
  /\ UNCHANGED <<os, timedOut, released>>

FirewallInit ==
  /\ os \in {"linux", "windows", "darwin", "other"}
  /\ rules = [ip \in Ips |-> 0] /\ plain \in IF os = "linux" THEN SUBSET Ips ELSE {{}}
  /\ blocked = {} /\ managers = 1 /\ left = {} /\ timedOut = {} /\ released = {}

FirewallNext ==
  \/ \E ip \in Ips : \/ BlockIp(ip) \/ BlockTimesOut(ip) \/ UnblockIp(ip) \/ UnblockTimesOut(ip)
                     \/ Administer(ip)
  \/ \E boot \in BOOLEAN : ManagerRestarts(boot)

-----------------------------------------------------------------------------
FirewallTypeOK ==
  /\ rules \in [Ips -> 0 .. MaxRules] /\ plain \subseteq Ips /\ blocked \subseteq Ips
  /\ managers \in 1 .. MaxManagers

\* An address in the set is blocked by a rule unless a command was given up; a
\* rule for an address that is not in the set is left over from an earlier run
\* or a command that was given up, or unblock_ip reported its removal: on
\* Linux it had removed the rule of somebody else, on macOS none.
BlockedMatchesRules ==
  \A ip \in Ips :
    /\ ip \in blocked => rules[ip] > 0 \/ ip \in timedOut
    /\ ip \notin blocked /\ rules[ip] > 0 =>
         ip \in left \cup timedOut \/ (os \in {"linux", "darwin"} /\ ip \in released)
=============================================================================
