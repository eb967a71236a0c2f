------------------------------ MODULE NetSession -------------------------------
(***************************************************************************)
(* One player's session on the grounded network: AgentSession of           *)
(* crates/idaptik-core/src/netsim/session.rs over the trace clock of       *)
(* crates/idaptik-kernel/src/trace.rs and the access matrix of             *)
(* netsim/access.rs, with the outages its hacks cause.  A refused          *)
(* operation changes nothing and is not an action.                         *)
(***************************************************************************)
EXTENDS Option, PowerGraph, Integers, Sequences, FiniteSets

CONSTANTS
  Address,         \* IPv4 addresses that can be named
  Vantage,         \* entry addresses a player may play from
  Segment,         \* ids of the graph's segments
  Ip,              \* [Node -> Address]
  SegmentOf,       \* [Address -> Segment \cup {None}]: by subnet prefix
  CanAccess,       \* [Segment -> SUBSET ids], "public" and ISP tiers included
  Category,        \* [Segment -> {"service", "isp", "other"}]
  Kind,            \* [Node -> {"host", "device"}]: can a foothold be had on it
  Security,        \* [Node -> {"open", "weak", "medium", "strong"}]
  CutsPower,       \* the nodes whose actuation is CutPower
  Deps,            \* who draws from whom
  Threshold,       \* where the trace trips
  MaxWord          \* the largest value of the trace's unsigned counter

Backbone == {"isp-tier1-backbone", "isp-tier2-regional"}
Tier3 == {"isp-tier3-business", "isp-tier3-rural"}
Public == {"public"}

ASSUME GraphAssumption ==
  /\ IsFiniteSet(Node)
  /\ Vantage \subseteq Address /\ Vantage # {}
  /\ Ip \in [Node -> Address] /\ \A m, n \in Node : Ip[m] = Ip[n] => m = n
  /\ SegmentOf \in [Address -> Segment \cup {None}]
  /\ None \notin Segment
  /\ CanAccess \in [Segment -> SUBSET (Segment \cup Backbone \cup Tier3 \cup Public)]
  /\ Category \in [Segment -> {"service", "isp", "other"}]
  /\ Kind \in [Node -> {"host", "device"}]
  /\ Security \in [Node -> {"open", "weak", "medium", "strong"}]
  /\ CutsPower \subseteq Node
  /\ Deps \subseteq Node \X Node
  /\ Threshold \in Nat /\ MaxWord \in Nat /\ Threshold <= MaxWord

VARIABLES
  entry,     \* the vantage's entry address
  stack,     \* the pivots stood on
  progress,  \* of the active trace
  logs,      \* the nodes a log was left on
  dead       \* nodes without power

vars == <<entry, stack, progress, logs, dead>>

-------------------------------------------------------------------------------
(* Reach: single-hop adjacency of segments plus the ISP shortcuts. *)

ReachesAny(src, ids) == CanAccess[src] \cap ids # {}

CanRouteViaIsp(src, dst) ==
  \/ Category[dst] = "service" /\ ReachesAny(src, Backbone \cup Tier3 \cup Public)
  \/ Category[dst] = "isp" /\ ReachesAny(src, Tier3 \cup Public)

SegmentCanReach(src, ip) ==
  LET dst == SegmentOf[ip] IN
  /\ src # None
  /\ IF dst = None
     THEN ReachesAny(src, Public \cup Tier3)
     ELSE src = dst \/ dst \in CanAccess[src] \/ CanRouteViaIsp(src, dst)

CanReach(from, ip) == from = ip \/ SegmentCanReach(SegmentOf[from], ip)

-------------------------------------------------------------------------------
(* The trace clock. *)

Lesser(a, b) == IF a <= b THEN a ELSE b
Greater(a, b) == IF a <= b THEN b ELSE a

TraceCost(sec) == CASE sec = "open" -> 5 [] sec = "weak" -> 10
                    [] sec = "medium" -> 20 [] OTHER -> 40

(* Mutant of Rate: enough hops divide the rate down to nothing. *)
RateFreezes(base, hops) == IF base = 0 THEN 0 ELSE base \div Greater(hops, 1)

Rate(base, hops) == IF base = 0 THEN 0 ELSE Greater(base \div Greater(hops, 1), 1)

(* Mutants of Advance: no clamp at the threshold; the sum wraps. *)
AdvanceOverruns(p, base, hops) == Lesser(p + Rate(base, hops), MaxWord)
AdvanceWraps(p, base, hops) == Lesser((p + Rate(base, hops)) % (MaxWord + 1), Threshold)

Advance(p, base, hops) == Lesser(Lesser(p + Rate(base, hops), MaxWord), Threshold)

Traced == progress >= Threshold

-------------------------------------------------------------------------------
(* The session. *)

VantageIp == IF stack = <<>> THEN entry ELSE stack[Len(stack)]
Standing == {stack[i] : i \in DOMAIN stack}
BounceHops == Len(stack) + 1

(* Mutant of Occupied: only the active host is guarded. *)
OccupiedTop(ip) == ip = VantageIp

Occupied(ip) == ip = VantageIp \/ ip = entry \/ ip \in Standing

(* Mutant of IsLocal: judged from the active host, so that a pivot onto a  *)
(* segment launders later hacks there.                                     *)
IsLocalHere(n) == SegmentOf[VantageIp] # None /\ SegmentOf[Ip[n]] = SegmentOf[VantageIp]

(* is_local: at home, the nodes of the home segment are the agent's own.  A *)
(* node's segment field and its address agree, as floor_graph derives them. *)
IsLocal(n) ==
  stack = <<>> /\ SegmentOf[entry] # None /\ SegmentOf[Ip[n]] = SegmentOf[entry]

Init ==
  /\ entry \in Vantage
  /\ stack = <<>> /\ progress = 0
  /\ logs = {} /\ dead = {}

(* set_vantage: the player walks; no remote foothold survives the move. *)
SetVantage(ip) ==
  /\ entry' = ip
  /\ stack' = <<>>
  /\ UNCHANGED <<progress, logs, dead>>

(* Mutant of Ssh: a pivot costs no trace. *)
SshFree(n) ==
  /\ ~Occupied(Ip[n])
  /\ CanReach(VantageIp, Ip[n])
  /\ Kind[n] = "host"
  /\ stack' = Append(stack, Ip[n])
  /\ UNCHANGED <<entry, progress, logs, dead>>

(* ssh into node n: not yet occupied, in reach, a machine one can stand on. *)
Ssh(n) ==
  /\ ~Occupied(Ip[n])
  /\ CanReach(VantageIp, Ip[n])
  /\ Kind[n] = "host"
  /\ progress' = Advance(progress, TraceCost(Security[n]), BounceHops)
  /\ stack' = Append(stack, Ip[n])
  /\ UNCHANGED <<entry, logs, dead>>

(* Mutant of Outage: only what draws from n directly loses power. *)
OutageShallow(n) ==
  IF n \in CutsPower THEN {n} \cup {m \in Node : <<m, n>> \in Deps} ELSE {}

Outage(n) == IF n \in CutsPower THEN Downstream(Deps, n) ELSE {}

(* hack node n: its actuation lands, a log stays; free of trace only where *)
(* the agent is at home.                                                    *)
Hack(n) ==
  /\ CanReach(VantageIp, Ip[n])
  /\ progress' = IF IsLocal(n) THEN progress
                 ELSE Advance(progress, TraceCost(Security[n]), BounceHops)
  /\ logs' = logs \cup {n}
  /\ dead' = dead \cup Outage(n)
  /\ UNCHANGED <<entry, stack>>

Scrub(n) ==
  /\ logs' = logs \ {n}
  /\ UNCHANGED <<entry, stack, progress, dead>>

Exit ==
  /\ stack # <<>>
  /\ stack' = SubSeq(stack, 1, Len(stack) - 1)
  /\ UNCHANGED <<entry, progress, logs, dead>>

Next ==
  \/ \E ip \in Vantage : SetVantage(ip)
  \/ \E n \in Node : Ssh(n) \/ Hack(n) \/ Scrub(n)
  \/ Exit

Spec == Init /\ [][Next]_vars

-------------------------------------------------------------------------------

TypeOK ==
  /\ entry \in Vantage
  /\ stack \in Seq(Address)
  /\ progress \in 0 .. Threshold
  /\ logs \in SUBSET Node
  /\ dead \in SUBSET Node

(* The pivots are a path of distinct hosts that leads out of the entry and *)
(* never back into it, each reachable from the one before (session.rs:125- *)
(* 136): a repeated host would be a free hop that slows the trace.          *)
PathIsSound ==
  /\ \A i \in DOMAIN stack :
       /\ stack[i] # entry
       /\ \A j \in DOMAIN stack : stack[i] = stack[j] => i = j
       /\ CanReach(IF i = 1 THEN entry ELSE stack[i - 1], stack[i])

(* A node is foreign when it is at home on nobody's segment. *)
Foreign == {n \in Node : \A v \in Vantage : SegmentOf[v] = None \/ SegmentOf[Ip[n]] # SegmentOf[v]}

(* Reach is paid for in trace: every foothold stood on and every foreign   *)
(* node that carries a log has cost at least one, whatever the depth it    *)
(* was taken from, and no walk, exit or scrub gives anything back           *)
(* (session.rs:145, 181; trace.rs:65-69).                                   *)
ReachIsPaid == Traced \/ Len(stack) + Cardinality(logs \cap Foreign) <= progress

(* No powered node draws from a dead one (effect.rs, agents.rs:164-178). *)
OutageIsWhole == Closed(Deps, dead)

(* A touch from a pivot is never free: it moves an open trace               *)
(* (session.rs:151-166).                                                    *)
RemoteTouch == stack # <<>> /\ \E n \in Node : Ssh(n) \/ Hack(n)

(* An agent that keeps touching the network from its pivots is traced in    *)
(* the end: depth slows the clock and cannot stop it (trace.rs:65-69).      *)
NoStall == ([]<><<RemoteTouch /\ ~Traced>>_vars) => <>Traced

(* Both: a sound path, and paid for. *)
PathIsPaid == PathIsSound /\ ReachIsPaid
===============================================================================
