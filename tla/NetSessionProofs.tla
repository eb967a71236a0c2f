--------------------------- MODULE NetSessionProofs ----------------------------
(***************************************************************************)
(* Proofs about PowerCascade, for any graph, and about NetSession, for any   *)
(* graph, any vantages and any threshold; and what the dark costs on the     *)
(* floor that is shipped.                                                   *)
(***************************************************************************)
EXTENDS NetSession, MCNetSession, PowerCascade, SequenceTheorems, FiniteSetTheorems, TLAPS

-------------------------------------------------------------------------------
(* The power cascade. *)

(* The outage of a cut contains the cut node, is closed under "draws from" *)
(* and is the least such set.                                              *)
LEMMA DownstreamLeast ==
  ASSUME NEW draws \in SUBSET (Node \X Node), NEW id \in Node
  PROVE  /\ id \in Downstream(draws, id)
         /\ Downstream(draws, id) \subseteq Node
         /\ Closed(draws, Downstream(draws, id))
         /\ \A S \in SUBSET Node : id \in S /\ Closed(draws, S)
              => Downstream(draws, id) \subseteq S
<1>1. id \in Downstream(draws, id) /\ Downstream(draws, id) \subseteq Node
  BY DEF Downstream
<1>2. ASSUME NEW d \in draws, d[2] \in Downstream(draws, id)
      PROVE  d[1] \in Downstream(draws, id)
  <2>1. d[1] \in Node
    BY <1>2
  <2>2. ASSUME NEW S \in SUBSET Node, id \in S, Closed(draws, S)
        PROVE  d[1] \in S
    <3>1. d[2] \in S
      BY <1>2, <2>2 DEF Downstream
    <3> QED BY <2>2, <3>1 DEF Closed
  <2> QED BY <2>1, <2>2 DEF Downstream
<1> QED BY <1>1, <1>2 DEF Closed, Downstream

(* What the walk keeps: it never leaves the outage, and everything that    *)
(* draws from a node already visited has been seen.                        *)
WalkInv ==
  walking => /\ cut \in seen
             /\ seen \subseteq Downstream(deps, cut)
             /\ \A d \in deps : d[2] \in seen \ frontier => d[1] \in seen

CascadeInv == CascadeTypeOK /\ WalkInv /\ CascadeIsWhole

(* Before the first cut nothing is lost. *)
LEMMA CascadeInitInv == CascadeInit => CascadeInv
BY DEF CascadeInit, CascadeInv, CascadeTypeOK, WalkInv, CascadeIsWhole, Closed

(* A cut starts the walk at the node that is cut. *)
LEMMA CutInv ==
  ASSUME CascadeInv, NEW id \in Node, Cut(id)
  PROVE  CascadeInv'
<1> USE DEF CascadeInv, Cut
<1>1. CascadeTypeOK'
  BY DEF CascadeTypeOK
<1>2. WalkInv'
  BY DownstreamLeast DEF WalkInv, CascadeTypeOK
<1>3. CascadeIsWhole'
  BY DEF CascadeIsWhole
<1> QED BY <1>1, <1>2, <1>3

(* A visit adds what draws from the node visited, all of it downstream. *)
LEMMA VisitInv ==
  ASSUME CascadeInv, NEW current \in Node, Visit(current)
  PROVE  CascadeInv'
<1> USE DEF CascadeInv, Visit
<1>1. Newly(current) \in SUBSET Node
  BY DEF Newly
<1>2. CascadeTypeOK'
  BY <1>1 DEF CascadeTypeOK
<1>3. Newly(current) \subseteq Downstream(deps, cut)
  <2>1. current \in Downstream(deps, cut)
    BY DEF CascadeTypeOK, WalkInv
  <2>2. Closed(deps, Downstream(deps, cut))
    BY DownstreamLeast DEF CascadeTypeOK
  <2>3. ASSUME NEW other \in Newly(current)
        PROVE  other \in Downstream(deps, cut)
    <3>1. <<other, current>> \in deps
      BY DEF Newly
    <3> QED BY <2>1, <2>2, <3>1 DEF Closed
  <2> QED BY <2>3
<1>4. ASSUME NEW d \in deps, d[2] \in seen' \ frontier'
      PROVE  d[1] \in seen'
  <2>1. d = <<d[1], d[2]>> /\ d[1] \in Node
    BY <1>4 DEF CascadeTypeOK
  <2>2. CASE d[2] = current
    BY <2>1, <2>2 DEF Newly
  <2>3. CASE d[2] # current
    BY <1>4, <2>3 DEF WalkInv
  <2> QED BY <2>2, <2>3
<1>5. WalkInv'
  BY <1>3, <1>4 DEF WalkInv, CascadeTypeOK
<1>6. CascadeIsWhole'
  BY DEF CascadeIsWhole
<1> QED BY <1>2, <1>5, <1>6

(* With nothing left to visit the seen-set is closed, hence the outage. *)
LEMMA WalkDone ==
  ASSUME CascadeInv, walking, frontier = {}
  PROVE  seen = Downstream(deps, cut) /\ Closed(deps, seen)
<1>1. Closed(deps, seen)
  BY DEF CascadeInv, WalkInv, Closed
<1>2. seen \in SUBSET Node /\ cut \in seen /\ seen \subseteq Downstream(deps, cut)
  BY DEF CascadeInv, WalkInv, CascadeTypeOK
<1>3. Downstream(deps, cut) \subseteq seen
  BY <1>1, <1>2, DownstreamLeast DEF CascadeInv, CascadeTypeOK
<1> QED BY <1>1, <1>2, <1>3

(* A finished walk has seen all that is downstream, and that is what is lost. *)
LEMMA LandInv ==
  ASSUME CascadeInv, Land
  PROVE  CascadeInv'
<1> USE DEF CascadeInv, Land
<1>1. seen = Downstream(deps, cut) /\ Closed(deps, seen)
  BY WalkDone
<1>2. lost' = lost \cup seen
  BY DEF WalkInv
<1>3. CascadeTypeOK'
  BY DEF CascadeTypeOK
<1>4. WalkInv'
  BY DEF WalkInv
<1>5. Closed(deps, lost)
  BY DEF CascadeIsWhole
<1>6. Closed(deps, lost \cup seen)
  BY <1>1, <1>5 DEF Closed
<1>7. CascadeIsWhole'
  BY <1>2, <1>6 DEF CascadeIsWhole, Closed
<1> QED BY <1>3, <1>4, <1>7

(* The inductive invariant of the walk. *)
THEOREM CascadeInvariant == CascadeSpec => []CascadeInv
<1>1. CascadeInv /\ [CascadeNext]_cascadeVars => CascadeInv'
  <2> SUFFICES ASSUME CascadeInv, [CascadeNext]_cascadeVars
               PROVE  CascadeInv'
    OBVIOUS
  <2>1. ASSUME NEW id \in Node, Cut(id) PROVE CascadeInv'
    BY <2>1, CutInv
  <2>2. ASSUME NEW current \in Node, Visit(current) PROVE CascadeInv'
    BY <2>2, VisitInv
  <2>3. CASE Land
    BY <2>3, LandInv
  <2>4. CASE UNCHANGED cascadeVars
    BY <2>4 DEF cascadeVars, CascadeInv, CascadeTypeOK, WalkInv, CascadeIsWhole, Closed
  <2> QED BY <2>1, <2>2, <2>3, <2>4 DEF CascadeNext
<1> QED BY <1>1, CascadeInitInv, PTL DEF CascadeSpec

(* The seen-set, the worklist and dead_nodes only ever hold ids of the *)
(* graph (effect.rs:42-69).                                            *)
THEOREM CascadeTypeCorrect == CascadeSpec => []CascadeTypeOK
<1>1. CascadeInv => CascadeTypeOK
  BY DEF CascadeInv
<1> QED BY <1>1, CascadeInvariant, PTL

(* An empty worklist means the walk found the least set that holds the cut *)
(* node and everything drawing from it, on any graph (effect.rs:53-67).    *)
THEOREM CascadeExact == CascadeSpec => []WalkIsExact
<1>1. CascadeInv => WalkIsExact
  BY WalkDone DEF WalkIsExact
<1> QED BY <1>1, CascadeInvariant, PTL

(* At any time nothing powered draws from a lost node, whatever was cut *)
(* before (agents.rs:164-178).                                           *)
THEOREM CutsAddUp == CascadeSpec => []CascadeIsWhole
<1>1. CascadeInv => CascadeIsWhole
  BY DEF CascadeInv
<1> QED BY <1>1, CascadeInvariant, PTL

(* A node popped from the worklist is never pushed again in the same walk, *)
(* so a walk visits each node at most once, cycles or not (effect.rs:50).  *)
THEOREM NoSecondVisit == CascadeSpec => VisitedOnce
<1>1. CascadeInv /\ [CascadeNext]_cascadeVars =>
        [walking /\ walking' =>
           (seen \ frontier) \subseteq (seen' \ frontier')]_cascadeVars
  BY DEF CascadeInv, CascadeNext, Cut, Visit, Land, Newly, cascadeVars
<1> QED BY <1>1, CascadeInvariant, PTL DEF CascadeSpec, VisitedOnce

(* On any graph a walk darkens exactly what is downstream of the cut, and the *)
(* cuts together leave nothing drawing from a lost node.                      *)
THEOREM CascadeSound == CascadeSpec => []CascadeIsExact
BY CascadeTypeCorrect, CascadeExact, CutsAddUp, PTL DEF CascadeIsExact

-------------------------------------------------------------------------------
(* The session. *)

(* The clock's step: progress never falls, never passes the threshold, and *)
(* an intrusion short of the threshold always gains (trace.rs:65-69).      *)
LEMMA AdvanceFacts ==
  ASSUME NEW p \in 0 .. Threshold, NEW sec, NEW hops \in Nat
  PROVE  /\ Advance(p, TraceCost(sec), hops) \in 0 .. Threshold
         /\ p <= Advance(p, TraceCost(sec), hops)
         /\ p < Threshold => p + 1 <= Advance(p, TraceCost(sec), hops)
<1>1. TraceCost(sec) \in Nat /\ TraceCost(sec) # 0
  BY DEF TraceCost
<1>2. Greater(hops, 1) \in Nat /\ Greater(hops, 1) > 0
  BY DEF Greater
<1>3. TraceCost(sec) \div Greater(hops, 1) \in Int
  BY <1>1, <1>2
<1>4. Rate(TraceCost(sec), hops) \in Nat /\ Rate(TraceCost(sec), hops) >= 1
  BY <1>1, <1>3 DEF Rate, Greater
<1> QED BY <1>4, GraphAssumption DEF Advance, Lesser

(* A login goes one hop deeper, along edges that were reachable. *)
LEMMA NextFoothold ==
  ASSUME TypeOK, PathIsSound, NEW n \in Node, Ssh(n)
  PROVE  stack' \in Seq(Address) /\ PathIsSound'
<1> USE DEF Ssh
<1>1. Ip[n] \in Address
  BY GraphAssumption
<1>2. /\ stack' = Append(stack, Ip[n])
      /\ stack' \in Seq(Address)
      /\ Len(stack') = Len(stack) + 1 /\ Len(stack) \in Nat
      /\ DOMAIN stack = 1 .. Len(stack)
      /\ DOMAIN stack' = 1 .. Len(stack) + 1
      /\ \A i \in 1 .. Len(stack) : stack'[i] = stack[i]
      /\ stack'[Len(stack) + 1] = Ip[n]
  BY <1>1 DEF TypeOK
<1>3. stack = <<>> <=> Len(stack) = 0
  BY DEF TypeOK
<1>4. /\ Ip[n] # entry
      /\ \A j \in 1 .. Len(stack) : stack[j] # Ip[n]
  BY <1>2 DEF Occupied, Standing
<1>5. CanReach(IF Len(stack) = 0 THEN entry ELSE stack[Len(stack)], Ip[n])
  BY <1>3 DEF VantageIp
<1>6. ASSUME NEW i \in DOMAIN stack'
      PROVE  /\ stack'[i] # entry'
             /\ \A j \in DOMAIN stack' : stack'[i] = stack'[j] => i = j
             /\ CanReach(IF i = 1 THEN entry ELSE stack'[i - 1], stack'[i])
  <2>1. CASE i \in 1 .. Len(stack)
    <3>1. stack'[i] = stack[i] /\ (i # 1 => stack'[i - 1] = stack[i - 1])
      BY <1>2, <2>1
    <3>2. /\ stack[i] # entry
          /\ \A j \in 1 .. Len(stack) : stack[i] = stack[j] => i = j
          /\ CanReach(IF i = 1 THEN entry ELSE stack[i - 1], stack[i])
      BY <1>2, <2>1 DEF PathIsSound
    <3>3. \A j \in DOMAIN stack' : stack'[i] = stack'[j] => i = j
      BY <1>2, <1>4, <2>1, <3>1, <3>2
    <3> QED BY <3>1, <3>2, <3>3
  <2>2. CASE i = Len(stack) + 1
    <3>0. i # 1 => i - 1 \in 1 .. Len(stack)
      BY <1>2, <2>2
    <3>1. stack'[i] = Ip[n] /\ (i # 1 => stack'[i - 1] = stack[i - 1])
      BY <1>2, <2>2, <3>0
    <3>2. \A j \in DOMAIN stack' : stack'[i] = stack'[j] => i = j
      BY <1>2, <1>4, <2>2
    <3>3. CASE Len(stack) = 0
      <4>1. i = 1 /\ CanReach(entry, Ip[n])
        BY <1>2, <1>5, <2>2, <3>3
      <4> QED BY <1>4, <3>1, <3>2, <4>1
    <3>4. CASE Len(stack) # 0
      <4>1. i # 1 /\ i - 1 = Len(stack) /\ CanReach(stack[Len(stack)], Ip[n])
        BY <1>2, <1>5, <2>2, <3>4
      <4>2. CanReach(stack'[i - 1], stack'[i])
        BY <3>1, <4>1
      <4> QED BY <1>4, <3>1, <3>2, <4>1, <4>2
    <3> QED BY <3>3, <3>4
  <2> QED BY <1>2, <2>1, <2>2
<1> QED BY <1>2, <1>6 DEF PathIsSound
(* Leaving a pivot keeps what is left of the path. *)
LEMMA PreviousFoothold ==
  ASSUME TypeOK, PathIsSound, Exit
  PROVE  /\ stack' \in Seq(Address) /\ Len(stack') = Len(stack) - 1
         /\ PathIsSound'
<1> USE DEF Exit
<1>1. Len(stack) \in Nat /\ Len(stack) # 0 /\ DOMAIN stack = 1 .. Len(stack)
  BY DEF TypeOK
<1>2. /\ stack' \in Seq(Address)
      /\ Len(stack') = Len(stack) - 1
      /\ DOMAIN stack' = 1 .. Len(stack) - 1
      /\ \A i \in 1 .. Len(stack) - 1 : stack'[i] = stack[i]
  BY <1>1, SubSeqProperties DEF TypeOK
<1>3. ASSUME NEW i \in DOMAIN stack'
      PROVE  /\ stack'[i] # entry'
             /\ \A j \in DOMAIN stack' : stack'[i] = stack'[j] => i = j
             /\ CanReach(IF i = 1 THEN entry ELSE stack'[i - 1], stack'[i])
  <2>1. i \in 1 .. Len(stack) /\ stack'[i] = stack[i]
    BY <1>1, <1>2
  <2>2. i # 1 => i - 1 \in 1 .. Len(stack) - 1
    BY <1>1, <1>2
  <2>3. i # 1 => stack'[i - 1] = stack[i - 1]
    BY <1>2, <2>2
  <2>4. /\ stack[i] # entry
        /\ \A j \in 1 .. Len(stack) : stack[i] = stack[j] => i = j
        /\ CanReach(IF i = 1 THEN entry ELSE stack[i - 1], stack[i])
    BY <1>1, <2>1 DEF PathIsSound
  <2>5. \A j \in DOMAIN stack' : stack'[i] = stack'[j] => i = j
    BY <1>1, <1>2, <2>1, <2>4
  <2> QED BY <2>1, <2>3, <2>4, <2>5
<1> QED BY <1>2, <1>3 DEF PathIsSound

(* A touch moves the trace by one at least, or leaves it tripped. *)
LEMMA TouchAdvances ==
  ASSUME TypeOK, NEW n \in Node,
         progress' = Advance(progress, TraceCost(Security[n]), BounceHops)
  PROVE  /\ progress' \in 0 .. Threshold /\ progress <= progress'
         /\ ~Traced => progress + 1 <= progress'
<1>1. BounceHops \in Nat
  BY DEF TypeOK, BounceHops
<1>2. progress \in 0 .. Threshold
  BY DEF TypeOK
<1> QED BY <1>1, <1>2, AdvanceFacts, GraphAssumption DEF Traced

(* One more log adds at most one foreign node. *)
LEMMA LogCount ==
  ASSUME NEW L \in SUBSET Node, NEW n \in Node
  PROVE  /\ Cardinality(L \cap Foreign) \in Nat
         /\ Cardinality((L \cup {n}) \cap Foreign) \in Nat
         /\ Cardinality((L \cup {n}) \cap Foreign) <= Cardinality(L \cap Foreign) + 1
         /\ Cardinality((L \ {n}) \cap Foreign) \in Nat
         /\ Cardinality((L \ {n}) \cap Foreign) <= Cardinality(L \cap Foreign)
<1>1. IsFiniteSet(L \cap Foreign)
  <2>1. L \cap Foreign \in SUBSET Node
    OBVIOUS
  <2>2. IsFiniteSet(Node)
    BY GraphAssumption
  <2> QED BY <2>1, <2>2, FS_Subset
<1>2. /\ Cardinality(L \cap Foreign) \in Nat
      /\ Cardinality((L \cap Foreign) \cup {n}) \in Nat
      /\ Cardinality((L \cap Foreign) \cup {n}) <= Cardinality(L \cap Foreign) + 1
  <2>1. Cardinality(L \cap Foreign) \in Nat
    BY <1>1, FS_CardinalityType
  <2>2. Cardinality((L \cap Foreign) \cup {n})
          = IF n \in L \cap Foreign THEN Cardinality(L \cap Foreign)
            ELSE Cardinality(L \cap Foreign) + 1
    BY <1>1, FS_AddElement
  <2> QED BY <2>1, <2>2
<1>3. /\ Cardinality((L \cup {n}) \cap Foreign) \in Nat
      /\ Cardinality((L \cup {n}) \cap Foreign) <= Cardinality((L \cap Foreign) \cup {n})
  <2>1. (L \cup {n}) \cap Foreign \subseteq (L \cap Foreign) \cup {n}
    OBVIOUS
  <2>2. IsFiniteSet((L \cap Foreign) \cup {n})
    BY <1>1, FS_AddElement
  <2> QED BY <2>1, <2>2, FS_Subset, FS_CardinalityType
<1>4. /\ Cardinality((L \ {n}) \cap Foreign) \in Nat
      /\ Cardinality((L \ {n}) \cap Foreign) <= Cardinality(L \cap Foreign)
  <2>1. (L \ {n}) \cap Foreign \subseteq L \cap Foreign
    OBVIOUS
  <2> QED BY <1>1, <2>1, FS_Subset, FS_CardinalityType
<1> QED BY <1>2, <1>3, <1>4
(* An outage is downstream of its cut, whole, and made of nodes. *)
LEMMA OutageFacts ==
  ASSUME NEW n \in Node
  PROVE  Outage(n) \subseteq Node /\ Closed(Deps, Outage(n))
<1>1. CASE n \in CutsPower
  BY <1>1, DownstreamLeast, GraphAssumption DEF Outage
<1>2. CASE n \notin CutsPower
  BY <1>2 DEF Outage, Closed
<1> QED BY <1>1, <1>2

IInv == TypeOK /\ PathIsSound /\ ReachIsPaid /\ OutageIsWhole

(* A fresh session stands at its entry, has touched nothing and darkened nothing. *)
LEMMA InitInv == Init => IInv
<1> SUFFICES ASSUME Init PROVE IInv
  OBVIOUS
<1> USE DEF Init
<1>1. TypeOK
  BY GraphAssumption DEF TypeOK
<1>2. PathIsSound
  BY DEF PathIsSound
<1>3. ReachIsPaid
  <2>1. logs \cap Foreign = {}
    OBVIOUS
  <2>2. Cardinality(logs \cap Foreign) = 0
    BY <2>1, FS_EmptySet
  <2>3. Len(stack) = 0
    OBVIOUS
  <2> QED BY <2>2, <2>3 DEF ReachIsPaid
<1>4. OutageIsWhole
  BY DEF OutageIsWhole, Closed
<1> QED BY <1>1, <1>2, <1>3, <1>4 DEF IInv

(* A new vantage keeps the session invariant: the path starts again. *)
LEMMA SetVantageInv ==
  ASSUME IInv, NEW ip \in Vantage, SetVantage(ip)
  PROVE  IInv'
<1> USE DEF IInv, SetVantage
<1>1. TypeOK'
  BY DEF TypeOK
<1>2. PathIsSound'
  BY DEF PathIsSound
<1>3. ReachIsPaid'
  <2>1. Len(stack) \in Nat /\ Len(stack') = 0
    BY DEF TypeOK
  <2>2. Cardinality(logs \cap Foreign) \in Nat
    <3>1. logs \in SUBSET Node
      BY DEF TypeOK
    <3>2. CASE Node = {}
      <4>1. logs \cap Foreign = {}
        BY <3>1, <3>2
      <4>2. Cardinality(logs \cap Foreign) = 0
        BY <4>1, FS_EmptySet, Zenon
      <4> QED BY <4>2
    <3>3. CASE Node # {}
      BY <3>1, <3>3, LogCount
    <3> QED BY <3>2, <3>3
  <2> QED BY <2>1, <2>2 DEF ReachIsPaid, Traced, TypeOK
<1>4. OutageIsWhole'
  BY DEF OutageIsWhole
<1> QED BY <1>1, <1>2, <1>3, <1>4

(* A login keeps the session invariant. *)
LEMMA SshInv ==
  ASSUME IInv, NEW n \in Node, Ssh(n)
  PROVE  IInv'
<1> USE DEF IInv
<1>1. /\ progress' \in 0 .. Threshold /\ progress <= progress'
      /\ ~Traced => progress + 1 <= progress'
  BY TouchAdvances DEF Ssh
<1>2. TypeOK'
  BY <1>1, NextFoothold DEF TypeOK, Ssh
<1>3. ReachIsPaid'
  <2>1. Len(stack) \in Nat /\ Len(stack') = Len(stack) + 1
    BY GraphAssumption DEF TypeOK, Ssh
  <2>2. Cardinality(logs \cap Foreign) \in Nat
    BY LogCount DEF TypeOK
  <2>3. logs' = logs
    BY DEF Ssh
  <2> QED BY <1>1, <2>1, <2>2, <2>3, GraphAssumption DEF ReachIsPaid, Traced, TypeOK
<1>4. OutageIsWhole'
  BY DEF OutageIsWhole, Ssh
<1> QED BY <1>2, <1>3, <1>4, NextFoothold

(* A hack keeps the session invariant: what it cuts is cut downstream. *)
LEMMA HackInv ==
  ASSUME IInv, NEW n \in Node, Hack(n)
  PROVE  IInv'
<1> USE DEF IInv
<1>1. /\ progress' \in 0 .. Threshold /\ progress <= progress'
      /\ ~Traced /\ ~IsLocal(n) => progress + 1 <= progress'
  BY TouchAdvances DEF Hack, TypeOK
<1>2. TypeOK'
  BY <1>1, OutageFacts DEF TypeOK, Hack
<1>3. PathIsSound'
  BY DEF PathIsSound, Hack
<1>4. ReachIsPaid'
  <2>1. Len(stack) \in Nat /\ stack' = stack /\ logs' = logs \cup {n}
    BY DEF TypeOK, Hack
  <2>2. /\ Cardinality(logs \cap Foreign) \in Nat
        /\ Cardinality(logs' \cap Foreign) \in Nat
        /\ Cardinality(logs' \cap Foreign) <= Cardinality(logs \cap Foreign) + 1
    BY <2>1, LogCount DEF TypeOK
  <2>3. CASE IsLocal(n)
    <3>1. n \notin Foreign
      BY <2>3 DEF IsLocal, Foreign, TypeOK
    <3>2. logs' \cap Foreign = logs \cap Foreign
      BY <2>1, <3>1
    <3>3. Len(stack') + Cardinality(logs' \cap Foreign)
            = Len(stack) + Cardinality(logs \cap Foreign)
      BY <2>1, <3>2
    <3>4. Traced \/ Len(stack) + Cardinality(logs \cap Foreign) <= progress
      BY DEF ReachIsPaid
    <3> QED BY <1>1, <2>1, <2>2, <3>3, <3>4, GraphAssumption DEF ReachIsPaid, Traced, TypeOK
  <2>4. CASE ~IsLocal(n)
    BY <1>1, <2>1, <2>2, <2>4, GraphAssumption DEF ReachIsPaid, Traced, TypeOK
  <2> QED BY <2>3, <2>4
<1>5. OutageIsWhole'
  BY OutageFacts DEF OutageIsWhole, Closed, Hack
<1> QED BY <1>2, <1>3, <1>4, <1>5

(* A scrub keeps the session invariant: a log less, and the trace paid for it stays. *)
LEMMA ScrubInv ==
  ASSUME IInv, NEW n \in Node, Scrub(n)
  PROVE  IInv'
<1> USE DEF IInv, Scrub
<1>1. TypeOK'
  BY DEF TypeOK
<1>2. PathIsSound'
  BY DEF PathIsSound
<1>3. ReachIsPaid'
  <2>1. /\ Cardinality(logs \cap Foreign) \in Nat
        /\ Cardinality(logs' \cap Foreign) \in Nat
        /\ Cardinality(logs' \cap Foreign) <= Cardinality(logs \cap Foreign)
    BY LogCount DEF TypeOK
  <2>2. Len(stack) \in Nat
    BY DEF TypeOK
  <2> QED BY <2>1, <2>2, GraphAssumption DEF ReachIsPaid, Traced, TypeOK
<1>4. OutageIsWhole'
  BY DEF OutageIsWhole
<1> QED BY <1>1, <1>2, <1>3, <1>4

(* An exit keeps the session invariant: it steps back the way it came. *)
LEMMA ExitInv ==
  ASSUME IInv, Exit
  PROVE  IInv'
<1> USE DEF IInv
<1>1. TypeOK'
  BY PreviousFoothold DEF TypeOK, Exit
<1>2. ReachIsPaid'
  <2>1. logs' = logs /\ progress' = progress /\ Len(stack) \in Nat
    BY DEF Exit, TypeOK
  <2>2. Len(stack') = Len(stack) - 1
    BY PreviousFoothold
  <2>3. Cardinality(logs \cap Foreign) \in Nat
    <3>1. CASE Node = {}
      <4>1. logs \cap Foreign = {}
        BY <3>1 DEF TypeOK
      <4>2. Cardinality(logs \cap Foreign) = 0
        BY <4>1, FS_EmptySet, Zenon
      <4> QED BY <4>2
    <3>2. CASE Node # {}
      BY <3>2, LogCount DEF TypeOK
    <3> QED BY <3>1, <3>2
  <2> QED BY <2>1, <2>2, <2>3, GraphAssumption DEF ReachIsPaid, Traced, TypeOK
<1>3. OutageIsWhole'
  BY DEF OutageIsWhole, Exit
<1> QED BY <1>1, <1>2, <1>3, PreviousFoothold

(* The inductive invariant of a session: types, path, trace and outage. *)
THEOREM Invariant == Spec => []IInv
<1>1. IInv /\ [Next]_vars => IInv'
  <2> SUFFICES ASSUME IInv, [Next]_vars
               PROVE  IInv'
    OBVIOUS
  <2>1. ASSUME NEW ip \in Vantage, SetVantage(ip) PROVE IInv'
    BY <2>1, SetVantageInv
  <2>2. ASSUME NEW n \in Node, Ssh(n) PROVE IInv'
    BY <2>2, SshInv
  <2>3. ASSUME NEW n \in Node, Hack(n) PROVE IInv'
    BY <2>3, HackInv
  <2>4. ASSUME NEW n \in Node, Scrub(n) PROVE IInv'
    BY <2>4, ScrubInv
  <2>5. CASE Exit
    BY <2>5, ExitInv
  <2>6. CASE UNCHANGED vars
    BY <2>6 DEF vars, IInv, TypeOK, PathIsSound, ReachIsPaid, Traced, OutageIsWhole
  <2> QED BY <2>1, <2>2, <2>3, <2>4, <2>5, <2>6 DEF Next
<1> QED BY <1>1, InitInv, PTL DEF Spec

(* The session's fields keep their types: the trace stays within its       *)
(* threshold, every foothold is an address (session.rs:34-40, trace.rs).   *)
THEOREM TypeCorrect == Spec => []TypeOK
<1>1. IInv => TypeOK
  BY DEF IInv
<1> QED BY <1>1, Invariant, PTL

(* On any graph the pivots form a path of distinct hosts out of the entry, *)
(* each reachable from the one before (session.rs:124-149).                *)
THEOREM PathSound == Spec => []PathIsSound
<1>1. IInv => PathIsSound
  BY DEF IInv
<1> QED BY <1>1, Invariant, PTL

(* On any graph and for any threshold, every foothold and every foreign    *)
(* node that carries a log has moved the trace (trace.rs:65-69).           *)
THEOREM ReachPaid == Spec => []ReachIsPaid
<1>1. IInv => ReachIsPaid
  BY DEF IInv
<1> QED BY <1>1, Invariant, PTL

(* Nothing powered draws from a dead node, whatever was hacked, scrubbed or *)
(* walked away from (effect.rs:42-69, agents.rs:164-178).                   *)
THEOREM OutagesWhole == Spec => []OutageIsWhole
<1>1. IInv => OutageIsWhole
  BY DEF IInv
<1> QED BY <1>1, Invariant, PTL

(* On any graph the path of pivots is sound and what it reaches was paid for. *)
THEOREM PathPaid == Spec => []PathIsPaid
BY PathSound, ReachPaid, PTL DEF PathIsPaid

-------------------------------------------------------------------------------
(* The session on the floor that is shipped.                                *)

(* The floor's graph, but for who draws from whom. *)
ShippedFloor ==
  /\ Node = GridNodes /\ Vantage = GridVantages /\ Segment = GridSegments
  /\ Ip = GridIp /\ SegmentOf = GridSegmentOf /\ CanAccess = GridAccess /\ Category = GridCategory
  /\ Kind = GridKind /\ Security = GridSecurity /\ CutsPower = GridCuts

Paid(n) == Traced \/ progress >= n

(* There is one way to the jump host, and what each hop of it has cost. *)
WayInv ==
  /\ stack \in {<<>>, <<"bms">>, <<"ops">>, <<"ops", "jump">>}
  /\ stack = <<"ops">> => Paid(40)
  /\ stack = <<"ops", "jump">> => Paid(60)
  /\ DarknessIsPaid

(* Where the floor's addresses lie. *)
LEMMA FloorSegments ==
  ASSUME ShippedFloor
  PROVE  /\ SegmentOf["van"] = "perimeter-wifi" /\ SegmentOf["room"] = "auto-hall" /\ SegmentOf["door"] = "auto-hall"
         /\ SegmentOf["bms"] = "bms" /\ SegmentOf["feed"] = "bms" /\ SegmentOf["ops"] = "isp"
         /\ SegmentOf["jump"] = "utility-dmz" /\ SegmentOf["substation"] = "utility"
BY DEF ShippedFloor, GridSegmentOf, GridAddresses, GridNodes

(* What each segment where one can stand has access to. *)
LEMMA FloorAccess ==
  ASSUME ShippedFloor
  PROVE  /\ CanAccess["perimeter-wifi"] = {"bms", "isp"} /\ CanAccess["auto-hall"] = {"bms"}
         /\ CanAccess["bms"] = {"auto-hall", "perimeter-wifi"} /\ CanAccess["isp"] = {"utility-dmz"}
         /\ CanAccess["utility-dmz"] = {"utility"} /\ CanAccess["utility"] = {}
BY DEF ShippedFloor, GridAccess, GridSegments

(* No segment of the floor has an Internet provider's shortcut. *)
LEMMA NoShortcut ==
  ASSUME ShippedFloor, NEW src \in GridSegments, NEW dst \in GridSegments
  PROVE  ~CanRouteViaIsp(src, dst)
<1>1. CanAccess[src] \subseteq GridSegments
  BY FloorAccess DEF GridSegments
<1>2. GridSegments \cap (Tier3 \cup Public) = {}
  BY DEF Tier3, Public, GridSegments
<1>3. ~ReachesAny(src, Tier3 \cup Public)
  BY <1>1, <1>2 DEF ReachesAny
<1>4. Category[dst] # "service"
  BY DEF ShippedFloor, GridCategory
<1> QED BY <1>3, <1>4 DEF CanRouteViaIsp

(* Which hosts and devices answer from where one can stand. *)
LEMMA FloorReach ==
  ASSUME ShippedFloor, NEW n \in GridNodes
  PROVE  /\ CanReach("van", n) => n \in {"bms", "ops", "feed"}
         /\ CanReach("room", n) => n \in {"bms", "feed", "door"}
         /\ CanReach("bms", n) => n \in {"bms", "feed", "door"}
         /\ CanReach("ops", n) => n \in {"ops", "jump"}
         /\ CanReach("jump", n) => n \in {"jump", "substation"}
<1>1. SegmentOf[n] \in GridSegments /\ SegmentOf[n] # None
  <2>1. None \notin GridSegments
    BY GraphAssumption DEF ShippedFloor
  <2>2. SegmentOf[n] \in GridSegments
    BY FloorSegments DEF GridNodes, GridSegments
  <2> QED BY <2>1, <2>2
<1>2. ASSUME NEW from, SegmentOf[from] \in GridSegments, CanReach(from, n)
      PROVE  from = n \/ SegmentOf[from] = SegmentOf[n] \/ SegmentOf[n] \in CanAccess[SegmentOf[from]]
  BY <1>1, <1>2, NoShortcut DEF CanReach, SegmentCanReach
<1>3. /\ SegmentOf["van"] \in GridSegments /\ SegmentOf["room"] \in GridSegments /\ SegmentOf["bms"] \in GridSegments
      /\ SegmentOf["ops"] \in GridSegments /\ SegmentOf["jump"] \in GridSegments
  BY FloorSegments DEF GridSegments
<1>4. CanReach("van", n) => n \in {"bms", "ops", "feed"}
  BY <1>2, <1>3, FloorSegments, FloorAccess DEF GridNodes
<1>5. CanReach("room", n) => n \in {"bms", "feed", "door"}
  BY <1>2, <1>3, FloorSegments, FloorAccess DEF GridNodes
<1>6. CanReach("bms", n) => n \in {"bms", "feed", "door"}
  BY <1>2, <1>3, FloorSegments, FloorAccess DEF GridNodes
<1>7. CanReach("ops", n) => n \in {"ops", "jump"}
  BY <1>2, <1>3, FloorSegments, FloorAccess DEF GridNodes
<1>8. CanReach("jump", n) => n \in {"jump", "substation"}
  BY <1>2, <1>3, FloorSegments, FloorAccess DEF GridNodes
<1> QED BY <1>4, <1>5, <1>6, <1>7, <1>8

(* A login is a hop more. *)
LEMMA LoginHop ==
  ASSUME NEW S, NEW a \in Seq(S), NEW y \in S
  PROVE  /\ Append(a, y) \in Seq(S) /\ Len(Append(a, y)) = Len(a) + 1
         /\ \A i \in 1..Len(a) : Append(a, y)[i] = a[i]
         /\ Append(a, y)[Len(a) + 1] = y
OBVIOUS

(* A path of two hosts, a login longer and an exit shorter. *)
LEMMA Hops ==
  ASSUME NEW S, NEW x \in S, NEW y \in S
  PROVE  Append(<<x>>, y) = <<x, y>> /\ SubSeq(<<x, y>>, 1, Len(<<x, y>>) - 1) = <<x>>
<1> DEFINE one == <<x>>
           two == <<x, y>>
           longer == Append(one, y)
           shorter == SubSeq(two, 1, Len(two) - 1)
<1>1. one \in Seq(S) /\ Len(one) = 1 /\ one[1] = x /\ two \in Seq(S) /\ Len(two) = 2 /\ two[1] = x /\ two[2] = y
  OBVIOUS
<1> HIDE DEF one, two
<1>2. longer \in Seq(S) /\ Len(longer) = 2 /\ longer[1] = x /\ longer[2] = y
  <2>1. /\ longer \in Seq(S) /\ Len(longer) = Len(one) + 1
        /\ \A i \in 1..Len(one) : longer[i] = one[i]
        /\ longer[Len(one) + 1] = y
    BY <1>1, LoginHop
  <2> HIDE DEF longer
  <2>2. 1 \in 1..Len(one) /\ Len(one) + 1 = 2
    BY <1>1
  <2> QED BY <1>1, <2>1, <2>2
<1>3. shorter \in Seq(S) /\ Len(shorter) = 1 /\ shorter[1] = x
  BY <1>1
<1> HIDE DEF longer, shorter
<1>4. longer = two
  <2>1. \A i \in 1..Len(longer) : longer[i] = two[i]
    BY <1>1, <1>2
  <2> QED BY <1>1, <1>2, <2>1, SeqEqual
<1>5. shorter = one
  <2>1. \A i \in 1..Len(shorter) : shorter[i] = one[i]
    BY <1>1, <1>3
  <2> QED BY <1>1, <1>3, <2>1, SeqEqual
<1> QED BY <1>4, <1>5, Zenon DEF one, two, longer, shorter

(* What a touch costs: its rate at the depth it is made from, or the trace. *)
LEMMA TouchCosts ==
  ASSUME NEW p \in 0 .. Threshold, NEW base \in Nat, NEW hops \in 1 .. 3, NEW cost \in Nat,
         base >= cost * hops, cost >= 1
  PROVE  Advance(p, base, hops) >= Threshold \/ Advance(p, base, hops) >= p + cost
<1>1. base \div hops >= cost /\ base # 0 /\ base \div hops \in Nat
  <2>1. CASE hops = 1
    BY <2>1
  <2>2. CASE hops = 2
    BY <2>2
  <2>3. CASE hops = 3
    BY <2>3
  <2> QED BY <2>1, <2>2, <2>3
<1>2. Rate(base, hops) = base \div hops
  BY <1>1 DEF Rate, Greater
<1> QED BY <1>1, <1>2, GraphAssumption DEF Advance, Lesser

(* A login on the floor keeps the way: each hop is paid for. *)
LEMMA SshWay ==
  ASSUME ShippedFloor, IInv, WayInv, NEW n \in Node, Ssh(n)
  PROVE  WayInv'
<1>1. /\ n \in GridNodes /\ Ip[n] = n /\ Node = GridNodes /\ entry \in {"van", "room"} /\ progress \in 0 .. Threshold
      /\ Threshold \in Nat
  BY GraphAssumption DEF ShippedFloor, GridIp, GridVantages, IInv, TypeOK
<1>2. /\ n # VantageIp /\ n # entry /\ n \notin Standing /\ CanReach(VantageIp, n) /\ stack' = Append(stack, n)
      /\ progress' = Advance(progress, TraceCost(Security[n]), BounceHops) /\ dead' = dead
  BY <1>1 DEF Ssh, Occupied
<1>3. n \in {"bms", "ops", "jump"}
  BY <1>1 DEF Ssh, ShippedFloor, GridKind
<1>4. progress <= progress' /\ progress' \in 0 .. Threshold
  BY <1>2, TouchAdvances DEF IInv
<1>5. DarknessIsPaid'
  BY <1>1, <1>2, <1>4 DEF WayInv, DarknessIsPaid, Traced
<1>6. CASE stack = <<>>
  <2>1. VantageIp = entry /\ BounceHops = 1 /\ stack' = <<n>>
    BY <1>2, <1>6 DEF VantageIp, BounceHops
  <2>2. n \in {"bms", "ops"}
    BY <1>1, <1>2, <1>3, <2>1, FloorReach
  <2>3. n = "ops" => Paid(40)'
    <3>1. n = "ops" => TraceCost(Security[n]) = 40
      BY <1>1 DEF ShippedFloor, GridSecurity, TraceCost
    <3>2. n = "ops" => progress' = Advance(progress, 40, 1)
      BY <1>2, <2>1, <3>1
    <3>3. Advance(progress, 40, 1) >= Threshold \/ Advance(progress, 40, 1) >= progress + 40
      BY <1>1, TouchCosts
    <3> QED BY <1>1, <1>4, <3>2, <3>3 DEF Paid, Traced
  <2>4. stack' # <<"ops", "jump">> /\ (stack' = <<"ops">> => n = "ops") /\ stack' \in {<<"bms">>, <<"ops">>}
    BY <2>1, <2>2
  <2> QED BY <1>5, <2>3, <2>4 DEF WayInv
<1>7. CASE stack = <<"bms">>
  <2>1. VantageIp = "bms"
    BY <1>7 DEF VantageIp
  <2> QED BY <1>1, <1>2, <1>3, <2>1, FloorReach
<1>8. CASE stack = <<"ops">>
  <2>1. VantageIp = "ops" /\ BounceHops = 2
    BY <1>8 DEF VantageIp, BounceHops
  <2>2. n = "jump"
    BY <1>1, <1>2, <1>3, <2>1, FloorReach
  <2>3. Paid(60)'
    <3>1. TraceCost(Security[n]) = 40
      BY <1>1, <2>2 DEF ShippedFloor, GridSecurity, TraceCost
    <3>2. progress' = Advance(progress, 40, 2)
      BY <1>2, <2>1, <3>1
    <3>3. Advance(progress, 40, 2) >= Threshold \/ Advance(progress, 40, 2) >= progress + 20
      BY <1>1, TouchCosts
    <3> QED BY <1>1, <1>4, <1>8, <3>2, <3>3 DEF WayInv, Paid, Traced
  <2>4. stack' = <<"ops", "jump">>
    <3> DEFINE one == <<"ops">>
               two == <<"ops", "jump">>
    <3>1. "ops" \in GridNodes /\ "jump" \in GridNodes
      BY DEF GridNodes
    <3>2. Append(one, "jump") = two
      BY <3>1, Hops, Zenon
    <3>3. stack = one
      BY <1>8
    <3> HIDE DEF one, two
    <3>4. stack' = two
      BY <1>2, <2>2, <3>2, <3>3
    <3> QED BY <3>4 DEF two
  <2> QED BY <1>5, <2>3, <2>4 DEF WayInv
<1>9. CASE stack = <<"ops", "jump">>
  <2>1. VantageIp = "jump"
    BY <1>9 DEF VantageIp
  <2> QED BY <1>1, <1>2, <1>3, <2>1, FloorReach
<1> QED BY <1>6, <1>7, <1>8, <1>9 DEF WayInv

(* A hack on the floor keeps the way: the substation answers from the jump   *)
(* host alone, and is not at home there.                                    *)
LEMMA HackWay ==
  ASSUME ShippedFloor, IInv, WayInv, NEW n \in Node, Hack(n)
  PROVE  WayInv'
<1>1. /\ n \in GridNodes /\ Ip[n] = n /\ Node = GridNodes /\ entry \in {"van", "room"} /\ progress \in 0 .. Threshold
      /\ Threshold \in Nat
  BY GraphAssumption DEF ShippedFloor, GridIp, GridVantages, IInv, TypeOK
<1>2. CanReach(VantageIp, n) /\ stack' = stack /\ dead' = dead \cup Outage(n)
  BY <1>1 DEF Hack
<1>3. progress <= progress' /\ progress' \in 0 .. Threshold
  <2>1. CASE progress' = progress
    BY <1>1, <2>1
  <2>2. CASE progress' = Advance(progress, TraceCost(Security[n]), BounceHops)
    BY <2>2, TouchAdvances DEF IInv
  <2> QED BY <2>1, <2>2 DEF Hack
<1>4. Paid(40) => Paid(40)'
  BY <1>1, <1>3 DEF Paid, Traced
<1>5. Paid(60) => Paid(60)'
  BY <1>1, <1>3 DEF Paid, Traced
<1>6. DarknessIsPaid'
  <2>1. CASE n = "substation"
    <3>1. stack = <<"ops", "jump">>
      <4>1. stack = <<>> => VantageIp = entry
        BY DEF VantageIp
      <4>2. stack = <<"bms">> => VantageIp = "bms"
        BY DEF VantageIp
      <4>3. stack = <<"ops">> => VantageIp = "ops"
        BY DEF VantageIp
      <4> QED BY <1>1, <1>2, <2>1, <4>1, <4>2, <4>3, FloorReach DEF WayInv
    <3>2. ~IsLocal(n) /\ BounceHops = 3
      BY <3>1 DEF IsLocal, BounceHops
    <3>3. TraceCost(Security[n]) = 40
      BY <1>1, <2>1 DEF ShippedFloor, GridSecurity, TraceCost
    <3>4. progress' = Advance(progress, 40, 3)
      BY <3>2, <3>3 DEF Hack
    <3>5. progress' >= Threshold \/ progress' >= progress + 13
      BY <1>1, <3>4, TouchCosts, 40 >= 13 * 3
    <3> QED BY <1>1, <1>3, <3>1, <3>5 DEF WayInv, Paid, DarknessIsPaid, Traced
  <2>2. CASE n # "substation"
    <3>1. Outage(n) = {}
      BY <2>2 DEF Outage, ShippedFloor, GridCuts
    <3> QED BY <1>1, <1>2, <1>3, <3>1 DEF WayInv, DarknessIsPaid, Traced
  <2> QED BY <2>1, <2>2
<1> QED BY <1>2, <1>4, <1>5, <1>6 DEF WayInv

(* An exit on the floor keeps the way: a hop less was paid for with more.    *)
LEMMA ExitWay ==
  ASSUME ShippedFloor, IInv, WayInv, Exit
  PROVE  WayInv'
<1>1. progress \in 0 .. Threshold /\ Threshold \in Nat /\ progress' = progress /\ dead' = dead
  BY GraphAssumption DEF Exit, IInv, TypeOK
<1>2. DarknessIsPaid'
  BY <1>1 DEF WayInv, DarknessIsPaid, Traced
<1>3. CASE stack = <<"bms">> \/ stack = <<"ops">>
  <2>1. stack' = <<>>
    BY <1>3 DEF Exit
  <2> QED BY <1>2, <2>1 DEF WayInv
<1>4. CASE stack = <<"ops", "jump">>
  <2>1. stack' = <<"ops">>
    <3> DEFINE one == <<"ops">>
               two == <<"ops", "jump">>
    <3>1. "ops" \in GridNodes /\ "jump" \in GridNodes
      BY DEF GridNodes
    <3>2. SubSeq(two, 1, Len(two) - 1) = one
      BY <3>1, Hops, Zenon
    <3>3. stack = two
      BY <1>4
    <3> HIDE DEF one, two
    <3>4. stack' = one
      BY <3>2, <3>3 DEF Exit
    <3> QED BY <3>4 DEF one
  <2>2. Paid(40)'
    BY <1>1, <1>4 DEF WayInv, Paid, Traced
  <2> QED BY <1>2, <2>1, <2>2 DEF WayInv
<1> QED BY <1>3, <1>4 DEF Exit, WayInv

(* On the floor that is shipped, whatever threshold its trace has and whoever  *)
(* draws from whom: an outage is whole, and whoever darkens the substation has *)
(* paid its 73 of trace or has been traced (floor_graph.rs:120-126,          *)
(* session.rs:145-181, trace.rs:65-69).                                     *)
THEOREM DarkFloor == ShippedFloor => (Spec => []DarknessIsWhole)
<1> SUFFICES ASSUME ShippedFloor PROVE Spec => []DarknessIsWhole
  OBVIOUS
<1>1. Init => WayInv
  BY DEF Init, WayInv, DarknessIsPaid
<1>2. IInv /\ WayInv /\ [Next]_vars => WayInv'
  <2> SUFFICES ASSUME IInv, WayInv, [Next]_vars PROVE WayInv'
    OBVIOUS
  <2>1. ASSUME NEW ip \in Vantage, SetVantage(ip) PROVE WayInv'
    BY <2>1 DEF SetVantage, WayInv, DarknessIsPaid, Traced
  <2>2. ASSUME NEW n \in Node, Ssh(n) PROVE WayInv'
    BY <2>2, SshWay
  <2>3. ASSUME NEW n \in Node, Hack(n) PROVE WayInv'
    BY <2>3, HackWay
  <2>4. ASSUME NEW n \in Node, Scrub(n) PROVE WayInv'
    BY <2>4 DEF Scrub, WayInv, Paid, DarknessIsPaid, Traced
  <2>5. CASE Exit
    BY <2>5, ExitWay
  <2>6. CASE UNCHANGED vars
    BY <2>6 DEF vars, WayInv, Paid, DarknessIsPaid, Traced
  <2> QED BY <2>1, <2>2, <2>3, <2>4, <2>5, <2>6 DEF Next
<1>3. IInv /\ WayInv => DarknessIsWhole
  BY DEF IInv, WayInv, DarknessIsWhole
<1> QED BY <1>1, <1>2, <1>3, Invariant, PTL DEF Spec
================================================================================
