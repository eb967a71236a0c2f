----------------------------- MODULE PowerCascade ------------------------------
(***************************************************************************)
(* The power cascade of apply_actuation (netsim/effect.rs) and its landing *)
(* in the world (scenario/agents.rs): a cut walks the graph's deps         *)
(* backwards with a seen-set and a worklist, then every node it reached    *)
(* joins dead_nodes.  The worklist's pop order is left open.               *)
(***************************************************************************)
EXTENDS PowerGraph, FiniteSets

VARIABLES
  deps,      \* the graph's dependencies, any relation, cycles included
  walking,   \* a cut's walk is under way
  cut,       \* the node whose power is being cut
  seen, frontier,
  lost       \* dead_nodes, over all cuts so far

cascadeVars == <<deps, walking, cut, seen, frontier, lost>>

CascadeTypeOK ==
  /\ deps \in SUBSET (Node \X Node)
  /\ walking \in BOOLEAN
  /\ cut \in Node
  /\ seen \in SUBSET Node
  /\ frontier \in SUBSET seen
  /\ lost \in SUBSET Node

CascadeInit ==
  /\ deps \in SUBSET (Node \X Node)
  /\ walking = FALSE
  /\ cut \in Node
  /\ seen = {} /\ frontier = {} /\ lost = {}

(* An actuation that cuts id's power: the seen-set holds the cut node. *)
Cut(id) ==
  /\ ~walking
  /\ walking' = TRUE
  /\ cut' = id
  /\ seen' = {id}
  /\ frontier' = {id}
  /\ UNCHANGED <<deps, lost>>

(* Visit current: what draws from it and was not seen yet is to be visited. *)
(* Mutants of Newly: the deps read forwards; the seen-set not consulted. *)
NewlySupplier(current) == {other \in Node : <<current, other>> \in deps} \ seen
NewlyAgain(current) == {other \in Node : <<other, current>> \in deps}

Newly(current) == {other \in Node : <<other, current>> \in deps} \ seen

(* Mutant of Visit: what is pushed is not marked seen. *)
VisitUnmarked(current) ==
  /\ walking
  /\ current \in frontier
  /\ frontier' = (frontier \ {current}) \cup Newly(current)
  /\ UNCHANGED <<deps, walking, cut, seen, lost>>

Visit(current) ==
  /\ walking
  /\ current \in frontier
  /\ seen' = seen \cup Newly(current)
  /\ frontier' = (frontier \ {current}) \cup Newly(current)
  /\ UNCHANGED <<deps, walking, cut, lost>>

(* PowerCut unpowers the cut node, DevicePowerLost every other node seen. *)
Land ==
  /\ walking
  /\ frontier = {}
  /\ walking' = FALSE
  /\ lost' = lost \cup {cut} \cup {other \in seen : other # cut}
  /\ UNCHANGED <<deps, cut, seen, frontier>>

CascadeNext ==
  \/ \E id \in Node : Cut(id)
  \/ \E current \in Node : Visit(current)
  \/ Land

(* The walk is one function call: it runs to its end. *)
CascadeWalk == (\E current \in Node : Visit(current)) \/ Land

CascadeSpec == CascadeInit /\ [][CascadeNext]_cascadeVars /\ WF_cascadeVars(CascadeWalk)

-------------------------------------------------------------------------------

(* When the worklist is empty the walk has found exactly the outage: every *)
(* node that draws from the cut node through any chain, and no other       *)
(* (effect.rs:53-67).                                                      *)
WalkIsExact == walking /\ frontier = {} => seen = Downstream(deps, cut)

(* No powered node draws from a lost one: a cut lands whole, and a later   *)
(* one leaves the outages before it as they were (agents.rs:164-178).      *)
CascadeIsWhole == Closed(deps, lost)

(* "Visits each node once": what was popped in a walk is never pushed      *)
(* again, on a cyclic graph too (effect.rs:50-52).                         *)
VisitedOnce == [][walking /\ walking' =>
                    (seen \ frontier) \subseteq (seen' \ frontier')]_cascadeVars

(* "The seen-set makes this terminate even on cyclic deps" (effect.rs:51). *)
WalkEnds == walking ~> ~walking

(* Both: a walk finds exactly what is downstream, and the outage they add up  *)
(* to is whole.                                                             *)
CascadeIsExact == CascadeTypeOK /\ WalkIsExact /\ CascadeIsWhole
===============================================================================
