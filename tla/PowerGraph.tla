------------------------------ MODULE PowerGraph -------------------------------
(***************************************************************************)
(* Who draws power from whom on a floor: the deps of a grounded graph and  *)
(* what a cut reaches.  Downstream is the set a cut must darken, stated    *)
(* without an algorithm: PowerCascade has the code's worklist.             *)
(***************************************************************************)
CONSTANT Node    \* the ids of the graph's nodes

(* A pair <<n, m>> of deps says that n draws from m. *)
Closed(deps, S) == \A d \in deps : d[2] \in S => d[1] \in S

Downstream(deps, id) ==
  {n \in Node : \A S \in SUBSET Node : id \in S /\ Closed(deps, S) => n \in S}
===============================================================================
