---------------------------------- MODULE Routes ----------------------------------
(***************************************************************************)
(* shortest_path of crates/idaptik-core/src/scenario/building/graph.rs, a     *)
(* loop iteration a step, over any building the runtime accepts, between any  *)
(* of its rooms.                                                            *)
(***************************************************************************)
EXTENDS Building

CONSTANT
  Mapped  \* the building routes are sought in

ASSUME RoutesAssumption ==
  /\ Loads(Mapped) /\ IsFiniteSet(Rooms(Mapped))
  /\ \A i \in DOMAIN Mapped.portals : Mapped.portals[i].time \in Nat
  /\ None \notin BOOLEAN

VARIABLES
  search,   \* from, to and the portals the caller lets pass
  dist,     \* the least time found so far, by room
  prev,     \* the room and portal it was found through
  done,     \* the rooms settled
  found     \* None until the search ends, then whether there is a route

routeVars == <<search, dist, prev, done, found>>

MappedRooms == Rooms(Mapped)
MappedWays == ToSet(Mapped.portals)

(* What a caller lets pass: everything, what no lock shuts, and what is left *)
(* when the power is off too.                                                *)
Passables ==
  {MappedWays, {p \in MappedWays : p.lock = None},
   {p \in MappedWays : p.lock = None /\ p.circuit = None}}

RouteInit ==
  /\ search \in [from : MappedRooms, to : MappedRooms, passable : Passables]
  /\ dist = [r \in {search.from} |-> 0]
  /\ prev = <<>>
  /\ done = {} /\ found = None

(* The rooms with the least distance that are not settled.  The code takes *)
(* the first of them in room order; here any may be taken.                  *)
Nearest ==
  {r \in DOMAIN dist \ done : \A s \in DOMAIN dist \ done : dist[r] <= dist[s]}

(* The ways from a room to one that is not settled, as <<next, portal>>. *)
Onward(here) ==
  {<<CHOOSE r \in Ends(p) : r # here, p>> : p \in {p \in search.passable :
     here \in Ends(p) /\ Ends(p) \cap (done \ {here}) = {}}}

(* Mutant of Better: the first distance found is kept. *)
BetterNever(here) == {w \in Onward(here) : w[1] \notin DOMAIN dist}

(* Those of them the search takes: the cheapest to a room, if that is news. *)
Better(here) ==
  {w \in Onward(here) :
     /\ w[1] \notin DOMAIN dist \/ dist[here] + w[2].time < dist[w[1]]
     /\ \A v \in Onward(here) : v[1] = w[1] => w[2].time <= v[2].time}

(* The portal to each of those rooms. *)
WayOnward(here) ==
  [r \in {w[1] : w \in Better(here)} |-> (CHOOSE w \in Better(here) : w[1] = r)[2]]

(* A map with the entries of another put in: insert, of several rooms. *)
Inserted(map, new) ==
  [r \in DOMAIN map \cup DOMAIN new |-> IF r \in DOMAIN new THEN new[r] ELSE map[r]]

Settle ==
  /\ found = None
  /\ \E here \in Nearest :
       /\ here # search.to
       /\ done' = done \cup {here}
       /\ LET way == WayOnward(here) IN
          /\ dist' = Inserted(dist, [r \in DOMAIN way |-> dist[here] + way[r].time])
          /\ prev' = Inserted(prev, [r \in DOMAIN way |-> <<here, way[r]>>])
  /\ UNCHANGED <<search, found>>

Arrived ==
  /\ found = None /\ search.to \in Nearest
  /\ found' = TRUE
  /\ UNCHANGED <<search, dist, prev, done>>

Exhausted ==
  /\ found = None /\ Nearest = {}
  /\ found' = FALSE
  /\ UNCHANGED <<search, dist, prev, done>>

RouteNext == Settle \/ Arrived \/ Exhausted
RouteSpec == RouteInit /\ [][RouteNext]_routeVars

-------------------------------------------------------------------------------
(* Properties. *)

(* No route is shorter: with the settled rooms at their distance and every  *)
(* other room as far as the goal, no portal joins two rooms further apart   *)
(* than it takes, so no walk from `from` to `to` takes less than dist[to].  *)
(* And the predecessors unwind to a walk of just that length.  A search that *)
(* ends without a route has settled what reachable_rooms would reach, and the  *)
(* goal is none of it.                                                      *)
RouteIsShortest ==
  LET far(r) == IF r \in done THEN dist[r] ELSE dist[search.to] IN
  /\ found = TRUE =>
       /\ dist[search.from] = 0
       /\ \A p \in search.passable : \A r, s \in Ends(p) : far(r) <= far(s) + p.time
       /\ \A r \in (done \cup {search.to}) \ {search.from} :
            /\ prev[r][2] \in search.passable
            /\ Ends(prev[r][2]) = {r, prev[r][1]} /\ prev[r][1] \in done
            /\ dist[r] = dist[prev[r][1]] + prev[r][2].time
  /\ found = FALSE =>
       /\ search.to \notin done
       /\ done = ReachableRooms(Mapped, search.from, {p.id : p \in search.passable})
=============================================================================
