-------------------------------- MODULE Building --------------------------------
(***************************************************************************)
(* The building runtime (crates/idaptik-core/src/scenario/building): a       *)
(* definition of floors, portals, power circuits and network zones, the      *)
(* checks it must pass, the network derived from it, and a run that          *)
(* traverses portals, opens locks and cuts circuits.                         *)
(*                                                                         *)
(* Definitions keep their lists, as sequences of records with ids; labels,   *)
(* addresses and the export shapes are left out.  A refused command changes  *)
(* nothing and is no step.                                                   *)
(***************************************************************************)
EXTENDS Option, Integers, Sequences, SequencesExt, FiniteSets

CONSTANTS
  Buildings  \* the definitions offered to BuildingSim::new

Of(s, f) == [i \in DOMAIN s |-> s[i][f]]
Ids(s) == ToSet(Of(s, "id"))
Named(s, id) == s[CHOOSE i \in DOMAIN s : s[i].id = id]
Distinct(s, f) == IsInjective(Of(s, f))

RoomRefs(b) == FlattenSeq([i \in DOMAIN b.floors |->
  [j \in DOMAIN b.floors[i].rooms |-> <<b.floors[i].id, b.floors[i].rooms[j]>>]])
Rooms(b) == ToSet(RoomRefs(b))
Ends(p) == {p.from, p.to}
Locks(b) == SelectSeq(b.portals, LAMBDA p : p.lock # None)

-------------------------------------------------------------------------------
(* graph.rs: rooms reachable through the portals of a set of ids. *)

Neighbours(b, here, passable) ==
  {r \in Rooms(b) : r # here /\ \E i \in DOMAIN b.portals :
     b.portals[i].id \in passable /\ {here, r} = Ends(b.portals[i])}

ReachableRooms(b, from, passable) ==
  LET grow[n \in Nat] ==
        IF n = 0 THEN {from} \cap Rooms(b)
        ELSE LET seen == grow[n - 1]
             IN seen \cup UNION {Neighbours(b, r, passable) : r \in seen}
  IN grow[Cardinality(Rooms(b))]

-------------------------------------------------------------------------------
(* BuildingDefinition::validate, a family of checks at a time. *)

FloorsPass(b) ==
  /\ b.floors # <<>>
  /\ Distinct(b.floors, "id") /\ Distinct(b.floors, "level")
  /\ Cardinality({i \in DOMAIN b.floors : b.floors[i].kind = "Billy"}) = 1
  /\ \A i \in DOMAIN b.floors : b.floors[i].rooms # <<>>
  /\ IsInjective(RoomRefs(b))
  \* the embedded scenario is playable and its rooms are the floor's
  /\ \A i \in DOMAIN b.floors : LET s == b.floors[i].scenario IN
       s # None => s.valid /\ s.rooms = b.floors[i].rooms

(* Mutant of PortalsPass: an end need not be a room of the building. *)
PortalsPassAnywhere(b) ==
  /\ Distinct(b.portals, "id")
  /\ \A i \in DOMAIN b.portals : b.portals[i].from # b.portals[i].to

PortalsPass(b) ==
  /\ Distinct(b.portals, "id")
  /\ Distinct(Locks(b), "lock")
  /\ \A i \in DOMAIN b.portals : LET p == b.portals[i] IN
       /\ Ends(p) \subseteq Rooms(b) /\ p.from # p.to
       /\ p.time >= 0
       /\ p.kind = "Lift" => p.circuit # None
       /\ p.circuit \in Ids(b.circuits) \cup {None}

CircuitsPass(b) ==
  /\ Distinct(b.circuits, "id") /\ Distinct(b.circuits, "source")
  /\ ToSet(Of(b.circuits, "zone")) \subseteq Ids(b.zones)

ZonesPass(b) ==
  LET zoned == FlattenSeq(Of(b.zones, "rooms")) IN
  /\ Distinct(b.zones, "id")
  /\ ToSet(zoned) \subseteq Rooms(b) /\ IsInjective(zoned)

(* The entry exists and every room can be walked to, locks and power aside. *)
GraphPasses(b) ==
  /\ b.entry \in Rooms(b)
  /\ ReachableRooms(b, b.entry, Ids(b.portals)) = Rooms(b)

Loads(b) ==
  FloorsPass(b) /\ PortalsPass(b) /\ CircuitsPass(b) /\ ZonesPass(b) /\ GraphPasses(b)

-------------------------------------------------------------------------------
(* building_network: a feed per circuit, then a controller per lock. *)

Zoned(b, room) == \E i \in DOMAIN b.zones : room \in ToSet(b.zones[i].rooms)

Feeds(b) == {[id |-> b.circuits[i].source, does |-> "CutPower", dep |-> None] :
               i \in {i \in DOMAIN b.circuits : b.circuits[i].zone \in Ids(b.zones)}}

Controllers(b) ==
  {[id |-> p.lock, does |-> "DisengageLock",
    dep |-> IF p.circuit = None THEN None ELSE Named(b.circuits, p.circuit).source] :
     p \in {p \in ToSet(Locks(b)) : \E r \in Ends(p) : Zoned(b, r)}}

(* GroundedGraph::node: the first of that id, and feeds come first. *)
NodeNamed(b, id) ==
  {n \in Feeds(b) \cup Controllers(b) :
     n.id = id /\ (n \in Controllers(b) => \A f \in Feeds(b) : f.id # id)}

-------------------------------------------------------------------------------
VARIABLES
  def,      \* the building being played
  at,       \* the room the agent stands in
  visited, used,  \* rooms and portals in order of first visit and use
  powered,  \* the circuits still powered
  locked,   \* the portals still locked
  cuts       \* the circuits cut, in order

buildingVars == <<def, at, visited, used, powered, locked, cuts>>

(* BuildingSim::new and BuildingState::initial *)
BuildingInit ==
  /\ def \in {b \in Buildings : Loads(b)}
  /\ at = def.entry
  /\ visited = <<def.entry>> /\ used = <<>>
  /\ powered = Ids(def.circuits)
  /\ locked = Ids(Locks(def))
  /\ cuts = <<>>

AppendNew(s, x) == IF x \in ToSet(s) THEN s ELSE Append(s, x)

(* Mutant of Traverse: the portal is written down before the lock is read. *)
TraverseAnyway(p) ==
  /\ at \in Ends(p)
  /\ used' = AppendNew(used, p.id)
  /\ p.id \notin locked
  /\ p.circuit \in powered \cup {None}
  /\ at' \in Ends(p) \ {at}
  /\ UNCHANGED <<def, visited, powered, locked, cuts>>

Traverse(p) ==
  /\ at \in Ends(p)
  /\ p.id \notin locked
  /\ p.circuit \in powered \cup {None}
  /\ at' \in Ends(p) \ {at}
  /\ visited' = AppendNew(visited, at')
  /\ used' = AppendNew(used, p.id)
  /\ UNCHANGED <<def, powered, locked, cuts>>

(* A node acts while the circuit above it is powered. *)
Alive(n) == n.dep = None \/ \E c \in powered : Named(def.circuits, c).source = n.dep

Disengage(n, p) ==
  /\ n.does = "DisengageLock" /\ Alive(n)
  /\ p.lock = n.id /\ p.id \in locked
  /\ locked' = locked \ {p.id}
  /\ UNCHANGED <<def, at, visited, used, powered, cuts>>

(* Mutant of CutPower: a circuit can be cut twice. *)
CutPowerAgain(n, c) ==
  /\ n.does = "CutPower" /\ Alive(n)
  /\ c.source = n.id
  /\ powered' = powered \ {c.id}
  /\ cuts' = Append(cuts, c.id)
  /\ UNCHANGED <<def, at, visited, used, locked>>

CutPower(n, c) ==
  /\ n.does = "CutPower" /\ Alive(n)
  /\ c.source = n.id /\ c.id \in powered
  /\ powered' = powered \ {c.id}
  /\ cuts' = Append(cuts, c.id)
  /\ UNCHANGED <<def, at, visited, used, locked>>

NodeIds == ToSet(Of(def.circuits, "source")) \cup ToSet(Of(Locks(def), "lock"))

BuildingNext ==
  \/ \E p \in ToSet(def.portals) : Traverse(p)
  \/ \E id \in NodeIds : \E n \in NodeNamed(def, id) :
       \/ \E p \in ToSet(Locks(def)) : Disengage(n, p)
       \/ \E c \in ToSet(def.circuits) : CutPower(n, c)

BuildingSpec == BuildingInit /\ [][BuildingNext]_buildingVars

-------------------------------------------------------------------------------
(* Properties. *)

BuildingTypeOK ==
  /\ def \in Buildings /\ at \in Rooms(def)
  /\ ToSet(visited) \subseteq Rooms(def) /\ ToSet(used) \subseteq Ids(def.portals)
  /\ powered \subseteq Ids(def.circuits) /\ locked \subseteq Ids(Locks(def))

(* What the after-action report tells is a walk that happened: it starts at *)
(* the entry, every later room was entered from an earlier one through a    *)
(* portal that was used, the agent stands in one of the rooms, and nothing  *)
(* is told twice.                                                           *)
DebriefIsAWalk ==
  /\ visited[1] = def.entry /\ at \in ToSet(visited)
  /\ IsInjective(visited) /\ IsInjective(used)
  /\ \A i \in 2..Len(visited) : \E j \in 1..(i - 1) : \E p \in ToSet(used) :
       Ends(Named(def.portals, p)) = {visited[i], visited[j]}
  /\ \A p \in ToSet(used) : Ends(Named(def.portals, p)) \subseteq ToSet(visited)

(* And so are its cuts: the circuits without power are those that were cut,  *)
(* once each, and no portal was used that a lock still shuts.               *)
CutsAreCounted ==
  /\ IsInjective(cuts) /\ ToSet(cuts) = Ids(def.circuits) \ powered
  /\ ToSet(used) \cap locked = {}

(* PortalLock: "the named controller device disengages it".  A building the *)
(* runtime has accepted has that controller for each of its locks.          *)
EveryLockHasItsController ==
  \A p \in ToSet(Locks(def)) : \E n \in NodeNamed(def, p.lock) : n.does = "DisengageLock"

(* Both: the debrief's walk and its cuts are what happened. *)
BuildingIsSound == BuildingTypeOK /\ DebriefIsAWalk /\ CutsAreCounted
================================================================================
