-------------------------------- MODULE FloorPlan --------------------------------
(***************************************************************************)
(* A scenario definition, the checks of ScenarioDefinition::validate, and    *)
(* the network nodes floor_graph derives from a definition.                  *)
(*                                                                         *)
(* Positions are integers and a host on a subnet is its last octet; names,    *)
(* tuning numbers and the report's wording are left out.                      *)
(***************************************************************************)
EXTENDS Option, Integers, Sequences, FiniteSets

CONSTANTS
  Definitions,  \* the definitions offered
  Segmented,    \* the rooms with an automation segment of their own
  Lowered,      \* to_lowercase on the door ids offered
  Offset,       \* WorldDef::room_offset
  DoorHostBase, CameraHostBase, LightHost, VacuumHost, MaxHost

IsList(s) == Len(s) \in Nat /\ s = [i \in 1..Len(s) |-> s[i]]

(* The offset is less than a room of the shipped floor is wide; a room's      *)
(* lights are above its first door, the vacuum above the lights, and both in   *)
(* range, as are the shipped cameras; the shipped door ids differ in more      *)
(* than case.                                                                 *)
ASSUME FloorPlanAssumption ==
  /\ Offset \in 0..219
  /\ {DoorHostBase, CameraHostBase, LightHost, VacuumHost, MaxHost} \subseteq Nat
  /\ DoorHostBase + 1 < LightHost /\ LightHost < VacuumHost /\ VacuumHost <= MaxHost
  /\ MaxHost - CameraHostBase >= 2
  /\ "hall" \in Segmented
  /\ \A a, b \in {"D1", "D2", "D3", "D4"} : Lowered[a] = Lowered[b] => a = b
  /\ \A d \in Definitions : IsList(d.rooms) /\ IsList(d.doors) /\ IsList(d.cameras)

DifficultyIds == {"Story", "Standard", "Operator"}

Field(s, f) == {s[i][f] : i \in DOMAIN s}
Unrepeated(s, f) == \A i, j \in DOMAIN s : s[i][f] = s[j][f] => i = j
RoomIds(d) == Field(d.rooms, "id")
Right(r) == r.x + r.w
Holds(r, x) == r.x <= x /\ x < Right(r)

(* room_index_at: the first room that holds the position, or the last one. *)
RoomIndexAt(d, x) ==
  LET holding == {i \in DOMAIN d.rooms : Holds(d.rooms[i], x + Offset)}
  IN IF holding = {} THEN Len(d.rooms) ELSE CHOOSE i \in holding : \A j \in holding : i <= j

-------------------------------------------------------------------------------
(* floor_graph *)

MaxCameras == MaxHost - CameraHostBase + 1
MaxDoorsPerRoom == MaxHost - DoorHostBase

Automation(room) == <<"auto", room>>
Authored(name) == <<"authored", name>>

(* The node of a fixture, if its host is in range.  Two fixtures may well     *)
(* have one id or one address, so a node says which fixture it is ("of").      *)
Hosted(of, id, segment, host) ==
  IF host > MaxHost THEN {} ELSE {[of |-> of, id |-> id, segment |-> segment, host |-> host]}

(* The backbone, as authored in ghost_lobby_floor.json. *)
AuthoredNodes ==
  LET node(name, segment, host) ==
        [of |-> Authored(name), id |-> Authored(name), segment |-> Authored(segment), host |-> host]
  IN { node("substation", "utility", 5), node("isp-gw", "isp", 1), node("isp-ops", "isp", 9),
       node("grid-jump", "utility-dmz", 9), node("ap-lobby", "perimeter-wifi", 1),
       node("bms-bridge", "bms", 2), node("feed", "bms", 3) }

RoomOfDoor(d, i) == RoomIndexAt(d, d.doors[i].x)
DoorsOf(d, r) == {i \in DOMAIN d.doors : RoomOfDoor(d, i) = r}
Networked(d) == {i \in DOMAIN d.doors : d.rooms[RoomOfDoor(d, i)].id \in Segmented}

(* A door's rank among the doors of its room, as they are listed. *)
Rank(d, i) == Cardinality({j \in 1..i : RoomOfDoor(d, j) = RoomOfDoor(d, i)})

DoorHosted(d, i, host) ==
  Hosted(<<"door", i>>, <<"door", Lowered[d.doors[i].id]>>, Automation(d.rooms[RoomOfDoor(d, i)].id), host)

(* Mutant of DoorNode: a door is addressed before it is counted. *)
DoorNodeBeforeCount(d, i) ==
  IF i \in Networked(d) THEN DoorHosted(d, i, DoorHostBase + Rank(d, i) - 1) ELSE {}

DoorNode(d, i) == IF i \in Networked(d) THEN DoorHosted(d, i, DoorHostBase + Rank(d, i)) ELSE {}

DoorNodes(d) == UNION {DoorNode(d, i) : i \in DOMAIN d.doors}
LightNodes(d) ==
  UNION {Hosted(<<"light", r>>, <<"light", r>>, Automation(r), LightHost) : r \in RoomIds(d) \cap Segmented}
CameraNodes(d) ==
  UNION {Hosted(<<"cam", i>>, <<"cam", i>>, Authored("security"), CameraHostBase + i - 1) :
           i \in DOMAIN d.cameras}
VacuumNodes == Hosted(<<"vac", 0>>, <<"vac", 0>>, Automation("hall"), VacuumHost)

FloorNodes(d) == AuthoredNodes \cup DoorNodes(d) \cup LightNodes(d) \cup CameraNodes(d) \cup VacuumNodes

-------------------------------------------------------------------------------
(* ScenarioDefinition::validate, a family of checks at a time. *)

OnBoundary(d, x) == \E i \in DOMAIN d.rooms : x \in {d.rooms[i].x, Right(d.rooms[i])}
InWorld(d, x) == \E i, j \in DOMAIN d.rooms : d.rooms[i].x <= x /\ x <= Right(d.rooms[j])

RoomsPass(d) ==
  /\ d.rooms # <<>>
  /\ Unrepeated(d.rooms, "id")
  /\ \A i \in 1..(Len(d.rooms) - 1) : Right(d.rooms[i]) = d.rooms[i + 1].x
  /\ \A i \in DOMAIN d.rooms : d.rooms[i].supported

ReferencesPass(d) ==
  /\ Field(d.hides, "room") \subseteq RoomIds(d)
  /\ Field(d.cameras, "room") \subseteq RoomIds(d)
  /\ \A i \in DOMAIN d.cameras : d.cameras[i].lo < d.cameras[i].hi
  /\ Field(d.objectives, "room") \subseteq RoomIds(d) \cup {None}
  /\ \A i \in DOMAIN d.consoles : \E j \in DOMAIN d.rooms :
       d.consoles[i].room \in {"van", d.rooms[j].id}
         /\ (d.consoles[i].room # "van" => Holds(d.rooms[j], d.consoles[i].x))

PlacesPass(d) ==
  /\ \A i \in DOMAIN d.doors : OnBoundary(d, d.doors[i].x)
  /\ Unrepeated(d.doors, "id")
  /\ \A x \in {d.player, d.note, d.usb} : InWorld(d, x)

TablesPass(d) ==
  /\ DifficultyIds \subseteq DOMAIN d.difficulty
  /\ \A k \in DOMAIN d.difficulty : d.difficulty[k][1] <= d.difficulty[k][2]
  /\ \A a \in d.actions : a.cost >= 0 /\ a.cooldown >= 0
  /\ "Exit" \in Field(d.objectives, "kind")

CapacityPass(d) ==
  /\ Len(d.cameras) <= MaxCameras
  /\ \A r \in DOMAIN d.rooms : Cardinality(DoorsOf(d, r)) <= MaxDoorsPerRoom

SignalPass(d) ==
  d.signal # None =>
    /\ d.signal.valid
    /\ d.signal.nodes \subseteq {n.id : n \in FloorNodes(d)}

Validates(d) ==
  RoomsPass(d) /\ ReferencesPass(d) /\ PlacesPass(d) /\ TablesPass(d) /\ CapacityPass(d) /\ SignalPass(d)

-------------------------------------------------------------------------------
(* The shipped scenario, ghost_lobby.rs: what the checks read of it. *)

LobbyCells ==
  LET lobbyCell(id, x, w) == [id |-> id, x |-> x, w |-> w, supported |-> TRUE]
  IN << lobbyCell("kitchen", 20, 250), lobbyCell("hall", 270, 240), lobbyCell("office", 510, 285),
        lobbyCell("laundry", 795, 245), lobbyCell("exit", 1040, 220) >>
LobbyDoorways ==
  << [id |-> "D1", x |-> 270], [id |-> "D2", x |-> 510], [id |-> "D3", x |-> 795],
     [id |-> "D4", x |-> 1040] >>
LobbyHides ==
  [i \in DOMAIN LobbyCells |-> [room |-> LobbyCells[i].id]]
LobbyCameras ==
  << [room |-> "hall", lo |-> 292, hi |-> 495], [room |-> "office", lo |-> 530, hi |-> 782],
     [room |-> "laundry", lo |-> 812, hi |-> 1015] >>
LobbyObjectives ==
  << [kind |-> "Note", room |-> "kitchen"], [kind |-> "Misdirect", room |-> "office"],
     [kind |-> "Exit", room |-> "exit"] >>
LobbyArrivals ==
  [id \in DifficultyIds |->
     CASE id = "Story" -> <<24, 31>> [] id = "Standard" -> <<19, 26>> [] OTHER -> <<15, 21>>]
LobbyActions ==
  { [cost |-> 18, cooldown |-> 42], [cost |-> 17, cooldown |-> 10],
    [cost |-> 25, cooldown |-> 80], [cost |-> 15, cooldown |-> 50] }
GhostLobbyPlan ==
  [rooms |-> LobbyCells, doors |-> LobbyDoorways, cameras |-> LobbyCameras, hides |-> LobbyHides,
   consoles |-> <<>>, signal |-> None, objectives |-> LobbyObjectives,
   player |-> 72, note |-> 92, usb |-> 622, difficulty |-> LobbyArrivals, actions |-> LobbyActions]

-------------------------------------------------------------------------------
VARIABLE plan

PlanInit == plan \in {d \in Definitions : Validates(d)}

(* A definition that was accepted stays as it is. *)
PlanSpec == PlanInit /\ [][FALSE]_plan

HostAddress(n) == <<n.segment, n.host>>
AddressesApart(d) == \A n, m \in FloorNodes(d) : HostAddress(n) = HostAddress(m) => n = m
NamesApart(d) == \A n, m \in FloorNodes(d) : n.id = m.id => n = m

(* No room with a segment has doors enough to come up to its lights. *)
BelowTheLights(d) ==
  \A r \in DOMAIN d.rooms :
    d.rooms[r].id \in Segmented => Cardinality(DoorsOf(d, r)) < LightHost - DoorHostBase

(* No two doors on the network have ids that differ only in case. *)
CaseApart(d) ==
  \A i, j \in Networked(d) : Lowered[d.doors[i].id] = Lowered[d.doors[j].id] => i = j

(* On a floor that validates, every door of a room with a segment and every   *)
(* camera has a node: the limits the checks enforce are those of the          *)
(* derivation.  Over all nodes, authored ones included, addresses are          *)
(* distinct just when no room has doors up to its lights' host, and names      *)
(* just when no two doors' ids differ only in case; no check asks for either.  *)
(* The shipped scenario validates and is such a floor.                         *)
FloorIsWired ==
  /\ \A i \in Networked(plan) : DoorNode(plan, i) # {}
  /\ Cardinality(CameraNodes(plan)) = Len(plan.cameras)
  /\ AddressesApart(plan) <=> BelowTheLights(plan)
  /\ NamesApart(plan) <=> CaseApart(plan)
  /\ Validates(GhostLobbyPlan) /\ AddressesApart(GhostLobbyPlan) /\ NamesApart(GhostLobbyPlan)

(* Every accepted floor gives each node a name and an address of its own.     *)
(* This does not hold: a room's tenth door has the address of its lights       *)
(* (floor_graph.rs:42,52), the hall's thirtieth that of the vacuum, and the     *)
(* doors "D1" and "d1" are both the node "door-d1" (floor_graph.rs:133).        *)
FixturesAreApart == AddressesApart(plan) /\ NamesApart(plan)
=============================================================================
