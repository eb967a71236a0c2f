--------------------------------- MODULE MCParts ---------------------------------
(***************************************************************************)
(* The scenario's smaller parts, and two of what is around it (the hacker's  *)
(* session, the window), side by side: a behaviour picks one part and runs it *)
(* alone, with the variables of the others at a fixed start.  What they share *)
(* in the code (the floor's doors, its wires, the uplink) is one part here.   *)
(***************************************************************************)
EXTENDS WiredFloor, PowerCascade, Companion, ExchangeHouse, Routes, Supervision, Director,
        FloorPlan, ActorRegistry, Rooftop, SeatLayout, MCNetSession

CONSTANTS
  Parts,          \* the ones a behaviour may pick
  CascadeNodes    \* bound: the nodes cascades are drawn on and begin at

VARIABLE part

-------------------------------------------------------------------------------
(* Networks of signals. *)

Device(k) ==
  [kind |-> k, gate |-> None, locked |-> FALSE, hackerOnly |-> FALSE, room |-> "east"]
Line(f, o, t, i) == [from |-> f, out |-> o, to |-> t, in |-> i]
Laying(ends) == [ends |-> ends, invert |-> FALSE, builtin |-> TRUE]

Profiles ==
  [by \in Seats |->
     [bandwidth |-> IF by = "Hacker" THEN 1 ELSE 0, busy |-> IF by = "Hacker" THEN 0 ELSE 1,
      reprogram |-> by = "Hacker", hackerOnly |-> by = "Hacker"]]

(* The installer's lines, which a player may try to work on, and what else a  *)
(* player tries to lay.                                                      *)
Wired(devices, lines, ends) ==
  [devices |-> devices, links |-> {Laying(e) : e \in lines}, ends |-> lines \cup ends,
   budget |-> 1, pulseTicks |-> 2, profile |-> Profiles]

(* A guard trips a lock, a camera can be wired to undo it. *)
Shop ==
  Wired([guard |-> Device("Guard"), cam |-> Device("Camera"), door |-> Device("Door")],
        {Line("guard", "Tripped", "door", "Lock")}, {Line("cam", "Tripped", "door", "Unlock")})

(* A sensor pulses a door, a guard closes it; a second wire would be too much. *)
Pulsed ==
  Wired([cam |-> Device("Camera"), guard |-> Device("Guard"), door |-> Device("Door")],
        {Line("cam", "Tripped", "door", "Pulse"), Line("guard", "Tripped", "door", "Close")},
        {Line("guard", "Tripped", "door", "Lock"), Line("cam", "Tripped", "door", "Toggle")})

(* A relay between a terminal and a door, and a light only the hacker wires. *)
Relayed ==
  Wired([term |-> Device("Terminal"), door |-> Device("Door"),
         relay |-> [Device("Relay") EXCEPT !.gate = "Latch"],
         lamp |-> [Device("Light") EXCEPT !.hackerOnly = TRUE]],
        {Line("term", "Compromised", "relay", "A"), Line("relay", "Q", "door", "Unlock")},
        {Line("term", "Compromised", "lamp", "Disable")})

(* A wire to a port the device does not have is refused at load. *)
Miswired ==
  Wired([cam |-> Device("Camera"), door |-> Device("Door")],
        {Line("cam", "Tripped", "door", "Enable")}, {})

Signals == {Pulsed, Relayed, Miswired}
AllNetworks == {Shop} \cup Signals
AllGates == {"Latch", "Nand"}

RoomOfCell == [c \in 0..1 |-> IF c = 0 THEN "west" ELSE "east"]
DoorCell == [d \in {"door"} |-> 0]
DoorArm == [d \in {"door"} |-> {0, 1}]
SessionReach == [r \in {"west", "east"} |-> {"cam"}]

-------------------------------------------------------------------------------
(* Buildings. *)

(* Three rooms, a lock without a zone's controller, and a portal that leads  *)
(* nowhere.                                                                  *)
Small ==
  [floors |-> <<Floor("g", 0, "Billy", <<"a", "b", "c">>, None)>>,
   portals |-> << Way("p1", "Door", Room("g", "a"), Room("g", "b"), 1, None, None),
                  Way("p2", "Lift", Room("g", "b"), Room("g", "c"), 1, None, "main"),
                  Way("p3", "Vent", Room("g", "c"), Room("g", "a"), 1, "k3", "aux"),
                  Way("p4", "Door", Room("g", "a"), Room("g", "b"), 1, "k4", None) >>,
   circuits |-> << [id |-> "main", source |-> "f1", zone |-> "z"],
                   [id |-> "aux", source |-> "f2", zone |-> "z"] >>,
   zones |-> <<Zone("z", <<Room("g", "a")>>)>>,
   entry |-> Room("g", "a")]
Dangling == [Small EXCEPT !.portals[1].to = Room("g", "x")]

(* One room with nothing to do. *)
Hut ==
  [floors |-> <<Floor("g", 0, "Billy", <<"a">>, None)>>, portals |-> <<>>, circuits |-> <<>>,
   zones |-> <<>>, entry |-> Room("g", "a")]

AllBuildings == {Small, Dangling, Hut}

-------------------------------------------------------------------------------
(* Floor plans: two rooms with a segment each, and a definition for each way *)
(* a family of checks can fail.                                              *)

Cell(id, x, w) == [id |-> id, x |-> x, w |-> w, supported |-> TRUE]
Doorway(id, x) == [id |-> id, x |-> x]
Eye(room) == [room |-> room, lo |-> 0, hi |-> 1]
Desk(room, x) == [room |-> room, x |-> x]

RoomLists ==
  { <<Cell("hall", 0, 2), Cell("office", 2, 2)>>, <<Cell("hall", 0, 2), Cell("office", 3, 2)>>,
    <<Cell("hall", 0, 2), Cell("hall", 2, 2)>> }
DoorIds == {<<"D1", "D2", "D3", "D4">>, <<"D1", "d1", "D2", "D3">>, <<"D1", "D2", "D1", "D3">>}
DoorLists ==
  { [i \in 1..n |-> Doorway(ids[i], xs[i])] :
      n \in 0..4, ids \in DoorIds, xs \in [1..4 -> {0, 1, 2, 4}] }
LowerCase ==
  [id \in UNION {{ids[i] : i \in 1..4} : ids \in DoorIds} |->
     CASE id \in {"D1", "d1"} -> "d1" [] id = "D2" -> "d2" [] id = "D3" -> "d3" [] OTHER -> "d4"]
EyeLists == {<<>>, <<Eye("hall"), Eye("office")>>, <<Eye("attic")>>, [i \in 1..4 |-> Eye("hall")]}
Wirings ==
  {None, [valid |-> TRUE, nodes |-> {<<"vac", 0>>, <<"authored", "feed">>}], [valid |-> TRUE, nodes |-> {<<"vac", 9>>}],
   [valid |-> FALSE, nodes |-> {}]}
AllDefinitions ==
  {GhostLobbyPlan} \cup
  {[rooms |-> r, doors |-> ds, cameras |-> c, consoles |-> k, signal |-> s, hides |-> <<>>,
    objectives |-> <<[kind |-> "Exit", room |-> None]>>, player |-> 1, note |-> 0, usb |-> 3,
    difficulty |-> [i \in DifficultyIds |-> <<1, 2>>], actions |-> {[cost |-> 1, cooldown |-> 0]}] :
   r \in RoomLists, ds \in DoorLists, c \in EyeLists,
   k \in {<<Desk("van", 9)>>, <<Desk("hall", 3)>>}, s \in Wirings}

-------------------------------------------------------------------------------
(* Actor packs: Billy's with a number out of its range, and a modifier that  *)
(* sets a speed.                                                             *)

Pack(a, m) == [Shipped EXCEPT !.archetypes = [billy |-> a], !.modifiers = m]
Boss == [Shipped.modifiers EXCEPT !.veteran.ops = Append(@, Op("PursueSpeed", "Set", 300))]
AllPacks ==
  {Shipped, Pack(Billy, Boss)}
  \cup {Pack([Billy EXCEPT !.id = i, !.stats.PursueSpeed = s, !.stats.BeliefThreshold = t,
                           !.interests.usb = g], Shipped.modifiers) :
          i \in {"billy", "bob"}, s \in {150, -1, Infinite}, t \in {3600, 0, 12000}, g \in {90, 120}}

-------------------------------------------------------------------------------
(* The outside: a street of two cells, a rope at its far end. *)

MinusTwo == -2
StreetCells == -2 .. -1
IndoorCells == 0..3
RoomOver ==
  [c \in StreetCells \cup IndoorCells |->
     CASE c \in {0, 1} -> "kitchen" [] c = 2 -> "hall" [] OTHER -> "laundry"]

SpawnPositions == {25, 640, 1230}

-------------------------------------------------------------------------------
PartsInit ==
  /\ part \in Parts
  /\ part # "net" => entry = CHOOSE v \in Vantage : TRUE
  /\ IF part = "cascade" THEN deps \in SUBSET (CascadeNodes \X CascadeNodes) /\ cut \in CascadeNodes
     ELSE deps = {} /\ cut = CHOOSE n \in Node : TRUE
  /\ IF part = "floor" THEN FloorInit /\ net = Shop
     ELSE /\ IF part = "signal" THEN NetInit /\ net # Shop ELSE NetInit /\ net = Shop
          /\ body = [x |-> 0, vantage |-> "west", seated |-> FALSE, busy |-> 0, rescued |-> FALSE]
          /\ billy = [x |-> 1, wait |-> 0]
          /\ doors = [d \in Doors |-> [open |-> 0, pending |-> 0]]
          /\ uplink = [bandwidth |-> Full, cooldown |-> 0]
          /\ ended = TRUE
  /\ CascadeInit /\ Init /\ LayoutInit
  /\ MoleInit /\ (part # "mole" => equipped = None)
  /\ BuildingInit /\ (part = "building" <=> def # Hut)
  /\ IF part = "route" THEN RouteInit
     ELSE /\ search = [from |-> House.entry, to |-> House.entry, passable |-> {}]
          /\ dist = [r \in {House.entry} |-> 0] /\ prev = <<>> /\ done = {} /\ found = None
  /\ SupervisionInit
  /\ DirectorInit /\ (part # "director" => difficulty = 0)
  /\ IF part = "plan" THEN PlanInit
     ELSE plan = CHOOSE d \in AllDefinitions : d.doors = <<>> /\ Validates(d)
  /\ RegistryInit /\ (part # "registry" => pack = Shipped)
  /\ RoofInit

PartsNext ==
  /\ IF part = "floor" THEN FloorNext
     ELSE /\ IF part = "signal" THEN NetNext ELSE UNCHANGED netVars
          /\ UNCHANGED <<body, billy, doors, uplink, ended>>
  /\ IF part = "cascade" THEN CascadeNext /\ cut' \in CascadeNodes ELSE UNCHANGED cascadeVars
  /\ IF part = "net" THEN Next ELSE UNCHANGED vars
  /\ IF part = "layout" THEN LayoutNext ELSE UNCHANGED layoutVars
  /\ IF part = "mole" THEN MoleNext ELSE UNCHANGED moleVars
  /\ IF part = "building" THEN BuildingNext ELSE UNCHANGED buildingVars
  /\ IF part = "route" THEN RouteNext ELSE UNCHANGED routeVars
  /\ IF part = "supervision" THEN SupervisionNext ELSE UNCHANGED supervisionVars
  /\ IF part = "director" THEN DirectorNext ELSE UNCHANGED directorVars
  /\ IF part = "registry" THEN RegistryNext ELSE UNCHANGED registryVars
  /\ IF part = "roof" THEN RoofNext ELSE UNCHANGED roofVars
  /\ UNCHANGED <<part, plan>>

partsVars ==
  <<part, floorVars, cascadeVars, vars, layoutVars, moleVars, buildingVars, routeVars, supervisionVars,
    directorVars, plan, registryVars, roofVars>>

PartsSpec ==
  /\ PartsInit /\ [][PartsNext]_partsVars
  /\ WF_floorVars(part = "floor" /\ FloorTick)
  /\ WF_cascadeVars(part = "cascade" /\ CascadeWalk)
  /\ WF_layoutVars(part = "layout" /\ LeaveAlone)
===============================================================================
