--------------------------------- MODULE Rooftop ---------------------------------
(***************************************************************************)
(* The way into a floor that has an outside (scenario/rooftop.rs, the rope,  *)
(* hatches and front door of sim/systems.rs, the arrival clock of            *)
(* sim/mod.rs and the intel log of sim/console.rs): a body on the roof, the   *)
(* rope, the street or the floor, one cell a tick in each direction.         *)
(*                                                                         *)
(* The hacker's route to the front door arrives at once: its delay is        *)
(* WiredFloor's.                                                            *)
(***************************************************************************)
EXTENDS Option, Integers, FiniteSets

CONSTANTS
  Street, Indoors,   \* cells, intervals; the street ends where the rooms begin
  RoomAt,            \* the room of each cell, the street's included
  RopeTop, RopeFoot, \* a cell of the roof and one of the street
  Hatch,             \* the roof cell over the room it drops into
  RoofHeight, Ceiling,
  PickTime, HoldTime,
  ArrivalRoll       \* the ticks Billy takes once his clock runs

FrontDoor == CHOOSE c \in Street : \A d \in Street : d <= c
RoofCells == Indoors

(* The street ends at the front door and the rooms lie beyond it, under a    *)
(* roof that is higher than their ceiling.                                  *)
ASSUME RoofAssumption ==
  /\ Street \subseteq Int /\ Indoors \subseteq Int
  /\ FrontDoor \in Street /\ \A c \in Street : c <= FrontDoor
  /\ \A c \in Indoors : FrontDoor < c
  /\ {RopeTop, RopeTop + 1, Hatch} \subseteq Indoors /\ RopeFoot \in Street
  /\ RoofHeight \in Nat /\ Ceiling \in Nat /\ Ceiling < RoofHeight
  /\ PickTime \in Nat \ {0} /\ HoldTime \in Nat /\ ArrivalRoll \in Nat

VARIABLES
  walker,   \* place, x and height of the infiltrator
  front,    \* the front door: lockpick progress, picked, ticks held open
  arrival,  \* held, and the ticks until Billy comes
  intel,    \* last_room and the infiltrator's last fix
  entered   \* history: has been inside

roofVars == <<walker, front, arrival, intel, entered>>

RoofInit ==
  /\ walker = [place |-> "Roof", x |-> RopeTop + 1, height |-> RoofHeight]
  /\ front = [lockpick |-> 0, picked |-> FALSE, open |-> 0]
  /\ arrival = [held |-> TRUE, left |-> ArrivalRoll]
  /\ intel = [room |-> None, fix |-> None]
  /\ entered = FALSE

-------------------------------------------------------------------------------
(* infiltrator_outside *)
Outside(w) == w.place # "Floor" \/ w.x \in Street

FrontShut(f) == f.open = 0 /\ ~f.picked

Less(n) == IF n > 0 THEN n - 1 ELSE 0

(* system_timers, which run first in a tick. *)
FrontTimed == [front EXCEPT !.open = Less(@)]

(* constrain_by_doors: a shut door between two cells; inner doors stand or   *)
(* fall with the hacker's routes, left open here.                            *)
Stopped(x, y) == x # y /\ {x, y} = {FrontDoor, FrontDoor + 1} /\ FrontShut(FrontTimed)

Clamped(x, cells) == IF x \in cells THEN x ELSE walker.x

(* Mutant of RopeStep: the descent ends at the cell of the rope's upper end. *)
RopeStepInside ==
  IF walker.place = "RopeDown"
  THEN IF walker.height = 1
       THEN [place |-> "Floor", x |-> RopeTop, height |-> 0]
       ELSE [place |-> "RopeDown", x |-> RopeFoot, height |-> walker.height - 1]
  ELSE IF walker.height + 1 = RoofHeight
       THEN [place |-> "Roof", x |-> RopeTop, height |-> RoofHeight]
       ELSE [place |-> "RopeUp", x |-> RopeFoot, height |-> walker.height + 1]

(* rope_step *)
RopeStep ==
  IF walker.place = "RopeDown"
  THEN IF walker.height = 1
       THEN [place |-> "Floor", x |-> RopeFoot, height |-> 0]
       ELSE [place |-> "RopeDown", x |-> RopeFoot, height |-> walker.height - 1]
  ELSE IF walker.height + 1 = RoofHeight
       THEN [place |-> "Roof", x |-> RopeTop, height |-> RoofHeight]
       ELSE [place |-> "RopeUp", x |-> RopeFoot, height |-> walker.height + 1]

(* system_player: on the rope only along it, on the roof within it, on the   *)
(* floor line from the street to the far wall, past doors that are open.     *)
Moved(dir) ==
  CASE walker.place \in {"RopeDown", "RopeUp"} -> RopeStep
    [] walker.place = "Roof" -> [walker EXCEPT !.x = Clamped(@ + dir, RoofCells)]
    [] OTHER ->
         LET y == Clamped(walker.x + dir, Street \cup Indoors)
         IN [place |-> "Floor", x |-> IF Stopped(walker.x, y) THEN walker.x ELSE y,
             height |-> Less(walker.height)]

(* exterior_interaction: the handhold in reach after the move, if any.       *)
AtRope(w) ==
  \/ w.place = "Roof" /\ w.x = RopeTop
  \/ w.place = "Floor" /\ w.x \in Street /\ w.x = RopeFoot
AtHatch(w) == w.place = "Roof" /\ w.x = Hatch /\ ~AtRope(w)
AtLock(w) == w.place = "Floor" /\ w.x = FrontDoor /\ ~AtRope(w) /\ FrontShut(FrontTimed)

Handled(w, pressed) ==
  CASE pressed /\ AtRope(w) ->
         [place |-> IF w.place = "Roof" THEN "RopeDown" ELSE "RopeUp",
          x |-> RopeFoot, height |-> w.height]
    [] pressed /\ AtHatch(w) -> [place |-> "Floor", x |-> Hatch, height |-> Ceiling]
    [] OTHER -> w

(* What was picked stays, until one stands at the lock and lets go of it. *)
Picked(w, holding) ==
  CASE AtLock(w) /\ holding /\ front.lockpick + 1 >= PickTime ->
         [FrontTimed EXCEPT !.lockpick = 0, !.picked = TRUE]
    [] AtLock(w) /\ holding /\ front.lockpick + 1 < PickTime ->
         [FrontTimed EXCEPT !.lockpick = @ + 1]
    [] AtLock(w) /\ ~holding -> [FrontTimed EXCEPT !.lockpick = Less(@)]
    [] OTHER -> FrontTimed

(* Mutant of UnderWay: leaving the room over which one spawned is enough. *)
UnderWayAnywhere(w) == RoomAt[w.x] # RoomAt[RopeTop + 1]
UnderWay(w) == ~Outside(w)

(* Billy's clock, held until the infiltrator is inside. *)
ArrivalAfter(w) ==
  IF arrival.held /\ ~UnderWay(w) THEN arrival
  ELSE [held |-> FALSE, left |-> Less(arrival.left)]

(* system_intel: a change of room is a passage of the nearest door, a camera *)
(* (which watches nobody outside) is better.                                 *)
IntelAfter(w, seen) ==
  LET here == RoomAt[w.x] IN
  [room |-> here,
   fix |-> CASE seen -> "Camera"
             [] ~seen /\ intel.room \notin {None, here} -> "Door"
             [] OTHER -> intel.fix]

-------------------------------------------------------------------------------
(* The hacker opens the front door like any other. *)
RouteFront ==
  /\ front' = [front EXCEPT !.open = HoldTime]
  /\ UNCHANGED <<walker, arrival, intel, entered>>

RoofTick ==
  \E dir \in {-1, 0, 1}, pressed, holding \in BOOLEAN :
    LET w == Moved(dir) IN
    /\ front' = Picked(w, holding)
    /\ arrival' = ArrivalAfter(w)
    /\ walker' = Handled(w, pressed)
    /\ \E seen \in {FALSE, ~Outside(walker')} : intel' = IntelAfter(walker', seen)
    /\ entered' = (entered \/ ~Outside(w))

RoofNext == RouteFront \/ RoofTick
RoofSpec == RoofInit /\ [][RoofNext]_roofVars

-------------------------------------------------------------------------------
(* Properties. *)

RoofTypeOK ==
  /\ walker.place \in {"Roof", "RopeDown", "RopeUp", "Floor"}
  /\ walker.x \in Street \cup Indoors /\ walker.height \in 0..RoofHeight
  /\ walker.place = "Roof" => walker.x \in RoofCells /\ walker.height = RoofHeight
  /\ front.lockpick \in 0..(PickTime - 1) /\ front.open \in 0..HoldTime
  /\ arrival.left \in 0..ArrivalRoll

(* There are two ways in: down the hatch, or through the front door while it *)
(* is held open or has been picked; the rope, which hangs before the door,   *)
(* is none, in either direction.                                             *)
TwoWaysIn ==
  [][Outside(walker) /\ ~Outside(walker') =>
       \/ walker.place = "Roof" /\ walker'.x = Hatch
       \/ walker.place = "Floor" /\ ~FrontShut(front)]_roofVars

(* Billy takes his whole roll from the moment the infiltrator is inside,     *)
(* whatever they did on the roof, the rope and the street before, and the    *)
(* clock never stops once it runs, not when they go out again.               *)
ClockWaitsOutside ==
  /\ arrival.held <=> ~entered
  /\ arrival.held => arrival.left = ArrivalRoll /\ (Outside(walker) \/ walker.height = Ceiling)

(* console.rs: the log holds "camera sightings and door passages"; the       *)
(* infiltrator has passed a door when a door says so.                        *)
LogsOnlyPassages ==
  intel.fix = "Door" => entered

(* Both: the ways in, and the clock that waits for one to be taken. *)
RoofIsSound == [](RoofTypeOK /\ ClockWaitsOutside) /\ TwoWaysIn
================================================================================
