------------------------------- MODULE WiredFloor -------------------------------
(***************************************************************************)
(* A floor that hosts a signal network (scenario/sim/signal.rs, console.rs,  *)
(* the doors of sim/mod.rs and the uplink's door route): two bodies in a     *)
(* row of cells with doors between them, wires that lock and open those      *)
(* doors, a hacker who routes them, a guard who badges through them and a    *)
(* console to sit at.                                                        *)
(*                                                                         *)
(* Commands are applied between ticks; a tick runs the systems in the       *)
(* code's order.  Cells are one tick's walk wide, timers count ticks.  Left  *)
(* to chance: which cameras frame the infiltrator, whether the guard is      *)
(* hunting and where he walks, whether support allows a rescue.             *)
(***************************************************************************)
EXTENDS SignalNet, FiniteSetsExt

CONSTANTS
  Cells,           \* an interval of integers
  RoomOf,          \* the room each cell is in
  DoorAt,          \* the cell west of each door device
  ConsoleAt,       \* the cell of the console, which can wire
  HackerReach,     \* the devices the hacker reaches
  RoomReach,       \* the devices a session reaches from each room
  DoorReach,       \* the cells within arm's reach of each door device
  RouteDelay, RouteDuration, BadgeDelay, BadgeOpen,
  DoorCost, DoorCooldown,
  Full, Regen,     \* bandwidth
  RescueCost

(* A street of cells with two ends, numbers that are unsigned.  That the      *)
(* hacker's wiring takes no hands is the tuning's: his ticks are charged to  *)
(* the infiltrator's.                                                        *)
ASSUME FloorAssumption ==
  /\ Cells \subseteq Int /\ Min(Cells) \in Cells /\ Max(Cells) \in Cells
  /\ {RouteDelay, RouteDuration, BadgeOpen, DoorCost, DoorCooldown, Full, Regen, RescueCost} \subseteq Nat
  /\ BadgeDelay \in Nat \ {0}
  /\ \A n \in Networks, by \in Seats : {n.profile[by].bandwidth, n.profile[by].busy} \subseteq Nat
  /\ \A n \in Networks : n.profile["Hacker"].busy = 0

VARIABLES
  body,    \* the infiltrator: x, room of the session, seated, busy, rescued
  billy,   \* x and the ticks he has waited at a door
  doors,   \* open and pending, in ticks, by door device
  uplink,  \* bandwidth and the door route's cooldown
  ended

floorVars == <<net, devs, links, body, billy, doors, uplink, ended>>

Doors == DOMAIN DoorAt
Dec(n) == IF n > 0 THEN n - 1 ELSE 0
AtLeast(n, m) == IF n < m THEN m ELSE n

FloorInit ==
  /\ NetInit
  /\ body = [x |-> Min(Cells), vantage |-> RoomOf[Min(Cells)], seated |-> FALSE,
             busy |-> 0, rescued |-> FALSE]
  /\ billy = [x |-> Max(Cells), wait |-> 0]
  /\ doors = [d \in Doors |-> [open |-> 0, pending |-> 0]]
  /\ uplink = [bandwidth |-> Full, cooldown |-> 0]
  /\ ended = FALSE

-------------------------------------------------------------------------------
(* Commands. *)

(* signal_access *)
Access(by) ==
  IF by = "Hacker" THEN HackerReach
  ELSE {d \in DOMAIN net.devices :
          \/ net.devices[d].room = RoomOf[body.x]
          \/ d \in Doors /\ body.x \in DoorReach[d]
          \/ body.seated /\ d \in RoomReach[body.vantage]}

(* Mutant of Free: a busy infiltrator starts another job. *)
FreeAlways(by) == net.profile[by].bandwidth <= uplink.bandwidth

(* The Busy and NoBandwidth refusals. *)
Free(by) ==
  /\ by = "Infiltrator" => body.busy = 0
  /\ net.profile[by].bandwidth <= uplink.bandwidth

(* signal_command, when it is not refused; the work is charged to the seat. *)
Work(by) ==
  /\ ~ended /\ Free(by)
  /\ NetCommand(by, Access(by))
  /\ uplink' = [uplink EXCEPT !.bandwidth = AtLeast(@ - net.profile[by].bandwidth, 0)]
  /\ body' = [body EXCEPT !.busy = @ + net.profile[by].busy]
  /\ UNCHANGED <<billy, doors, ended>>

(* perform_action_on's gates for the door route, in its order. *)
Routable(d) ==
  ~ended /\ uplink.cooldown = 0 /\ uplink.bandwidth >= DoorCost /\ d \in HackerReach

(* Mutant of RouteDoor: the bandwidth is checked and never charged. *)
RouteUncharged(d) ==
  /\ Routable(d)
  /\ uplink' = [uplink EXCEPT !.cooldown = DoorCooldown]
  /\ doors' = [doors EXCEPT ![d].pending = RouteDelay]
  /\ UNCHANGED <<net, devs, links, body, billy, ended>>

(* The charge and Effect::DoorHeld; a hold that runs already starts anew. *)
RouteDoor(d) ==
  /\ Routable(d)
  /\ uplink' = [bandwidth |-> uplink.bandwidth - DoorCost, cooldown |-> DoorCooldown]
  /\ doors' = [doors EXCEPT ![d].pending = RouteDelay]
  /\ UNCHANGED <<net, devs, links, body, billy, ended>>

-------------------------------------------------------------------------------
(* The tick: each operator is a system, in the order update runs them. *)

(* system_timers: holds run out, and a pending route comes in. *)
Timers ==
  [d \in Doors |-> [open |-> IF doors[d].pending = 1 THEN RouteDuration ELSE Dec(doors[d].open),
                    pending |-> Dec(doors[d].pending)]]

(* camera_sees_player, as far as wires go: on, lit and in the same room. *)
Watching(c) ==
  /\ KindOf(c) = "Camera" /\ devs[c].active
  /\ net.devices[c].room = RoomOf[body.x]
  /\ \A l \in DOMAIN devs : KindOf(l) = "Light" /\ net.devices[l].room = net.devices[c].room
                              => devs[l].active

(* signal_readout over the doors ds; a door reads open on its own timer. *)
Readouts(ds) ==
  {r \cup {<<d, "Open">> : d \in {d \in Doors : ds[d].open > 0}} :
     r \in SUBSET {<<d, "Tripped">> : d \in {d \in DOMAIN devs : Watching(d) \/ KindOf(d) = "Guard"}}}

(* Mutant of Hold: a locked door keeps the hold it had. *)
HoldThrough(ds) ==
  [d \in Doors |-> IF devs'[d].open THEN [ds[d] EXCEPT !.open = AtLeast(@, 2)] ELSE ds[d]]

(* What the network does to the doors after its step. *)
Hold(ds) ==
  [d \in Doors |->
     CASE devs'[d].locked -> [open |-> 0, pending |-> 0]
       [] ~devs'[d].locked /\ devs'[d].open -> [ds[d] EXCEPT !.open = AtLeast(@, 2)]
       [] OTHER -> ds[d]]

Between(x, y) == {d \in Doors : x # y /\ DoorAt[d] = IF x < y THEN x ELSE y}
Blocked(ds, x, y) == \E d \in Between(x, y) : ds[d].open = 0

Ways(x) == {dir \in {-1, 0, 1} : x + dir \in Cells}

(* The input a tick lets through: a busy or seated body does not walk, and *)
(* busy hands press nothing.                                               *)
Steps == IF body.busy > 0 \/ body.seated THEN {0} ELSE Ways(body.x)
Presses == IF body.busy > 0 THEN {FALSE} ELSE BOOLEAN

(* system_player *)
Walk(dir, ds) == IF Blocked(ds, body.x, body.x + dir) THEN body.x ELSE body.x + dir

(* console_interaction, when no other interaction took the press. *)
Seated(press, x) == (press /\ (body.seated \/ x = ConsoleAt)) # body.seated

(* move_billy_toward: pressed against a shut door he waits, then badges it. *)
Pressed(dir, ds) == dir # 0 /\ Blocked(ds, billy.x, billy.x + dir)
Badges(dir, ds) == Pressed(dir, ds) /\ billy.wait + 1 >= BadgeDelay

BillyAfter(dir, ds) ==
  CASE Badges(dir, ds) -> [billy EXCEPT !.wait = 0]
    [] Pressed(dir, ds) /\ ~Badges(dir, ds) -> [billy EXCEPT !.wait = @ + 1]
    [] OTHER -> [x |-> billy.x + dir, wait |-> 0]

DoorsAfter(dir, ds) ==
  [d \in Doors |-> IF Badges(dir, ds) /\ d \in Between(billy.x, billy.x + dir)
                   THEN [ds[d] EXCEPT !.open = AtLeast(@, BadgeOpen)] ELSE ds[d]]

(* system_collisions: one rescue throws the body aside, past any door. *)
Thrown(x) ==
  LET y == IF x < billy'.x THEN x - 1 ELSE x + 1 IN IF y \in Cells THEN y ELSE x

Collide(x, seated, bandwidth) ==
  LET b == [x |-> x, vantage |-> RoomOf[x], seated |-> seated,
            busy |-> Dec(body.busy), rescued |-> body.rescued]
      u == [bandwidth |-> bandwidth, cooldown |-> Dec(uplink.cooldown)] IN
  \/ body' = b /\ uplink' = u /\ ended' = FALSE
  \/ /\ x = billy'.x /\ ~body.rescued /\ bandwidth >= RescueCost
     /\ body' = [b EXCEPT !.x = Thrown(x), !.rescued = TRUE]
     /\ uplink' = [u EXCEPT !.bandwidth = @ - RescueCost]
     /\ ended' = FALSE
  \/ x = billy'.x /\ body' = b /\ uplink' = u /\ ended' = TRUE

FloorTick ==
  /\ ~ended
  /\ \E readout \in Readouts(Timers) : Step(readout)
  /\ LET ds == Hold(Timers)
         bandwidth == IF uplink.bandwidth + Regen > Full THEN Full ELSE uplink.bandwidth + Regen IN
     /\ \E chase \in Ways(billy.x) : billy' = BillyAfter(chase, ds) /\ doors' = DoorsAfter(chase, ds)
     /\ \E dir \in Steps, press \in Presses :
          LET x == Walk(dir, ds) IN Collide(x, Seated(press, x), bandwidth)

(* An ended run's ticks do nothing. *)
EndedTick == ended /\ UNCHANGED floorVars

FloorNext ==
  \/ \E by \in Seats : Work(by)
  \/ \E d \in Doors : RouteDoor(d)
  \/ FloorTick
  \/ EndedTick

(* The host's loop keeps ticking. *)
FloorSpec == FloorInit /\ [][FloorNext]_floorVars /\ WF_floorVars(FloorTick)

-------------------------------------------------------------------------------
(* Properties. *)

FloorTypeOK ==
  /\ NetTypeOK
  /\ body.x \in Cells /\ body.busy \in Nat /\ body.seated \in BOOLEAN
  /\ billy.x \in Cells /\ billy.wait \in 0..(BadgeDelay - 1)
  /\ \A d \in Doors : doors[d].open \in Nat /\ doors[d].pending \in 0..RouteDelay
  /\ uplink.bandwidth \in 0..Full /\ uplink.cooldown \in 0..DoorCooldown
  /\ ended \in BOOLEAN

(* "A lock lands before anybody moves": nobody walks past a door the        *)
(* network has locked, not through a route that was under way, a wire that  *)
(* held it open, or the badge of the tick before.  A rescue is no walk.     *)
NobodyPassesALock ==
  [][\A d \in Doors : devs'[d].locked =>
       /\ d \notin Between(billy.x, billy'.x)
       /\ body'.rescued = body.rescued => d \notin Between(body.x, body'.x)]_floorVars

(* The infiltrator has two hands: the ticks owed to the panel never exceed  *)
(* one job's, in whatever order jobs, consoles and ticks come.              *)
OneJobAtATime == body.busy <= net.profile["Infiltrator"].busy

(* A route the hacker paid for comes in, or a wire locks its door: asking   *)
(* again starts the delay anew, and on the hardest setting the delay is     *)
(* longer than the cooldown, so only the bandwidth ends the asking.         *)
RouteArrives ==
  \A d \in Doors : doors[d].pending > 0
                     ~> (ended \/ doors[d].open > 0 \/ devs[d].locked)

(* Both, over a floor that keeps its types: doors are shut by wires and held  *)
(* open by hands that are busy one job at a time.                           *)
FloorIsSound == [](FloorTypeOK /\ OneJobAtATime) /\ NobodyPassesALock

(* sim/signal.rs: "a locked door stays shut against routes and badges". *)
LockedStaysShut == \A d \in Doors : devs[d].locked => doors[d].open = 0
================================================================================
