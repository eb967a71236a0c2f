------------------------------- MODULE Companion -------------------------------
(***************************************************************************)
(* Moletaire, the companion (crates/idaptik-core/src/companion): commands   *)
(* from the player and the world, and a tick that runs the state machine,   *)
(* then the hunger.                                                         *)
(*                                                                         *)
(* Positions and depths are small grids, one cell a tick; a timer counts    *)
(* ticks.  The action, distraction and glide timers are one, "timer": each  *)
(* is set on entry to its state and read only there.  Left to chance: the   *)
(* eat roll, how fast hunger grows, the pull of food and the direction of a *)
(* glide or a wander.  Left out: scans, coprocessor levels and sounds,      *)
(* which only report.                                                       *)
(***************************************************************************)
EXTENDS Option, Integers, Sequences, SequencesExt

CONSTANTS
  Items,              \* what can be carried
  BaseCapacity, RucksackCapacity,
  Ground,             \* the positions, an interval of integers
  DigDepth,           \* work needs a depth above it
  DiveTrigger,        \* an order underground dives from above it
  DiveDepth,          \* where that dive goes
  WorkTicks, DistractTicks, GlideTicks,
  Hungry, Starved,    \* the threshold and the top of the hunger scale
  FightInterval, FightDuration

(* Amounts of work and time are positive, as in the tuning; the rucksack is   *)
(* no smaller than bare paws, which the companion's checks ask for.           *)
ASSUME MoleAssumption ==
  /\ Ground \subseteq Int /\ 0 \in Ground
  /\ Min(Ground) \in Ground /\ Max(Ground) \in Ground
  /\ Ground = Min(Ground)..Max(Ground)
  /\ {DigDepth, DiveTrigger, DiveDepth, Hungry, Starved, FightInterval, FightDuration} \subseteq Nat
  /\ {WorkTicks, DistractTicks, GlideTicks} \subseteq Nat \ {0}
  /\ {BaseCapacity, RucksackCapacity} \subseteq Nat /\ BaseCapacity <= RucksackCapacity
  /\ None \notin Int

Moving == {"MovingUnderground", "MovingAboveGround", "CarryingItem"}
Working == {"DiggingTrap", "SabotagingCable"}
Fatal == {"Crushed", "CaughtByDog"}
MoleState == {"Idle", "Distracted", "Gliding", "Dead"} \cup Moving \cup Working \cup Fatal
Equipment == {"Rucksack", "Glider"}   \* the two of the five with a rule here

VARIABLES
  mole,       \* state, x, depth, their targets, alive
  timer,      \* ticks left of the work, the distraction or the glide
  wire,       \* where the loose wire is
  equipped,
  carried,
  appetite    \* hunger, fight_timer, is_resisting_control

moleVars == <<mole, timer, wire, equipped, carried, appetite>>

MoleInit ==
  /\ mole = [state |-> "Idle", x |-> 0, depth |-> 0, targetX |-> None,
             targetDepth |-> None, alive |-> TRUE]
  /\ timer = 0 /\ wire = None
  /\ equipped \in Equipment \cup {None}
  /\ carried = <<>>
  /\ appetite = [hunger |-> 0, fight |-> 0, resisting |-> FALSE]

-------------------------------------------------------------------------------
(* Commands. *)

(* Mutant of OrderMoveTo: the new state is set without the alive guard. *)
OrderAnyMole(x, underground) ==
  /\ mole' = [mole EXCEPT !.targetX = x,
                !.state = IF underground THEN "MovingUnderground" ELSE "MovingAboveGround"]
  /\ UNCHANGED <<timer, wire, equipped, carried, appetite>>

(* A target depth set by an earlier order stays unless this one sets its own. *)
OrderMoveTo(x, underground) ==
  /\ mole.alive
  /\ mole' = [mole EXCEPT
       !.targetX = x,
       !.state = IF underground THEN "MovingUnderground" ELSE "MovingAboveGround",
       !.targetDepth = CASE underground /\ mole.depth < DiveTrigger -> DiveDepth
                         [] ~underground /\ mole.depth > 0 -> 0
                         [] OTHER -> @]
  /\ UNCHANGED <<timer, wire, equipped, carried, appetite>>

(* order_dig_trap and order_sabotage_cable *)
OrderWork(work) ==
  /\ mole.alive /\ mole.depth > DigDepth
  /\ mole' = [mole EXCEPT !.state = work]
  /\ timer' = WorkTicks
  /\ UNCHANGED <<wire, equipped, carried, appetite>>

CarryCapacity == IF equipped = "Rucksack" THEN RucksackCapacity ELSE BaseCapacity

GiveItem(i) ==
  /\ mole.alive /\ Len(carried) < CarryCapacity
  /\ carried' = Append(carried, i)
  /\ mole' = [mole EXCEPT !.state = "CarryingItem"]
  /\ UNCHANGED <<timer, wire, equipped, appetite>>

(* The dead can drop too: the last item makes even a crushed mole Idle. *)
DropItem(i) ==
  /\ i \in ToSet(carried)
  /\ carried' = RemoveFirst(carried, i)
  /\ mole' = IF carried' = <<>> THEN [mole EXCEPT !.state = "Idle"] ELSE mole
  /\ UNCHANGED <<timer, wire, equipped, appetite>>

OrderDeliver(x) ==
  /\ mole.alive /\ carried # <<>>
  /\ mole' = [mole EXCEPT !.targetX = x]
  /\ UNCHANGED <<timer, wire, equipped, carried, appetite>>

(* Mutant of Shed: the excess stays in a pocket. *)
KeepAll(next) == carried

(* What is still carried once the equipment is next. *)
Shed(next) ==
  IF equipped = "Rucksack" /\ next # "Rucksack" /\ Len(carried) > BaseCapacity
  THEN SubSeq(carried, 1, BaseCapacity) ELSE carried

(* equip and unequip *)
Equip(next) ==
  /\ carried' = Shed(next)
  /\ equipped' = next
  /\ UNCHANGED <<mole, timer, wire, appetite>>

LaunchGlider ==
  /\ mole.alive /\ equipped = "Glider" /\ mole.depth = 0
  /\ mole' = [mole EXCEPT !.state = "Gliding"]
  /\ timer' = GlideTicks
  /\ UNCHANGED <<wire, equipped, carried, appetite>>

DistractByWire(x) ==
  /\ mole.alive /\ mole.state \notin Working
  /\ mole' = [mole EXCEPT !.state = "Distracted"]
  /\ timer' = DistractTicks /\ wire' = x
  /\ UNCHANGED <<equipped, carried, appetite>>

(* crush and catch_by_dog *)
Die(fate) ==
  /\ mole.alive
  /\ mole' = [mole EXCEPT !.state = fate, !.alive = FALSE]
  /\ UNCHANGED <<timer, wire, equipped, carried, appetite>>

Feed ==
  /\ appetite' = [hunger |-> 0, fight |-> 0, resisting |-> FALSE]
  /\ UNCHANGED <<mole, timer, wire, equipped, carried>>

Apply ==
  \/ \E x \in Ground : \/ \E u \in BOOLEAN : OrderMoveTo(x, u)
                       \/ OrderDeliver(x)
                       \/ DistractByWire(x)
  \/ \E w \in Working : OrderWork(w)
  \/ \E i \in Items : GiveItem(i) \/ DropItem(i)
  \/ \E e \in Equipment \cup {None} : Equip(e)
  \/ LaunchGlider
  \/ \E f \in Fatal : Die(f)
  \/ Feed

-------------------------------------------------------------------------------
(* tick: the state machine, then the hunger. *)

Toward(a, b) == CASE a < b -> a + 1 [] a > b -> a - 1 [] OTHER -> a
Within(x) == CHOOSE y \in Ground : \A z \in Ground : (x - y) * (x - y) <= (x - z) * (x - z)

(* The first part of update_movement: one step of depth, the target cleared once met. *)
DepthStep(m) ==
  CASE m.targetDepth = None -> m
    [] m.targetDepth = m.depth -> [m EXCEPT !.targetDepth = None]
    [] OTHER -> [m EXCEPT !.depth = Toward(m.depth, m.targetDepth)]

(* Arrival delivers, or has eaten, one item; without one the mole rests. *)
Arrive(m) ==
  IF m.state = "CarryingItem" /\ carried # <<>>
  THEN /\ carried' = Tail(carried)
       /\ mole' = [m EXCEPT !.targetX = None,
                            !.state = IF carried' = <<>> THEN "Idle" ELSE @]
  ELSE /\ mole' = [m EXCEPT !.targetX = None, !.state = "Idle"]
       /\ UNCHANGED carried

(* update_movement, with the drift the hunger adds to the position at the end. *)
UpdateMovement(drift) ==
  LET m == [DepthStep(mole) EXCEPT !.x = Within(@ + drift)] IN
  /\ UNCHANGED <<timer, wire>>
  /\ CASE mole.targetX = None -> mole' = m /\ UNCHANGED carried
       [] mole.targetX = mole.x -> Arrive(m)
       [] OTHER -> /\ mole' = [m EXCEPT !.x = Within(Toward(mole.x, mole.targetX) + drift)]
                   /\ UNCHANGED carried

(* Mutant of CountDown: the depth goes on changing under work and glide. *)
CountDownSinking(m) ==
  /\ timer' = timer - 1
  /\ mole' = [DepthStep(m) EXCEPT !.state = IF timer <= 1 THEN "Idle" ELSE @]

(* One tick of a state that lasts: it ends in Idle, with its event. *)
CountDown(m) ==
  /\ timer' = timer - 1
  /\ mole' = [m EXCEPT !.state = IF timer <= 1 THEN "Idle" ELSE @]

UpdateState(drift) ==
  LET still == [mole EXCEPT !.x = Within(@ + drift)] IN
  CASE mole.state = "Idle" ->
         mole' = still /\ UNCHANGED <<timer, wire, carried>>
    [] mole.state \in Moving -> UpdateMovement(drift)
    [] mole.state = "DiggingTrap" ->
         CountDown(still) /\ UNCHANGED <<wire, carried>>
    [] mole.state = "SabotagingCable" ->
         CountDown(still) /\ UNCHANGED <<wire, carried>>
    [] mole.state = "Distracted" ->
         /\ CountDown([mole EXCEPT !.x = Within((IF wire > @ THEN @ + 1 ELSE @ - 1) + drift)])
         /\ wire' = IF timer <= 1 THEN None ELSE wire
         /\ UNCHANGED carried
    [] mole.state = "Gliding" ->
         /\ \E way \in {-1, 1} :
              CountDown([mole EXCEPT !.x = Within(@ + way + drift)])
         /\ UNCHANGED <<wire, carried>>

(* Mutant of FightAfter: the fight timer is not reset at an episode's end. *)
FightNeverReset(fight) ==
  [fight |-> fight, resisting |-> fight > FightInterval]

(* A control-resistance episode, fight ticks into the hunger. *)
FightAfter(fight) ==
  IF fight > FightInterval + FightDuration
  THEN [fight |-> 0, resisting |-> FALSE]
  ELSE [fight |-> fight, resisting |-> fight > FightInterval]

(* The hunger part of a tick, from the level this tick reaches. *)
AppetiteAt(h) ==
  LET f == FightAfter(appetite.fight + 1) IN
  IF h > Hungry THEN [hunger |-> h, fight |-> f.fight, resisting |-> f.resisting]
  ELSE [hunger |-> h, fight |-> appetite.fight, resisting |-> FALSE]

MoleTick ==
  /\ mole.alive
  /\ \E h \in {appetite.hunger, appetite.hunger + 1} \cap 0..Starved :
       /\ appetite' = AppetiteAt(h)
       /\ \E drift \in IF h > Hungry THEN {-1, 0, 1} ELSE {0} : UpdateState(drift)
  /\ UNCHANGED equipped

(* tick of a dead mole: no part of it does anything. *)
DeadTick == ~mole.alive /\ UNCHANGED moleVars

MoleNext == Apply \/ MoleTick \/ DeadTick

MoleSpec == MoleInit /\ [][MoleNext]_moleVars

-------------------------------------------------------------------------------
(* Properties. *)

MoleTypeOK ==
  /\ mole \in [state : MoleState, x : Ground, depth : 0..DiveDepth,
               targetX : Ground \cup {None}, targetDepth : {None, 0, DiveDepth},
               alive : BOOLEAN]
  /\ timer \in Nat /\ wire \in Ground \cup {None}
  /\ equipped \in Equipment \cup {None}
  /\ carried \in Seq(Items)
  /\ appetite \in [hunger : 0..Starved, fight : 0..(FightInterval + FightDuration),
                   resisting : BOOLEAN]

(* Whatever order items, rucksack and deaths come in, the mole never holds *)
(* more than its present equipment lets it: giving checks the capacity of  *)
(* the moment, and taking the rucksack off has to shed what it held.       *)
CarriesWithinCapacity == Len(carried) <= CarryCapacity

(* The depth is checked only when work or a glide is ordered, while an     *)
(* earlier order may have left a target depth behind.  It is still right   *)
(* when the trap triggers, the cable breaks or the glide lands.            *)
WorkKeepsItsDepth ==
  /\ mole.state \in Working => mole.depth > DigDepth /\ timer > 0
  /\ mole.state = "Gliding" => mole.depth = 0

(* Hunger takes the controls only in episodes: while it resists it is past *)
(* the threshold, inside the episode's window, and so the player has the   *)
(* mole back after at most FightDuration ticks.                            *)
ResistanceIsAnEpisode ==
  appetite.resisting =>
    /\ appetite.hunger > Hungry
    /\ appetite.fight \in (FightInterval + 1)..(FightInterval + FightDuration)

(* Permadeath: a dead mole is never alive again, does not move, and takes  *)
(* nothing more, although a late drop relabels it Idle, from where a       *)
(* command that looked at the state alone would set it going.              *)
DeadIsStill ==
  [][~mole.alive =>
       /\ ~mole'.alive /\ mole'.x = mole.x /\ mole'.depth = mole.depth
       /\ mole'.state \in {mole.state, "Idle"}
       /\ Len(carried') <= Len(carried)]_moleVars

(* The four together: no order of orders, items, hunger and death leaves the  *)
(* mole in a state its own guards would have refused.                        *)
MoleIsSound ==
  /\ [](MoleTypeOK /\ CarriesWithinCapacity /\ WorkKeepsItsDepth /\ ResistanceIsAnEpisode)
  /\ DeadIsStill
================================================================================
