----------------------------- MODULE ScenarioProofs -----------------------------
(***************************************************************************)
(* Eight parts of the scenario for every value of their constants: the      *)
(* director's difficulty, however many tactics and proposals there are, the   *)
(* way in over the roof, for any street, building and rope, the companion,    *)
(* for any ground, load and appetite, every building the runtime accepts,     *)
(* the routes through it, every floor whose definition validates, the         *)
(* supervisor's evidence, for any batches of events and any sweep, and the     *)
(* shipped actor under its modifiers, in any order.                          *)
(***************************************************************************)
EXTENDS Director, Rooftop, Companion, Routes, FloorPlan, Supervision, ActorRegistry,
        SequenceTheorems, FiniteSetTheorems, NaturalsInduction, WellFoundedInduction, TLAPS

-------------------------------------------------------------------------------
(* The director. *)

(* Every proposal, applied or not, goes one step up from a difficulty there   *)
(* was, and stands for a tactic that was seen twice.                         *)
DirectorInv ==
  /\ difficulty \in 0..Maximum
  /\ observations \in [Tactics -> Nat]
  /\ proposals \subseteq [from : 0..Maximum, to : 0..Maximum]
  /\ \A p \in proposals : p.to \in {p.from, p.from + 1}
  /\ proposals # {} => \E t \in Tactics : observations[t] >= 2

(* A tactic's repeats only grow, and a proposal starts at the difficulty of   *)
(* its moment.                                                              *)
LEMMA ObserveKeepsInv ==
  ASSUME DirectorInv, NEW t \in Tactics, NEW n \in 1..MaxRepeats, NEW c, ObserveTactic(t, n, c)
  PROVE  DirectorInv'
<1> USE DirectorAssumption
<1>1. /\ observations' = [observations EXCEPT ![t] = Higher(@, n)]
      /\ proposals' = IF observations'[t] >= 2 /\ c
                      THEN proposals \cup {[from |-> difficulty, to |-> Lower(difficulty + 1, Maximum)]}
                      ELSE proposals
      /\ difficulty' = difficulty
  BY DEF ObserveTactic
<1>2. observations' \in [Tactics -> Nat] /\ \A s \in Tactics : observations'[s] >= observations[s]
  BY <1>1 DEF DirectorInv, Higher
<1>3. LET p == [from |-> difficulty, to |-> Lower(difficulty + 1, Maximum)]
      IN p \in [from : 0..Maximum, to : 0..Maximum] /\ p.to \in {p.from, p.from + 1}
  BY DEF DirectorInv, Lower
<1>4. proposals # {} => \E s \in Tactics : observations'[s] >= 2
  <2>1. proposals # {} => \E s \in Tactics : observations[s] >= 2
    BY DEF DirectorInv
  <2>2. \A s \in Tactics : observations[s] \in Nat /\ observations'[s] \in Nat
    BY <1>2 DEF DirectorInv
  <2> QED BY <1>2, <2>1, <2>2
<1>5. CASE proposals' = proposals
  BY <1>1, <1>2, <1>4, <1>5 DEF DirectorInv
<1>6. CASE observations'[t] >= 2 /\ c
  BY <1>1, <1>2, <1>3, <1>6 DEF DirectorInv
<1> QED BY <1>1, <1>5, <1>6

(* An accepted proposal starts at the present difficulty, so it raises it by  *)
(* one at most.                                                             *)
LEMMA ApplyIsGradual ==
  ASSUME DirectorInv, NEW p \in proposals, ApplyProposal(p)
  PROVE  /\ DirectorInv'
         /\ difficulty' \in {difficulty, difficulty + 1} /\ difficulty' <= Maximum
         /\ \E t \in Tactics : observations[t] >= 2
<1> USE DirectorAssumption
<1>1. /\ difficulty' = IF Accepted(p) THEN p.to ELSE difficulty
      /\ observations' = observations /\ proposals' = proposals
  BY DEF ApplyProposal
<1>2. /\ p.from \in 0..Maximum /\ p.to \in 0..Maximum /\ p.to \in {p.from, p.from + 1}
      /\ difficulty \in 0..Maximum
  BY DEF DirectorInv
<1>3. difficulty' \in {difficulty, difficulty + 1} /\ difficulty' \in 0..Maximum
  BY <1>1, <1>2 DEF Accepted
<1> QED BY <1>1, <1>3 DEF DirectorInv

(* The director's invariant holds throughout. *)
THEOREM DirectorInvariant == DirectorSpec => []DirectorInv
<1>1. DirectorInit => DirectorInv
  BY DEF DirectorInit, DirectorInv
<1>2. DirectorInv /\ [DirectorNext]_directorVars => DirectorInv'
  <2> SUFFICES ASSUME DirectorInv, [DirectorNext]_directorVars PROVE DirectorInv'
    OBVIOUS
  <2>1. ASSUME NEW t \in Tactics, NEW n \in 1..MaxRepeats, NEW c \in BOOLEAN, ObserveTactic(t, n, c)
        PROVE  DirectorInv'
    BY <2>1, ObserveKeepsInv
  <2>2. ASSUME NEW p \in proposals, ApplyProposal(p) PROVE DirectorInv'
    BY <2>2, ApplyIsGradual
  <2>3. ASSUME NEW s, NEW c, Weigh(s, c) PROVE DirectorInv'
    BY <2>3 DEF Weigh, DirectorInv
  <2>4. CASE UNCHANGED directorVars
    BY <2>4 DEF directorVars, DirectorInv
  <2> QED BY <2>1, <2>2, <2>3, <2>4 DEF DirectorNext
<1> QED BY <1>1, <1>2, PTL DEF DirectorSpec

(* "Apply a proposal only inside the declared policy envelope" (vsm.rs):      *)
(* however many proposals wait, and however late they are applied, the        *)
(* difficulty rises a step at a time, within its maximum, and only after a    *)
(* tactic has repeated.                                                     *)
THEOREM GradualDifficulty == DirectorSpec => DifficultyIsGradual
<1> DEFINE Gradual ==
      /\ difficulty' \in {difficulty, difficulty + 1} /\ difficulty' <= Maximum
      /\ difficulty' # difficulty => \E t \in Tactics : observations[t] >= 2
<1>1. DirectorInv /\ [DirectorNext]_directorVars => [Gradual]_directorVars
  <2> SUFFICES ASSUME DirectorInv, DirectorNext PROVE Gradual
    BY Zenon
  <2>1. difficulty \in 0..Maximum
    BY DEF DirectorInv
  <2>2. CASE difficulty' = difficulty
    BY <2>1, <2>2, DirectorAssumption
  <2>3. ASSUME NEW p \in proposals, ApplyProposal(p) PROVE Gradual
    BY <2>3, ApplyIsGradual
  <2> QED BY <2>2, <2>3 DEF DirectorNext, ObserveTactic, Weigh
<1>2. [][Gradual]_directorVars => DifficultyIsGradual
  BY PTL DEF DifficultyIsGradual
<1> QED BY <1>1, <1>2, DirectorInvariant, PTL DEF DirectorSpec

-------------------------------------------------------------------------------
(* The way in over the roof. *)

Walkers == [place : {"Roof", "RopeDown", "RopeUp", "Floor"},
            x : Street \cup Indoors, height : 0..RoofHeight]

(* How high a body can be where it is. On the rope a step more always         *)
(* remains, and one who climbs out of a fall starts below the roof.          *)
StandsRight(w) ==
  /\ w \in Walkers
  /\ w.place = "Roof" => w.x \in RoofCells /\ w.height = RoofHeight
  /\ w.place = "RopeDown" => w.height > 0
  /\ w.place = "RopeUp" => w.height < RoofHeight
  /\ w.place = "Floor" => w.height <= Ceiling

RoofInv ==
  /\ StandsRight(walker)
  /\ front \in [lockpick : 0..(PickTime - 1), picked : BOOLEAN, open : 0..HoldTime]
  /\ arrival \in [held : BOOLEAN, left : 0..ArrivalRoll]
  /\ entered \in BOOLEAN
  /\ ClockWaitsOutside

(* The street and the rooms share no cell. *)
LEMMA Apart == Street \cap Indoors = {}
BY RoofAssumption

(* Walking, falling and the rope keep a body where one can stand. *)
LEMMA MovedStands ==
  ASSUME RoofInv, NEW dir \in {-1, 0, 1}
  PROVE  StandsRight(Moved(dir))
<1> USE RoofAssumption
<1>0. walker \in Walkers /\ StandsRight(walker)
  BY DEF RoofInv, StandsRight
<1>1. CASE walker.place \in {"RopeDown", "RopeUp"}
  <2>1. Moved(dir) = RopeStep
    BY <1>1 DEF Moved
  <2>2. CASE walker.place = "RopeDown" /\ walker.height = 1
    BY <1>0, <2>1, <2>2 DEF RopeStep, StandsRight, Walkers
  <2>3. CASE walker.place = "RopeDown" /\ walker.height # 1
    <3>1. Moved(dir) = [place |-> "RopeDown", x |-> RopeFoot, height |-> walker.height - 1]
      BY <2>1, <2>3, Zenon DEF RopeStep
    <3> QED BY <1>0, <2>3, <3>1 DEF StandsRight, Walkers
  <2>4. CASE walker.place = "RopeUp" /\ walker.height + 1 = RoofHeight
    BY <1>0, <2>1, <2>4 DEF RopeStep, StandsRight, Walkers, RoofCells
  <2>5. CASE walker.place = "RopeUp" /\ walker.height + 1 # RoofHeight
    <3>1. Moved(dir) = [place |-> "RopeUp", x |-> RopeFoot, height |-> walker.height + 1]
      BY <2>1, <2>5 DEF RopeStep
    <3> QED BY <1>0, <2>5, <3>1 DEF StandsRight, Walkers
  <2> QED BY <1>1, <2>2, <2>3, <2>4, <2>5
<1>2. CASE walker.place = "Roof"
  <2>1. Moved(dir) = [walker EXCEPT !.x = Clamped(@ + dir, RoofCells)]
    BY <1>2 DEF Moved
  <2>2. Clamped(walker.x + dir, RoofCells) \in RoofCells
    BY <1>0, <1>2 DEF Clamped, StandsRight
  <2> QED BY <1>0, <1>2, <2>1, <2>2 DEF StandsRight, Walkers, RoofCells
<1>3. CASE walker.place = "Floor"
  <2> DEFINE y == Clamped(walker.x + dir, Street \cup Indoors)
             x == IF Stopped(walker.x, y) THEN walker.x ELSE y
             h == Less(walker.height)
  <2>1. Moved(dir) = [place |-> "Floor", x |-> x, height |-> h]
    BY <1>3 DEF Moved
  <2>2. x \in Street \cup Indoors
    BY <1>0 DEF Clamped, Walkers
  <2>3. h \in 0..Ceiling /\ h \in 0..RoofHeight
    BY <1>0, <1>3 DEF StandsRight, Walkers, Less
  <2> HIDE DEF x, h
  <2> QED BY <1>0, <1>3, <2>1, <2>2, <2>3 DEF StandsRight, Walkers
<1> QED BY <1>0, <1>1, <1>2, <1>3 DEF Walkers

(* A handhold takes hold of nobody on the floor line within the rooms.       *)
LEMMA HandledStands ==
  ASSUME NEW w, StandsRight(w), NEW pressed \in BOOLEAN
  PROVE  /\ StandsRight(Handled(w, pressed))
         /\ Outside(Handled(w, pressed)) \/ Handled(w, pressed) = w
            \/ /\ w.place = "Roof" /\ ~AtRope(w)
               /\ Handled(w, pressed).x = Hatch /\ Handled(w, pressed).height = Ceiling
<1> USE RoofAssumption
<1>1. CASE pressed /\ AtRope(w)
  <2>1. Handled(w, pressed) = [place |-> IF w.place = "Roof" THEN "RopeDown" ELSE "RopeUp",
                              x |-> RopeFoot, height |-> w.height]
    <3>1. ~AtHatch(w)
      BY <1>1 DEF AtHatch
    <3> QED BY <1>1, <3>1, Zenon DEF Handled
  <2>2. CASE w.place = "Roof"
    BY <2>1, <2>2 DEF StandsRight, Walkers, Outside
  <2>3. CASE w.place = "Floor"
    BY <2>1, <2>3 DEF StandsRight, Walkers, Outside
  <2> QED BY <1>1, <2>2, <2>3 DEF AtRope
<1>2. CASE pressed /\ ~AtRope(w) /\ AtHatch(w)
  <2>1. Handled(w, pressed) = [place |-> "Floor", x |-> Hatch, height |-> Ceiling]
    BY <1>2, Zenon DEF Handled
  <2>2. w.place = "Roof"
    BY <1>2 DEF AtHatch
  <2>3. StandsRight([place |-> "Floor", x |-> Hatch, height |-> Ceiling])
    BY DEF StandsRight, Walkers
  <2>4. StandsRight(Handled(w, pressed))
    BY <2>1, <2>3, Zenon
  <2>5. Handled(w, pressed).x = Hatch /\ Handled(w, pressed).height = Ceiling
    BY <2>1
  <2> QED BY <1>2, <2>2, <2>4, <2>5, Zenon
<1>3. CASE ~(pressed /\ AtRope(w)) /\ ~(pressed /\ AtHatch(w))
  BY <1>3, Zenon DEF Handled
<1> QED BY <1>1, <1>2, <1>3

(* Every tick of the roof keeps the invariant. *)
LEMMA RoofTickKeepsInv ==
  ASSUME RoofInv, RoofTick
  PROVE  RoofInv'
<1> USE RoofAssumption
<1>1. PICK dir \in {-1, 0, 1}, pressed \in BOOLEAN, holding \in BOOLEAN :
        /\ front' = Picked(Moved(dir), holding)
        /\ arrival' = ArrivalAfter(Moved(dir))
        /\ walker' = Handled(Moved(dir), pressed)
        /\ entered' = (entered \/ ~Outside(Moved(dir)))
  BY Zenon DEF RoofTick
<1> DEFINE w == Moved(dir)
<1>2. StandsRight(w)
  BY MovedStands
<1> HIDE DEF w
<1>3. StandsRight(walker') /\ (Outside(walker') \/ walker' = w \/ walker'.height = Ceiling)
  BY <1>1, <1>2, HandledStands, Zenon DEF w
<1>4. front' \in [lockpick : 0..(PickTime - 1), picked : BOOLEAN, open : 0..HoldTime]
  <2>1. FrontTimed \in [lockpick : 0..(PickTime - 1), picked : BOOLEAN, open : 0..HoldTime]
        /\ FrontTimed.lockpick = front.lockpick
    BY DEF RoofInv, FrontTimed, Less
  <2>2. front' = Picked(w, holding)
    BY <1>1 DEF w
  <2>3. CASE AtLock(w) /\ holding /\ front.lockpick + 1 >= PickTime
    <3>0. ~(front.lockpick + 1 < PickTime)
      BY <2>3 DEF RoofInv
    <3>1. front' = [FrontTimed EXCEPT !.lockpick = 0, !.picked = TRUE]
      BY <3>0, <2>2, <2>3, Zenon DEF Picked
    <3>2. front' = [lockpick |-> 0, picked |-> TRUE, open |-> FrontTimed.open]
      BY <2>1, <3>1, Zenon
    <3> QED BY <2>1, <3>2
  <2>4. CASE AtLock(w) /\ holding /\ ~(front.lockpick + 1 >= PickTime)
    <3>0. front.lockpick + 1 < PickTime
      BY <2>4 DEF RoofInv
    <3>1. front' = [FrontTimed EXCEPT !.lockpick = @ + 1]
      BY <3>0, <2>2, <2>4, Zenon DEF Picked
    <3> QED BY <2>1, <2>4, <3>1 DEF RoofInv
  <2>5. CASE AtLock(w) /\ ~holding
    <3>1. front' = [FrontTimed EXCEPT !.lockpick = Less(@)]
      BY <2>2, <2>5 DEF Picked
    <3> QED BY <2>1, <3>1 DEF Less
  <2>6. CASE ~AtLock(w)
    BY <2>1, <2>2, <2>6 DEF Picked
  <2> QED BY <2>3, <2>4, <2>5, <2>6
<1>5. CASE arrival.held /\ Outside(w)
  <2>1. arrival' = arrival /\ entered' = entered
    BY <1>1, <1>5, Zenon DEF ArrivalAfter, UnderWay, w, RoofInv
  <2> QED BY <1>3, <1>4, <1>5, <2>1, Zenon DEF RoofInv, ClockWaitsOutside
<1>6. CASE ~(arrival.held /\ Outside(w))
  <2>1. arrival' = [held |-> FALSE, left |-> Less(arrival.left)]
    BY <1>1, <1>6 DEF ArrivalAfter, UnderWay, w
  <2>2. entered' = TRUE
    BY <1>1, <1>6, Zenon DEF RoofInv, ClockWaitsOutside, w
  <2>3. Less(arrival.left) \in 0..ArrivalRoll
    BY DEF RoofInv, Less
  <2>4. arrival' \in [held : BOOLEAN, left : 0..ArrivalRoll] /\ ~arrival'.held
    BY <2>1, <2>3
  <2> QED BY <1>3, <1>4, <2>2, <2>4, Zenon DEF RoofInv, ClockWaitsOutside
<1> QED BY <1>5, <1>6

(* The roof's invariant holds throughout. *)
THEOREM RoofInvariant == RoofSpec => []RoofInv
<1>1. RoofInit => RoofInv
  <2> SUFFICES ASSUME RoofInit PROVE RoofInv
    OBVIOUS
  <2>1. StandsRight(walker) /\ Outside(walker)
    BY RoofAssumption DEF RoofInit, StandsRight, Walkers, RoofCells, Outside
  <2>2. /\ front \in [lockpick : 0..(PickTime - 1), picked : BOOLEAN, open : 0..HoldTime]
        /\ arrival \in [held : BOOLEAN, left : 0..ArrivalRoll]
        /\ arrival.held /\ arrival.left = ArrivalRoll
    BY RoofAssumption DEF RoofInit
  <2>3. entered = FALSE
    BY DEF RoofInit
  <2> QED BY <2>1, <2>2, <2>3, Zenon DEF RoofInv, ClockWaitsOutside
<1>2. RoofInv /\ [RoofNext]_roofVars => RoofInv'
  <2> SUFFICES ASSUME RoofInv, [RoofNext]_roofVars PROVE RoofInv'
    OBVIOUS
  <2>1. CASE RouteFront
    <3>1. front' \in [lockpick : 0..(PickTime - 1), picked : BOOLEAN, open : 0..HoldTime]
      BY <2>1, RoofAssumption DEF RouteFront, RoofInv
    <3> QED BY <2>1, <3>1, Zenon DEF RouteFront, RoofInv, ClockWaitsOutside
  <2>2. CASE RoofTick
    BY <2>2, RoofTickKeepsInv
  <2>3. CASE UNCHANGED roofVars
    BY <2>3, Zenon DEF roofVars, RoofInv, ClockWaitsOutside
  <2> QED BY <2>1, <2>2, <2>3 DEF RoofNext
<1> QED BY <1>1, <1>2, PTL DEF RoofSpec

(* A step that ends inside began on the roof, over the hatch, or on the       *)
(* street, before a front door that is not shut.                             *)
LEMMA TicksInside ==
  ASSUME RoofInv, RoofTick, Outside(walker), ~Outside(walker')
  PROVE  \/ walker.place = "Roof" /\ walker'.x = Hatch
         \/ walker.place = "Floor" /\ ~FrontShut(front)
<1> USE RoofAssumption
<1>1. PICK dir \in {-1, 0, 1}, pressed \in BOOLEAN : walker' = Handled(Moved(dir), pressed)
  BY Zenon DEF RoofTick
<1> DEFINE w == Moved(dir)
<1>2. walker \in Walkers /\ StandsRight(w)
  BY MovedStands DEF RoofInv, StandsRight
<1>3. walker' = w \/ (w.place = "Roof" /\ ~AtRope(w) /\ walker'.x = Hatch)
  BY <1>1, <1>2, HandledStands, Zenon
<1>4. CASE walker.place \in {"RopeDown", "RopeUp"}
  <2>1. Moved(dir) = RopeStep
    BY <1>4 DEF Moved
  <2>2. Outside(w) /\ (w.place = "Roof" => AtRope(w))
    <3>1. CASE w.place = "Roof"
      <4>1. w.x = RopeTop
        BY <1>2, <1>4, <2>1, <3>1 DEF RopeStep, Walkers
      <4> QED BY <3>1, <4>1 DEF Outside, AtRope
    <3>2. CASE w.place = "Floor"
      <4>1. w.x = RopeFoot
        BY <1>2, <1>4, <2>1, <3>2 DEF RopeStep, Walkers
      <4> QED BY <3>2, <4>1 DEF Outside
    <3> QED BY <3>1, <3>2 DEF Outside
  <2> QED BY <1>3, <2>2
<1>5. CASE walker.place = "Roof"
  <2>1. w.place = "Roof"
    BY <1>2, <1>5 DEF Moved, Walkers
  <2> QED BY <1>3, <1>5, <2>1 DEF Outside
<1>6. CASE walker.place = "Floor"
  <2> DEFINE y == Clamped(walker.x + dir, Street \cup Indoors)
             x == IF Stopped(walker.x, y) THEN walker.x ELSE y
  <2>1. w.place = "Floor" /\ w.x = x
    BY <1>2, <1>6 DEF Moved, Walkers
  <2>2. walker.x \in Street /\ x \notin Street
    BY <1>3, <1>6, <2>1 DEF Outside
  <2>3. x = y /\ ~Stopped(walker.x, y) /\ y \in Indoors /\ y = walker.x + dir
    BY <2>2 DEF Clamped
  <2>4. walker.x = FrontDoor /\ y = FrontDoor + 1
    <3> HIDE DEF y, x
    <3>1. walker.x \in Int /\ FrontDoor \in Int /\ y \in Int
      BY <2>2, <2>3
    <3>2. walker.x <= FrontDoor /\ FrontDoor < y
      BY <2>2, <2>3
    <3> QED BY <2>3, <3>1, <3>2
  <2>5. ~FrontShut(FrontTimed)
    BY <2>3, <2>4 DEF Stopped
  <2>6. FrontShut(front) => FrontShut(FrontTimed)
    BY DEF FrontShut, FrontTimed, Less, RoofInv
  <2> QED BY <1>6, <2>5, <2>6
<1> QED BY <1>2, <1>4, <1>5, <1>6 DEF Walkers

(* The infiltrator comes in by the hatch or an open front door and no other   *)
(* way, and Billy's clock, whole till then, runs from that moment.            *)
THEOREM RoofSound == RoofSpec => RoofIsSound
<1> DEFINE Way ==
      Outside(walker) /\ ~Outside(walker') =>
        \/ walker.place = "Roof" /\ walker'.x = Hatch
        \/ walker.place = "Floor" /\ ~FrontShut(front)
<1>1. RoofInv => RoofTypeOK /\ ClockWaitsOutside
  BY DEF RoofInv, StandsRight, Walkers, RoofTypeOK
<1>2. RoofInv /\ [RoofNext]_roofVars => [Way]_roofVars
  <2> SUFFICES ASSUME RoofInv, RoofNext PROVE Way
    BY Zenon
  <2>1. CASE RouteFront
    BY <2>1, Zenon DEF RouteFront
  <2>2. CASE RoofTick
    BY <2>2, TicksInside
  <2> QED BY <2>1, <2>2 DEF RoofNext
<1>3. [][Way]_roofVars => TwoWaysIn
  BY PTL DEF TwoWaysIn
<1> QED BY <1>1, <1>2, <1>3, RoofInvariant, PTL DEF RoofSpec, RoofIsSound

-------------------------------------------------------------------------------
(* The companion. *)

(* The nearest position on the ground is one. *)
LEMMA WithinGround == \A x \in Int : Within(x) \in Ground
<1> SUFFICES ASSUME NEW x \in Int PROVE Within(x) \in Ground
  OBVIOUS
<1> DEFINE lo == Min(Ground)
           hi == Max(Ground)
           y == IF x < lo THEN lo ELSE IF x > hi THEN hi ELSE x
<1>1. Ground = lo..hi /\ lo \in Int /\ hi \in Int /\ lo <= hi
  <2>1. Ground = lo..hi /\ lo \in Ground /\ hi \in Ground /\ Ground \subseteq Int
    BY MoleAssumption, Zenon
  <2> HIDE DEF lo, hi
  <2> QED BY <2>1
<1> HIDE DEF lo, hi
<1>2. y \in Ground /\ y \in Int
  BY <1>1
<1>3. ASSUME NEW z \in Ground PROVE (x - y) * (x - y) <= (x - z) * (x - z)
  <2>0. z \in Int /\ lo <= z /\ z <= hi
    BY <1>1
  <2>1. \A a, b \in Nat : a <= b => a * a <= b * b
    OBVIOUS
  <2>2. CASE x < lo
    <3>1. lo - x \in Nat /\ z - x \in Nat /\ lo - x <= z - x
      BY <1>1, <2>0, <2>2
    <3>2. (lo - x) * (lo - x) <= (z - x) * (z - x)
      BY <2>1, <3>1
    <3>3. (x - lo) * (x - lo) = (lo - x) * (lo - x) /\ (x - z) * (x - z) = (z - x) * (z - x)
      BY <1>1, <2>0
    <3> QED BY <2>2, <3>2, <3>3
  <2>3. CASE x > hi
    <3>1. x - hi \in Nat /\ x - z \in Nat /\ x - hi <= x - z /\ ~(x < lo)
      BY <1>1, <2>0, <2>3
    <3>2. (x - hi) * (x - hi) <= (x - z) * (x - z)
      BY <2>1, <3>1
    <3> QED BY <2>3, <3>1, <3>2
  <2>4. CASE x \in lo..hi
    <3>1. y = x
      BY <1>1, <2>4
    <3>2. (x - x) * (x - x) = 0 /\ (x - z) * (x - z) >= 0
      BY <2>0
    <3> QED BY <3>1, <3>2
  <2> QED BY <1>1, <2>2, <2>3, <2>4
<1> HIDE DEF y
<1> QED BY <1>2, <1>3 DEF Within

(* Dropping takes one item, and what is left is items. *)
LEMMA RemoveFirstShortens ==
  ASSUME NEW S, NEW s \in Seq(S), NEW e
  PROVE  RemoveFirst(s, e) \in Seq(S) /\ Len(RemoveFirst(s, e)) <= Len(s)
<1>1. CASE \E i \in 1..Len(s) : s[i] = e
  <2> DEFINE I == {i \in 1..Len(s) : s[i] = e}
             k == Min(I)
  <2>1. k \in I
    <3>1. I \subseteq Nat /\ I # {}
      BY <1>1
    <3> HIDE DEF I
    <3>2. PICK m \in I : \A n \in I : ~ (<<n, m>> \in OpToRel(<, Nat))
      BY <3>1, NatLessThanWellFounded, WFMin
    <3>3. \A n \in I : ~(n < m)
      BY <3>1, <3>2 DEF OpToRel
    <3>4. \A n \in I : m <= n
      BY <3>1, <3>3
    <3> QED BY <3>4 DEF Min
  <2>2. RemoveFirst(s, e) = SubSeq(s, 1, k - 1) \o SubSeq(s, k + 1, Len(s))
    BY <1>1 DEF RemoveFirst, RemoveAt, SelectInSeq
  <2>3. k \in 1..Len(s) /\ Len(s) \in Nat
    BY <2>1
  <2> HIDE DEF I, k
  <2>4. SubSeq(s, 1, k - 1) \in Seq(S) /\ Len(SubSeq(s, 1, k - 1)) = k - 1
    BY <2>3, SubSeqProperties
  <2>5. SubSeq(s, k + 1, Len(s)) \in Seq(S) /\ Len(SubSeq(s, k + 1, Len(s))) = Len(s) - k
    BY <2>3, SubSeqProperties
  <2> DEFINE t == SubSeq(s, 1, k - 1)
             u == SubSeq(s, k + 1, Len(s))
  <2> HIDE DEF t, u
  <2>6. t \o u \in Seq(S) /\ Len(t \o u) = Len(t) + Len(u)
    BY <2>4, <2>5, ConcatProperties DEF t, u
  <2>7. RemoveFirst(s, e) = t \o u
    BY <2>2 DEF t, u
  <2>8. Len(t) = k - 1 /\ Len(u) = Len(s) - k
    BY <2>4, <2>5 DEF t, u
  <2>9. Len(t \o u) <= Len(s)
    BY <2>3, <2>6, <2>8
  <2> QED BY <2>6, <2>7, <2>9
<1>2. CASE ~\E i \in 1..Len(s) : s[i] = e
  BY <1>2 DEF RemoveFirst
<1> QED BY <1>1, <1>2

MoleRecord ==
  [state : MoleState, x : Ground, depth : 0..DiveDepth, targetX : Ground \cup {None},
   targetDepth : {None, 0, DiveDepth}, alive : BOOLEAN]

(* What the orders leave: a living mole is in a state a tick knows, and what   *)
(* lasts has ticks left.                                                     *)
Alert(m, t, w) ==
  /\ m \in MoleRecord
  /\ m.alive => m.state \notin Fatal \cup {"Dead"}
  /\ m.state \in Working \cup {"Distracted", "Gliding"} => t > 0
  /\ m.state = "Distracted" => w \in Ground
  /\ m.state \in Working => m.depth > DigDepth
  /\ m.state = "Gliding" => m.depth = 0

BodyInv == Alert(mole, timer, wire) /\ timer \in Nat /\ wire \in Ground \cup {None}
LoadInv ==
  /\ equipped \in Equipment \cup {None}
  /\ carried \in Seq(Items) /\ Len(carried) <= CarryCapacity
AppetiteInv ==
  /\ appetite \in [hunger : 0..Starved, fight : 0..(FightInterval + FightDuration),
                   resisting : BOOLEAN]
  /\ ResistanceIsAnEpisode
MoleInv == BodyInv /\ LoadInv /\ AppetiteInv

(* The invariant says all that is checked. *)
LEMMA MoleInvGivesSound ==
  MoleInv => MoleTypeOK /\ CarriesWithinCapacity /\ WorkKeepsItsDepth /\ ResistanceIsAnEpisode
BY DEF MoleInv, BodyInv, LoadInv, AppetiteInv, Alert, MoleRecord, MoleTypeOK,
       CarriesWithinCapacity, WorkKeepsItsDepth

(* It holds of a new mole. *)
LEMMA MoleInitGivesInv == MoleInit => MoleInv
<1> SUFFICES ASSUME MoleInit PROVE MoleInv
  OBVIOUS
<1> USE MoleAssumption
<1>1. BodyInv
  <2> DEFINE yes == TRUE
  <2>1. mole = [state |-> "Idle", x |-> 0, depth |-> 0, targetX |-> None,
                targetDepth |-> None, alive |-> yes] /\ timer = 0 /\ wire = None
    BY DEF MoleInit
  <2>2. yes \in BOOLEAN /\ "Idle" \in MoleState /\ 0 \in 0..DiveDepth
    BY DEF MoleState
  <2> HIDE DEF yes
  <2> QED BY <2>1, <2>2 DEF BodyInv, Alert, MoleRecord, Working, Fatal
<1>2. LoadInv
  BY EmptySeq DEF MoleInit, LoadInv, CarryCapacity
<1>3. AppetiteInv
  <2> DEFINE no == FALSE
  <2>1. appetite = [hunger |-> 0, fight |-> 0, resisting |-> no]
    BY DEF MoleInit
  <2>2. no \in BOOLEAN /\ ~no /\ 0 \in 0..Starved /\ 0 \in 0..(FightInterval + FightDuration)
    OBVIOUS
  <2> HIDE DEF no
  <2> QED BY <2>1, <2>2 DEF AppetiteInv, ResistanceIsAnEpisode
<1> QED BY <1>1, <1>2, <1>3 DEF MoleInv

(* An order sets the state, and with it what the state needs. *)
LEMMA OrderKeepsInv ==
  ASSUME MoleInv, mole.alive, NEW x \in Ground, NEW u \in BOOLEAN, OrderMoveTo(x, u)
  PROVE  MoleInv'
<1> USE MoleAssumption
<1> DEFINE st == IF u THEN "MovingUnderground" ELSE "MovingAboveGround"
           td == CASE u /\ mole.depth < DiveTrigger -> DiveDepth
                   [] ~u /\ mole.depth > 0 -> 0
                   [] OTHER -> mole.targetDepth
<1>1. /\ mole' = [mole EXCEPT !.targetX = x, !.state = st, !.targetDepth = td]
      /\ UNCHANGED <<timer, wire, equipped, carried, appetite>>
  BY DEF OrderMoveTo
<1>2. st \in {"MovingUnderground", "MovingAboveGround"} /\ td \in {None, 0, DiveDepth}
  BY DEF MoleInv, BodyInv, Alert, MoleRecord
<1> HIDE DEF st, td
<1>3. BodyInv'
  BY <1>1, <1>2 DEF MoleInv, BodyInv, Alert, MoleRecord, MoleState, Moving, Working, Fatal
<1> QED BY <1>1, <1>3 DEF MoleInv, LoadInv, AppetiteInv, ResistanceIsAnEpisode, CarryCapacity

(* Work is ordered where there is the depth for it. *)
LEMMA WorkOrderKeepsInv ==
  ASSUME MoleInv, NEW work \in Working, OrderWork(work)
  PROVE  MoleInv'
<1>3. WorkTicks \in Nat /\ WorkTicks > 0
  BY MoleAssumption
<1>1. /\ mole.depth > DigDepth /\ mole' = [mole EXCEPT !.state = work] /\ timer' = WorkTicks
      /\ UNCHANGED <<wire, equipped, carried, appetite>>
  BY DEF OrderWork
<1>2. BodyInv'
  BY <1>1, <1>3 DEF MoleInv, BodyInv, Alert, MoleRecord, MoleState, Moving, Working, Fatal
<1> QED BY <1>1, <1>2 DEF MoleInv, LoadInv, AppetiteInv, ResistanceIsAnEpisode, CarryCapacity

(* A loose wire distracts for some ticks. *)
LEMMA DistractKeepsInv ==
  ASSUME MoleInv, NEW x \in Ground, DistractByWire(x)
  PROVE  MoleInv'
<1>3. DistractTicks \in Nat /\ DistractTicks > 0
  BY MoleAssumption
<1>1. /\ mole' = [mole EXCEPT !.state = "Distracted"] /\ timer' = DistractTicks /\ wire' = x
      /\ UNCHANGED <<equipped, carried, appetite>>
  BY DEF DistractByWire
<1>2. BodyInv'
  BY <1>1, <1>3 DEF MoleInv, BodyInv, Alert, MoleRecord, MoleState, Moving, Working, Fatal
<1> QED BY <1>1, <1>2 DEF MoleInv, LoadInv, AppetiteInv, ResistanceIsAnEpisode, CarryCapacity

(* The glider is launched on the ground. *)
LEMMA LaunchKeepsInv ==
  ASSUME MoleInv, LaunchGlider
  PROVE  MoleInv'
<1>3. GlideTicks \in Nat /\ GlideTicks > 0
  BY MoleAssumption
<1>1. /\ mole.depth = 0 /\ mole' = [mole EXCEPT !.state = "Gliding"] /\ timer' = GlideTicks
      /\ UNCHANGED <<wire, equipped, carried, appetite>>
  BY DEF LaunchGlider
<1>2. BodyInv'
  BY <1>1, <1>3 DEF MoleInv, BodyInv, Alert, MoleRecord, MoleState, Moving, Working, Fatal
<1> QED BY <1>1, <1>2 DEF MoleInv, LoadInv, AppetiteInv, ResistanceIsAnEpisode, CarryCapacity

(* A delivery only sets where to. *)
LEMMA DeliverKeepsInv ==
  ASSUME MoleInv, NEW x \in Ground, OrderDeliver(x)
  PROVE  MoleInv'
<1> USE MoleAssumption
<1>1. /\ mole' = [mole EXCEPT !.targetX = x] /\ UNCHANGED <<timer, wire, equipped, carried, appetite>>
  BY DEF OrderDeliver
<1>2. BodyInv'
  BY <1>1 DEF MoleInv, BodyInv, Alert, MoleRecord, MoleState, Moving, Working, Fatal
<1> QED BY <1>1, <1>2 DEF MoleInv, LoadInv, AppetiteInv, ResistanceIsAnEpisode, CarryCapacity

(* Death leaves nothing to do. *)
LEMMA DieKeepsInv ==
  ASSUME MoleInv, NEW fate \in Fatal, Die(fate)
  PROVE  MoleInv'
<1> USE MoleAssumption
<1> DEFINE no == FALSE
<1>1. /\ mole' = [mole EXCEPT !.state = fate, !.alive = no]
      /\ UNCHANGED <<timer, wire, equipped, carried, appetite>>
  BY DEF Die
<1>2. no \in BOOLEAN /\ ~no
  OBVIOUS
<1> HIDE DEF no
<1>3. BodyInv'
  BY <1>1, <1>2 DEF MoleInv, BodyInv, Alert, MoleRecord, MoleState, Moving, Working, Fatal
<1> QED BY <1>1, <1>3 DEF MoleInv, LoadInv, AppetiteInv, ResistanceIsAnEpisode, CarryCapacity

(* What is given fits. *)
LEMMA GiveKeepsInv ==
  ASSUME MoleInv, NEW i \in Items, GiveItem(i)
  PROVE  MoleInv'
<1> USE MoleAssumption
<1>1. /\ Len(carried) < CarryCapacity /\ carried' = Append(carried, i)
      /\ mole' = [mole EXCEPT !.state = "CarryingItem"]
      /\ UNCHANGED <<timer, wire, equipped, appetite>>
  BY DEF GiveItem
<1>2. BodyInv'
  BY <1>1 DEF MoleInv, BodyInv, Alert, MoleRecord, MoleState, Moving, Working, Fatal
<1>3. LoadInv'
  <2>1. CarryCapacity \in Nat /\ CarryCapacity' = CarryCapacity
    BY <1>1 DEF CarryCapacity
  <2>2. carried \in Seq(Items) /\ equipped \in Equipment \cup {None}
    BY DEF MoleInv, LoadInv
  <2>3. carried' \in Seq(Items) /\ Len(carried') = Len(carried) + 1
    BY <1>1, <2>2, AppendProperties
  <2> HIDE MoleAssumption
  <2> QED BY <1>1, <2>1, <2>2, <2>3 DEF LoadInv
<1> QED BY <1>1, <1>2, <1>3 DEF MoleInv, AppetiteInv, ResistanceIsAnEpisode

(* Dropping leaves less. *)
LEMMA DropKeepsInv ==
  ASSUME MoleInv, NEW i, DropItem(i)
  PROVE  MoleInv' /\ Len(carried') <= Len(carried)
<1>1. /\ carried' = RemoveFirst(carried, i)
      /\ mole' \in {[mole EXCEPT !.state = "Idle"], mole}
      /\ UNCHANGED <<timer, wire, equipped, appetite>>
  BY DEF DropItem
<1>2. BodyInv'
  BY <1>1 DEF MoleInv, BodyInv, Alert, MoleRecord, MoleState, Moving, Working, Fatal
<1>3. carried' \in Seq(Items) /\ Len(carried') <= Len(carried)
  BY <1>1, RemoveFirstShortens DEF MoleInv, LoadInv
<1>4. LoadInv'
  <2>1. CarryCapacity' = CarryCapacity /\ CarryCapacity \in Nat
    BY <1>1, MoleAssumption DEF CarryCapacity
  <2>2. Len(carried) <= CarryCapacity /\ Len(carried) \in Nat /\ Len(carried') \in Nat
    BY <1>3, LenProperties DEF MoleInv, LoadInv
  <2> QED BY <1>1, <1>3, <2>1, <2>2 DEF MoleInv, LoadInv
<1> QED BY <1>1, <1>2, <1>3, <1>4 DEF MoleInv, AppetiteInv, ResistanceIsAnEpisode

(* Taking the rucksack off sheds what bare paws do not hold. *)
LEMMA EquipKeepsInv ==
  ASSUME MoleInv, NEW next \in Equipment \cup {None}, Equip(next)
  PROVE  MoleInv' /\ Len(carried') <= Len(carried)
<1>0. /\ BaseCapacity \in Nat /\ RucksackCapacity \in Nat /\ BaseCapacity <= RucksackCapacity
      /\ carried \in Seq(Items) /\ Len(carried) \in Nat
  BY MoleAssumption, LenProperties DEF MoleInv, LoadInv
<1>1. carried' = Shed(next) /\ equipped' = next /\ UNCHANGED <<mole, timer, wire, appetite>>
  BY DEF Equip
<1>2. BodyInv'
  BY <1>1 DEF MoleInv, BodyInv
<1>3. CASE equipped = "Rucksack" /\ next # "Rucksack" /\ Len(carried) > BaseCapacity
  <2>1. carried' = SubSeq(carried, 1, BaseCapacity)
    BY <1>1, <1>3 DEF Shed
  <2>2. carried' \in Seq(Items) /\ Len(carried') = BaseCapacity
    <3>1. \A k \in 1..BaseCapacity : carried[k] \in Items
      BY <1>0, <1>3, ElementOfSeq
    <3>2. SubSeq(carried, 1, BaseCapacity) \in Seq(Items)
          /\ Len(SubSeq(carried, 1, BaseCapacity)) = IF 1 <= BaseCapacity THEN BaseCapacity - 1 + 1 ELSE 0
      BY <1>0, <3>1, SubSeqProperties
    <3> QED BY <1>0, <2>1, <3>2
  <2>3. CarryCapacity' = BaseCapacity
    BY <1>1, <1>3 DEF CarryCapacity
  <2>4. LoadInv'
    BY <1>0, <1>1, <2>2, <2>3 DEF LoadInv
  <2> QED BY <1>0, <1>1, <1>2, <1>3, <2>2, <2>4 DEF MoleInv, AppetiteInv, ResistanceIsAnEpisode
<1>4. CASE ~(equipped = "Rucksack" /\ next # "Rucksack" /\ Len(carried) > BaseCapacity)
  <2>1. carried' = carried
    BY <1>1, <1>4 DEF Shed
  <2>2. Len(carried) <= (IF next = "Rucksack" THEN RucksackCapacity ELSE BaseCapacity)
    BY <1>0, <1>4 DEF MoleInv, LoadInv, CarryCapacity
  <2>3. LoadInv'
    BY <1>0, <1>1, <2>1, <2>2 DEF LoadInv, CarryCapacity
  <2>4. Len(carried') <= Len(carried)
    BY <1>0, <2>1
  <2> QED BY <1>1, <1>2, <2>1, <2>3, <2>4 DEF MoleInv, AppetiteInv, ResistanceIsAnEpisode
<1> QED BY <1>3, <1>4

(* A meal ends an episode. *)
LEMMA FeedKeepsInv ==
  ASSUME MoleInv, Feed
  PROVE  MoleInv'
<1> USE MoleAssumption
<1> DEFINE no == FALSE
<1>1. appetite' = [hunger |-> 0, fight |-> 0, resisting |-> no]
      /\ UNCHANGED <<mole, timer, wire, equipped, carried>>
  BY DEF Feed
<1>2. no \in BOOLEAN /\ ~no /\ 0 \in 0..Starved /\ 0 \in 0..(FightInterval + FightDuration)
  OBVIOUS
<1> HIDE DEF no
<1>3. AppetiteInv'
  BY <1>1, <1>2 DEF AppetiteInv, ResistanceIsAnEpisode
<1> QED BY <1>1, <1>3 DEF MoleInv, BodyInv, LoadInv, CarryCapacity

(* A step of depth: it stays between the ground and the dive. *)
LEMMA DepthStepKeeps ==
  ASSUME NEW m \in MoleRecord
  PROVE  /\ DepthStep(m) \in MoleRecord
         /\ DepthStep(m).state = m.state /\ DepthStep(m).alive = m.alive
<1> USE MoleAssumption
<1>4. m.targetDepth = None => m.targetDepth # m.depth
  BY DEF MoleRecord
<1>1. CASE m.targetDepth = None
  <2>1. DepthStep(m) = m
    BY <1>1, <1>4, Zenon DEF DepthStep
  <2> QED BY <2>1
<1>2. CASE m.targetDepth # None /\ m.targetDepth = m.depth
  <2>1. DepthStep(m) = [m EXCEPT !.targetDepth = None]
    BY <1>2 DEF DepthStep
  <2> QED BY <2>1 DEF MoleRecord
<1>3. CASE m.targetDepth # None /\ m.targetDepth # m.depth
  <2> DEFINE d == Toward(m.depth, m.targetDepth)
  <2>1. DepthStep(m) = [m EXCEPT !.depth = d]
    BY <1>3 DEF DepthStep
  <2>2. m.depth \in 0..DiveDepth /\ m.targetDepth \in {0, DiveDepth} /\ DiveDepth \in Nat
    BY <1>3 DEF MoleRecord
  <2>3. d \in 0..DiveDepth
    <3> HIDE MoleAssumption
    <3> QED BY <1>3, <2>2 DEF Toward
  <2> HIDE DEF d
  <2> QED BY <2>1, <2>3 DEF MoleRecord
<1> QED BY <1>1, <1>2, <1>3

(* A mole on the way is in the state it was, or at rest; what it carries gets *)
(* less.                                                                    *)
LEMMA MoveKeeps ==
  ASSUME MoleInv, mole.alive, mole.state \in Moving, NEW drift \in {-1, 0, 1}, UpdateMovement(drift)
  PROVE  /\ BodyInv'
         /\ carried' \in Seq(Items) /\ Len(carried') <= Len(carried)
<1> DEFINE x == Within(mole.x + drift)
           s == DepthStep(mole)
           m == [s EXCEPT !.x = x]
<1>1. mole \in MoleRecord /\ mole.x \in Ground /\ mole.x \in Int /\ carried \in Seq(Items)
  BY MoleAssumption DEF MoleInv, BodyInv, Alert, MoleRecord, LoadInv
<1>2. s \in MoleRecord /\ s.state = mole.state /\ s.alive = mole.alive
  BY <1>1, DepthStepKeeps
<1>3. s.x = mole.x
  <2>1. \A v : [mole EXCEPT !.targetDepth = v].x = mole.x /\ [mole EXCEPT !.depth = v].x = mole.x
    BY <1>1 DEF MoleRecord
  <2>2. \/ s = mole \/ s = [mole EXCEPT !.targetDepth = None]
        \/ s = [mole EXCEPT !.depth = Toward(mole.depth, mole.targetDepth)]
    <3>1. mole.targetDepth = None => mole.targetDepth # mole.depth
      BY <1>1, MoleAssumption DEF MoleRecord
    <3>2. CASE mole.targetDepth = None
      BY <3>1, <3>2, Zenon DEF DepthStep
    <3>3. CASE mole.targetDepth # None /\ mole.targetDepth = mole.depth
      BY <3>3, Zenon DEF DepthStep
    <3>4. CASE mole.targetDepth # None /\ mole.targetDepth # mole.depth
      BY <3>4, Zenon DEF DepthStep
    <3> QED BY <3>2, <3>3, <3>4
  <2> HIDE DEF s
  <2> QED BY <2>1, <2>2
<1>4. x \in Ground
  BY <1>1, WithinGround
<1>5. [DepthStep(mole) EXCEPT !.x = Within(@ + drift)] = m
  BY <1>3
<1> HIDE DEF x, s
<1>6. m \in MoleRecord /\ m.state = mole.state
  BY <1>2, <1>4 DEF MoleRecord
<1> HIDE DEF m
<1>7. UNCHANGED <<timer, wire>>
  BY DEF UpdateMovement
<1>8. ASSUME mole' \in MoleRecord, mole'.state \in Moving \cup {"Idle"}
      PROVE  BodyInv'
  BY <1>7, <1>8 DEF MoleInv, BodyInv, Alert, Moving, Working, Fatal
<1>9. CASE mole.targetX = None
  <2>1. mole' = m /\ UNCHANGED carried
    <3>1. mole.targetX # mole.x
      BY <1>1, <1>9, MoleAssumption
    <3> QED BY <1>5, <1>9, <3>1 DEF UpdateMovement
  <2> QED BY <1>1, <1>6, <1>8, <2>1
<1>10. CASE mole.targetX # None /\ mole.targetX = mole.x
  <2>1. Arrive(m)
    BY <1>5, <1>10 DEF UpdateMovement
  <2>2. mole' \in {[m EXCEPT !.targetX = None, !.state = "Idle"],
                   [m EXCEPT !.targetX = None, !.state = m.state]}
    BY <2>1 DEF Arrive
  <2>3. mole' \in MoleRecord /\ mole'.state \in Moving \cup {"Idle"}
    BY <1>6, <2>2 DEF MoleRecord, MoleState
  <2>4. carried' = carried \/ (carried # <<>> /\ carried' = Tail(carried))
    BY <2>1 DEF Arrive
  <2>5. carried' \in Seq(Items) /\ Len(carried') <= Len(carried)
    BY <1>1, <2>4, HeadTailProperties
  <2> QED BY <1>8, <2>3, <2>5
<1>11. CASE mole.targetX # None /\ mole.targetX # mole.x
  <2> DEFINE y == Within(Toward(mole.x, mole.targetX) + drift)
  <2>1. mole' = [m EXCEPT !.x = y] /\ UNCHANGED carried
    BY <1>5, <1>11 DEF UpdateMovement
  <2>2. mole.targetX \in Int
    BY <1>1, <1>11, MoleAssumption DEF MoleRecord
  <2>3. Toward(mole.x, mole.targetX) + drift \in Int
    BY <1>1, <2>2 DEF Toward
  <2>4. y \in Ground
    BY <2>3, WithinGround
  <2> HIDE DEF y
  <2>5. mole' \in MoleRecord /\ mole'.state \in Moving \cup {"Idle"}
    BY <1>6, <2>1, <2>4 DEF MoleRecord
  <2> QED BY <1>1, <1>8, <2>1, <2>5
<1> QED BY <1>9, <1>10, <1>11

(* A state that lasts goes on with one tick less, or ends in Idle. *)
LEMMA CountDownKeeps ==
  ASSUME MoleInv, mole.state \in Working \cup {"Distracted", "Gliding"},
         NEW m \in MoleRecord, m.state = mole.state, m.depth = mole.depth, CountDown(m)
  PROVE  /\ mole' \in MoleRecord /\ timer' \in Nat
         /\ \A w : (timer > 1 => w = wire) => Alert(mole', timer', w)
<1>1. timer \in Nat /\ timer > 0 /\ timer' = timer - 1
      /\ mole' = [m EXCEPT !.state = IF timer <= 1 THEN "Idle" ELSE m.state]
  BY DEF MoleInv, BodyInv, Alert, CountDown
<1>2. CASE timer <= 1
  <2>1. mole' = [m EXCEPT !.state = "Idle"]
    BY <1>1, <1>2
  <2> QED BY <1>1, <2>1 DEF Alert, MoleRecord, MoleState, Working, Fatal
<1>3. CASE timer > 1
  <2>1. mole' = [m EXCEPT !.state = m.state]
    BY <1>1, <1>3
  <2>2. mole' = m
    BY <2>1 DEF MoleRecord
  <2> QED BY <1>1, <1>3, <2>2 DEF MoleInv, BodyInv, Alert, Working, Fatal
<1> QED BY <1>1, <1>2, <1>3

(* The mole where it stands or somewhere else on the ground. *)
LEMMA ShiftKeeps ==
  ASSUME NEW m \in MoleRecord, NEW x \in Ground
  PROVE  /\ [m EXCEPT !.x = x] \in MoleRecord
         /\ [m EXCEPT !.x = x].state = m.state /\ [m EXCEPT !.x = x].depth = m.depth
         /\ [m EXCEPT !.x = x].alive = m.alive
BY DEF MoleRecord

(* The state machine's part of a tick, whichever state it is in. *)
LEMMA StateKeeps ==
  ASSUME MoleInv, mole.alive, NEW drift \in {-1, 0, 1}, UpdateState(drift)
  PROVE  /\ BodyInv'
         /\ carried' \in Seq(Items) /\ Len(carried') <= Len(carried)
<1> DEFINE y == Within(mole.x + drift)
           still == [mole EXCEPT !.x = y]
<1>1. /\ mole \in MoleRecord /\ mole.x \in Int /\ carried \in Seq(Items)
      /\ timer \in Nat /\ wire \in Ground \cup {None}
  BY MoleAssumption DEF MoleInv, BodyInv, LoadInv, Alert, MoleRecord
<1>2. y \in Ground
  BY <1>1, WithinGround
<1>3. [mole EXCEPT !.x = Within(@ + drift)] = still
  OBVIOUS
<1>4. still \in MoleRecord /\ still.state = mole.state /\ still.depth = mole.depth
      /\ still.alive = mole.alive
  <2> HIDE DEF y
  <2> QED BY <1>1, <1>2, ShiftKeeps
<1>5. mole.state \in {"Idle", "Distracted", "Gliding"} \cup Moving \cup Working
  BY DEF MoleInv, BodyInv, Alert, MoleRecord, MoleState
<1> HIDE DEF still, y
<1>6. Len(carried) <= Len(carried)
  BY <1>1
<1>7. CASE mole.state = "Idle"
  <2>1. mole' = still /\ UNCHANGED <<timer, wire, carried>>
    BY <1>3, <1>7 DEF UpdateState, Moving
  <2>2. BodyInv'
    BY <1>1, <1>4, <1>7, <2>1 DEF BodyInv, Alert, Working, Fatal
  <2> QED BY <1>1, <1>6, <2>1, <2>2
<1>8. CASE mole.state \in Moving
  <2>1. UpdateMovement(drift)
    BY <1>8 DEF UpdateState, Moving
  <2> QED BY <1>8, <2>1, MoveKeeps
<1>9. CASE mole.state \in Working
  <2>1. CountDown(still) /\ UNCHANGED <<wire, carried>>
    BY <1>3, <1>9 DEF UpdateState, Moving, Working
  <2>2. timer' \in Nat /\ Alert(mole', timer', wire')
    BY <1>4, <1>9, <2>1, CountDownKeeps
  <2> QED BY <1>1, <1>6, <2>1, <2>2 DEF BodyInv
<1>10. CASE mole.state = "Distracted"
  <2> DEFINE z == Within((IF wire > mole.x THEN mole.x + 1 ELSE mole.x - 1) + drift)
             m == [mole EXCEPT !.x = z]
  <2>1. CountDown(m) /\ wire' = (IF timer <= 1 THEN None ELSE wire) /\ UNCHANGED carried
    BY <1>10 DEF UpdateState, Moving, Working
  <2>2. z \in Ground
    BY <1>1, WithinGround
  <2> HIDE DEF z
  <2>3. m \in MoleRecord /\ m.state = mole.state /\ m.depth = mole.depth
    BY <1>1, <2>2, ShiftKeeps
  <2> HIDE DEF m
  <2>4. timer > 1 => wire' = wire
    BY <1>1, <2>1
  <2>5. timer' \in Nat /\ Alert(mole', timer', wire')
    BY <1>10, <2>1, <2>3, <2>4, CountDownKeeps
  <2>6. wire' \in Ground \cup {None}
    BY <1>1, <2>1
  <2> QED BY <1>1, <1>6, <2>1, <2>5, <2>6 DEF BodyInv
<1>11. CASE mole.state = "Gliding"
  <2>1. PICK way \in {-1, 1} : CountDown([mole EXCEPT !.x = Within(@ + way + drift)])
    BY <1>11 DEF UpdateState, Moving, Working
  <2>2. UNCHANGED <<wire, carried>>
    BY <1>11 DEF UpdateState, Moving, Working
  <2> DEFINE z == Within(mole.x + way + drift)
             m == [mole EXCEPT !.x = z]
  <2>3. z \in Ground
    BY <1>1, WithinGround
  <2>4. CountDown(m)
    BY <2>1
  <2> HIDE DEF z
  <2>5. m \in MoleRecord /\ m.state = mole.state /\ m.depth = mole.depth
    BY <1>1, <2>3, ShiftKeeps
  <2> HIDE DEF m
  <2>6. timer' \in Nat /\ Alert(mole', timer', wire')
    BY <1>11, <2>2, <2>4, <2>5, CountDownKeeps
  <2> QED BY <1>1, <1>6, <2>2, <2>6 DEF BodyInv
<1> QED BY <1>5, <1>7, <1>8, <1>9, <1>10, <1>11

(* A tick, with its hunger: resistance comes in episodes. *)
LEMMA MoleTickKeepsInv ==
  ASSUME MoleInv, MoleTick
  PROVE  MoleInv'
<1>1. mole.alive /\ UNCHANGED equipped
  BY DEF MoleTick
<1>2. PICK h \in {appetite.hunger, appetite.hunger + 1} \cap 0..Starved :
        /\ appetite' = AppetiteAt(h)
        /\ \E drift \in IF h > Hungry THEN {-1, 0, 1} ELSE {0} : UpdateState(drift)
  BY DEF MoleTick
<1>3. PICK drift \in {-1, 0, 1} : UpdateState(drift)
  BY <1>2
<1>4. BodyInv' /\ carried' \in Seq(Items) /\ Len(carried') <= Len(carried)
  BY <1>1, <1>3, StateKeeps
<1>5. LoadInv'
  <2>1. CarryCapacity \in Nat /\ CarryCapacity' = CarryCapacity
    BY <1>1, MoleAssumption DEF CarryCapacity
  <2>2. carried \in Seq(Items) /\ Len(carried) <= CarryCapacity /\ equipped \in Equipment \cup {None}
    BY DEF MoleInv, LoadInv
  <2>3. Len(carried') \in Nat /\ Len(carried) \in Nat
    BY <1>4, <2>2, LenProperties
  <2> QED BY <1>1, <1>4, <2>1, <2>2, <2>3 DEF LoadInv
<1>6. AppetiteInv'
  <2> DEFINE f == appetite.fight + 1
             top == FightInterval + FightDuration
             no == FALSE
  <2>1. /\ appetite.fight \in 0..top /\ FightInterval \in Nat /\ FightDuration \in Nat
        /\ top \in Nat /\ f \in Nat /\ Hungry \in Nat
    <3>1. FightInterval \in Nat /\ FightDuration \in Nat /\ Hungry \in Nat
      BY MoleAssumption
    <3>2. appetite.fight \in 0..top
      BY DEF MoleInv, AppetiteInv
    <3> QED BY <3>1, <3>2
  <2> HIDE DEF f
  <2>2. no \in BOOLEAN /\ ~no
    OBVIOUS
  <2> HIDE DEF no
  <2>3. FightAfter(f) \in [fight : 0..top, resisting : BOOLEAN]
        /\ (FightAfter(f).resisting => FightAfter(f).fight \in (FightInterval + 1)..top)
    <3>1. CASE f > top
      <4>1. FightAfter(f) = [fight |-> 0, resisting |-> no]
        BY <3>1 DEF FightAfter, no
      <4> QED BY <2>1, <2>2, <4>1
    <3>2. CASE ~(f > top)
      <4> DEFINE r == f > FightInterval
      <4>1. FightAfter(f) = [fight |-> f, resisting |-> r]
        BY <3>2 DEF FightAfter
      <4>2. r \in BOOLEAN /\ f \in 0..top /\ (r => f \in (FightInterval + 1)..top)
        BY <2>1, <3>2
      <4> HIDE DEF r
      <4> QED BY <4>1, <4>2
    <3> QED BY <3>1, <3>2
  <2> DEFINE a == FightAfter(f)
  <2>4. CASE h > Hungry
    <3>1. appetite' = [hunger |-> h, fight |-> a.fight, resisting |-> a.resisting]
      BY <1>2, <2>4 DEF AppetiteAt, f
    <3>2. a.fight \in 0..top /\ a.resisting \in BOOLEAN
          /\ (a.resisting => a.fight \in (FightInterval + 1)..top)
      BY <2>3
    <3> HIDE DEF a
    <3> QED BY <2>4, <3>1, <3>2 DEF AppetiteInv, ResistanceIsAnEpisode
  <2>5. CASE ~(h > Hungry)
    <3>1. appetite' = [hunger |-> h, fight |-> appetite.fight, resisting |-> no]
      BY <1>2, <2>5 DEF AppetiteAt, no
    <3> QED BY <2>1, <2>2, <3>1 DEF AppetiteInv, ResistanceIsAnEpisode
  <2> QED BY <2>4, <2>5
<1> QED BY <1>4, <1>5, <1>6 DEF MoleInv

(* What a step may do to a dead mole. *)
Still ==
  ~mole.alive =>
    /\ ~mole'.alive /\ mole'.x = mole.x /\ mole'.depth = mole.depth
    /\ mole'.state \in {mole.state, "Idle"}
    /\ Len(carried') <= Len(carried)

(* Any step, of the living and the dead. *)
LEMMA MoleStep ==
  ASSUME MoleInv, [MoleNext]_moleVars
  PROVE  MoleInv' /\ Still
<1>1. mole \in MoleRecord /\ carried \in Seq(Items)
  BY DEF MoleInv, BodyInv, LoadInv, Alert
<1>2. Len(carried) <= Len(carried)
  BY <1>1
<1>3. ASSUME mole.alive PROVE Still
  BY <1>3 DEF Still
<1>4. ASSUME mole' = mole, Len(carried') <= Len(carried) PROVE Still
  BY <1>4 DEF Still
<1>5. ASSUME NEW x \in Ground, NEW u \in BOOLEAN, OrderMoveTo(x, u) PROVE MoleInv' /\ Still
  BY <1>3, <1>5, OrderKeepsInv DEF OrderMoveTo
<1>6. ASSUME NEW x \in Ground, OrderDeliver(x) PROVE MoleInv' /\ Still
  BY <1>3, <1>6, DeliverKeepsInv DEF OrderDeliver
<1>7. ASSUME NEW x \in Ground, DistractByWire(x) PROVE MoleInv' /\ Still
  BY <1>3, <1>7, DistractKeepsInv DEF DistractByWire
<1>8. ASSUME NEW w \in Working, OrderWork(w) PROVE MoleInv' /\ Still
  BY <1>3, <1>8, WorkOrderKeepsInv DEF OrderWork
<1>9. ASSUME NEW i \in Items, GiveItem(i) PROVE MoleInv' /\ Still
  BY <1>3, <1>9, GiveKeepsInv DEF GiveItem
<1>10. ASSUME NEW i \in Items, DropItem(i) PROVE MoleInv' /\ Still
  <2>1. mole' = mole \/ mole' = [mole EXCEPT !.state = "Idle"]
    BY <1>10 DEF DropItem
  <2>2. MoleInv' /\ Len(carried') <= Len(carried)
    BY <1>10, DropKeepsInv
  <2> QED BY <1>1, <2>1, <2>2 DEF Still, MoleRecord
<1>11. ASSUME NEW e \in Equipment \cup {None}, Equip(e) PROVE MoleInv' /\ Still
  BY <1>4, <1>11, EquipKeepsInv DEF Equip
<1>12. CASE LaunchGlider
  BY <1>3, <1>12, LaunchKeepsInv DEF LaunchGlider
<1>13. ASSUME NEW f \in Fatal, Die(f) PROVE MoleInv' /\ Still
  BY <1>3, <1>13, DieKeepsInv DEF Die
<1>14. CASE Feed
  BY <1>2, <1>4, <1>14, FeedKeepsInv DEF Feed
<1>15. CASE MoleTick
  BY <1>3, <1>15, MoleTickKeepsInv DEF MoleTick
<1>16. CASE UNCHANGED moleVars
  BY <1>2, <1>4, <1>16 DEF moleVars, MoleInv, BodyInv, LoadInv, AppetiteInv, ResistanceIsAnEpisode,
                          CarryCapacity
<1> QED
  BY <1>5, <1>6, <1>7, <1>8, <1>9, <1>10, <1>11, <1>12, <1>13, <1>14, <1>15, <1>16
  DEF MoleNext, Apply, DeadTick

(* However orders, items, hunger and death come: the mole carries what its    *)
(* equipment holds, works where it may, has its head back after an episode,  *)
(* and stays dead.                                                          *)
THEOREM MoleSound == MoleSpec => MoleIsSound
<1>1. MoleInit => MoleInv
  BY MoleInitGivesInv
<1>2. MoleInv /\ [MoleNext]_moleVars => MoleInv'
  BY MoleStep
<1>3. MoleInv => MoleTypeOK /\ CarriesWithinCapacity /\ WorkKeepsItsDepth /\ ResistanceIsAnEpisode
  BY MoleInvGivesSound
<1>4. MoleInv /\ [MoleNext]_moleVars => [Still]_moleVars
  BY MoleStep
<1> QED BY <1>1, <1>2, <1>3, <1>4, PTL DEF MoleSpec, MoleIsSound, DeadIsStill, Still

-------------------------------------------------------------------------------
(* The building: lists that grow at their end. *)

(* Appending to a list adds its value to the values of the list. *)
LEMMA AppendFacts ==
  ASSUME NEW S, NEW s \in Seq(S), NEW x \in S
  PROVE  /\ Append(s, x) \in Seq(S) /\ Len(Append(s, x)) = Len(s) + 1
         /\ \A i \in 1..Len(s) : Append(s, x)[i] = s[i]
         /\ Append(s, x)[Len(s) + 1] = x
         /\ ToSet(Append(s, x)) = ToSet(s) \cup {x}
<1>1. /\ Append(s, x) \in Seq(S) /\ Len(Append(s, x)) = Len(s) + 1
      /\ \A i \in 1..Len(s) : Append(s, x)[i] = s[i]
      /\ Append(s, x)[Len(s) + 1] = x
      /\ DOMAIN s = 1..Len(s) /\ DOMAIN Append(s, x) = 1..(Len(s) + 1)
      /\ Len(s) \in Nat
  OBVIOUS
<1>2. \A i \in 1..(Len(s) + 1) : i \in 1..Len(s) \/ i = Len(s) + 1
  BY <1>1
<1>3. \A i \in 1..Len(s) : i \in 1..(Len(s) + 1)
  BY <1>1
<1>4. Len(s) + 1 \in 1..(Len(s) + 1)
  BY <1>1
<1>5. ToSet(Append(s, x)) \subseteq ToSet(s) \cup {x}
  BY <1>1, <1>2 DEF ToSet
<1>6. ToSet(s) \cup {x} \subseteq ToSet(Append(s, x))
  BY <1>1, <1>3, <1>4 DEF ToSet
<1> QED BY <1>1, <1>5, <1>6

(* The library's IsInjective, spelt out. *)
LEMMA InjectiveMeans ==
  ASSUME NEW f
  PROVE  IsInjective(f) <=> \A i, j \in DOMAIN f : f[i] = f[j] => i = j
BY DEF IsInjective

(* A list without repetitions has none when a new value is appended. *)
LEMMA AppendDistinct ==
  ASSUME NEW S, NEW s \in Seq(S), NEW x \in S, x \notin ToSet(s),
         \A i, j \in DOMAIN s : s[i] = s[j] => i = j
  PROVE  \A i, j \in DOMAIN Append(s, x) : Append(s, x)[i] = Append(s, x)[j] => i = j
<1>1. DOMAIN s = 1..Len(s) /\ DOMAIN Append(s, x) = 1..(Len(s) + 1)
  OBVIOUS
<1> QED BY <1>1 DEF ToSet

(* append_new: a value enters a list of distinct values once. *)
LEMMA AppendNewFacts ==
  ASSUME NEW S, NEW s \in Seq(S), NEW x \in S, IsInjective(s)
  PROVE  /\ AppendNew(s, x) \in Seq(S) /\ IsInjective(AppendNew(s, x))
         /\ ToSet(AppendNew(s, x)) = ToSet(s) \cup {x}
         /\ \A i \in 1..Len(s) : i \in 1..Len(AppendNew(s, x)) /\ AppendNew(s, x)[i] = s[i]
         /\ \A i \in 1..Len(AppendNew(s, x)) :
              i \in 1..Len(s) \/ (i = Len(s) + 1 /\ AppendNew(s, x)[i] = x)
<1>1. Len(s) \in Nat
  OBVIOUS
<1>2. CASE x \in ToSet(s)
  BY <1>1, <1>2 DEF AppendNew
<1>3. CASE x \notin ToSet(s)
  <2>1. AppendNew(s, x) = Append(s, x)
    BY <1>3 DEF AppendNew
  <2>2. IsInjective(AppendNew(s, x))
    BY <1>3, <2>1, AppendDistinct, InjectiveMeans
  <2> QED BY <1>1, <2>1, <2>2, AppendFacts
<1> QED BY <1>2, <1>3

(* A portal is found by its id, since a building's portal ids are distinct. *)
LEMMA NamedPortal ==
  ASSUME NEW b, PortalsPass(b), NEW p \in ToSet(b.portals)
  PROVE  Named(b.portals, p.id) = p /\ p.id \in Ids(b.portals) /\ Ends(p) \subseteq Rooms(b)
<1>1. PICK i \in DOMAIN b.portals : b.portals[i] = p
  BY DEF ToSet
<1>2. \A j, k \in DOMAIN b.portals : b.portals[j].id = b.portals[k].id => j = k
  BY DEF PortalsPass, Distinct, Of, IsInjective
<1>3. (CHOOSE j \in DOMAIN b.portals : b.portals[j].id = p.id) = i
  BY <1>1, <1>2
<1>4. p.id \in Ids(b.portals)
  BY <1>1 DEF Ids, Of, ToSet
<1>5. Ends(p) \subseteq Rooms(b)
  BY <1>1 DEF PortalsPass
<1> QED BY <1>1, <1>3, <1>4, <1>5 DEF Named

-------------------------------------------------------------------------------
(* The invariant: the lists are lists, of a building that was accepted. *)

Listed ==
  /\ Loads(def)
  /\ visited \in Seq(Rooms(def)) /\ visited # <<>>
  /\ used \in Seq(Ids(def.portals)) /\ cuts \in Seq(Ids(def.circuits))

BuildingInv == Listed /\ BuildingIsSound

(* A fresh run over an accepted building has told nothing but its entry. *)
LEMMA InitInv == BuildingInit => BuildingInv
<1> SUFFICES ASSUME BuildingInit PROVE BuildingInv
  OBVIOUS
<1>1. /\ def \in Buildings /\ Loads(def) /\ at = def.entry /\ visited = <<def.entry>>
      /\ used = <<>> /\ cuts = <<>> /\ powered = Ids(def.circuits) /\ locked = Ids(Locks(def))
  BY DEF BuildingInit
<1>2. def.entry \in Rooms(def)
  BY <1>1 DEF Loads, GraphPasses
<1>3. ToSet(visited) = {def.entry} /\ ToSet(used) = {} /\ ToSet(cuts) = {}
  BY <1>1 DEF ToSet
<1>4. IsInjective(visited) /\ IsInjective(used) /\ IsInjective(cuts)
  BY <1>1 DEF IsInjective
<1>5. Listed
  BY <1>1, <1>2 DEF Listed
<1>6. BuildingTypeOK
  BY <1>1, <1>2, <1>3 DEF BuildingTypeOK
<1>7. DebriefIsAWalk
  BY <1>1, <1>3, <1>4 DEF DebriefIsAWalk
<1>8. CutsAreCounted
  BY <1>1, <1>3, <1>4 DEF CutsAreCounted
<1> QED BY <1>5, <1>6, <1>7, <1>8 DEF BuildingInv, BuildingIsSound

(* A step through a portal lengthens the walk by it. *)
LEMMA TraverseInv ==
  ASSUME BuildingInv, NEW p \in ToSet(def.portals), Traverse(p)
  PROVE  BuildingInv'
<1> DEFINE b == def
           v == AppendNew(visited, at')
           u == AppendNew(used, p.id)
<1>1. /\ at \in Ends(p) /\ at' \in Ends(p) /\ at' # at /\ p.id \notin locked
      /\ visited' = v /\ used' = u
      /\ UNCHANGED <<def, powered, locked, cuts>>
  BY DEF Traverse
<1>2. Listed /\ BuildingTypeOK /\ DebriefIsAWalk /\ CutsAreCounted
  BY DEF BuildingInv, BuildingIsSound
<1>3. PortalsPass(def)
  BY <1>2 DEF Listed, Loads
<1>4. Named(def.portals, p.id) = p /\ p.id \in Ids(def.portals) /\ Ends(p) \subseteq Rooms(def)
  BY <1>3, NamedPortal
<1>5. /\ v \in Seq(Rooms(def)) /\ IsInjective(v) /\ ToSet(v) = ToSet(visited) \cup {at'}
      /\ \A i \in 1..Len(visited) : i \in 1..Len(v) /\ v[i] = visited[i]
      /\ \A i \in 1..Len(v) : i \in 1..Len(visited) \/ (i = Len(visited) + 1 /\ v[i] = at')
  <2> DEFINE S == Rooms(def)
             x == at'
             w == visited
  <2>1. w \in Seq(S) /\ x \in S /\ IsInjective(w)
    BY <1>1, <1>2, <1>4 DEF Listed, DebriefIsAWalk
  <2> HIDE DEF S, x, w
  <2>2. /\ AppendNew(w, x) \in Seq(S) /\ IsInjective(AppendNew(w, x))
        /\ ToSet(AppendNew(w, x)) = ToSet(w) \cup {x}
        /\ \A i \in 1..Len(w) : i \in 1..Len(AppendNew(w, x)) /\ AppendNew(w, x)[i] = w[i]
        /\ \A i \in 1..Len(AppendNew(w, x)) :
             i \in 1..Len(w) \/ (i = Len(w) + 1 /\ AppendNew(w, x)[i] = x)
    BY ONLY <2>1, AppendNewFacts
  <2> QED BY <2>2 DEF S, x, w
<1>6. u \in Seq(Ids(def.portals)) /\ IsInjective(u) /\ ToSet(u) = ToSet(used) \cup {p.id}
  <2>1. used \in Seq(Ids(def.portals)) /\ IsInjective(used)
    BY <1>2 DEF Listed, DebriefIsAWalk
  <2> QED BY <1>4, <2>1, AppendNewFacts
<1> HIDE DEF v, u
<1>7. Len(visited) \in Nat /\ Len(visited) # 0 /\ 1 \in 1..Len(visited)
  BY <1>2 DEF Listed
<1>8. Listed'
  <2>1. v # <<>>
    BY <1>5, <1>7
  <2> QED BY <1>1, <1>2, <1>5, <1>6, <2>1 DEF Listed
<1>9. BuildingTypeOK'
  BY <1>1, <1>2, <1>4, <1>5, <1>6 DEF BuildingTypeOK
<1>10. Ends(p) = {at', at}
  BY <1>1 DEF Ends
<1>11. DebriefIsAWalk'
  <2>1. v[1] = def.entry /\ at' \in ToSet(v)
    BY <1>2, <1>5, <1>7 DEF DebriefIsAWalk
  <2>2. ASSUME NEW i \in 2..Len(v)
        PROVE  \E j \in 1..(i - 1) : \E q \in ToSet(u) : Ends(Named(def.portals, q)) = {v[i], v[j]}
    <3>1. i \in 1..Len(v) /\ i \in Int /\ i >= 2
      BY <1>5
    <3>2. CASE i \in 1..Len(visited)
      <4>1. PICK j \in 1..(i - 1), q \in ToSet(used) :
               Ends(Named(def.portals, q)) = {visited[i], visited[j]}
        <5>1. i \in 2..Len(visited)
          BY <1>7, <3>1, <3>2
        <5> QED BY <1>2, <5>1, Zenon DEF DebriefIsAWalk
      <4>2. j \in 1..Len(visited)
        BY <1>7, <3>2, <4>1
      <4> QED BY <1>5, <1>6, <3>2, <4>1, <4>2
    <3>3. CASE i = Len(visited) + 1 /\ v[i] = at'
      <4>1. PICK j \in 1..Len(visited) : visited[j] = at
        BY <1>2 DEF DebriefIsAWalk, ToSet, Listed
      <4>2. j \in 1..(i - 1) /\ v[j] = at
        BY <1>5, <1>7, <3>3, <4>1
      <4> QED BY <1>4, <1>6, <1>10, <3>3, <4>2
    <3> QED BY <1>5, <3>1, <3>2, <3>3
  <2>3. ASSUME NEW q \in ToSet(u) PROVE Ends(Named(def.portals, q)) \subseteq ToSet(v)
    <3>1. CASE q \in ToSet(used)
      BY <1>2, <1>5, <3>1 DEF DebriefIsAWalk
    <3>2. CASE q = p.id
      <4>1. Ends(Named(def.portals, q)) = {at', at}
        BY <1>4, <1>10, <3>2
      <4>2. at \in ToSet(visited)
        BY <1>2 DEF DebriefIsAWalk
      <4> QED BY <1>5, <4>1, <4>2
    <3> QED BY <1>6, <3>1, <3>2
  <2> QED BY <1>1, <1>5, <1>6, <2>1, <2>2, <2>3, ZenonT(40) DEF DebriefIsAWalk
<1>12. CutsAreCounted'
  BY <1>1, <1>2, <1>6 DEF CutsAreCounted
<1> QED BY <1>8, <1>9, <1>11, <1>12 DEF BuildingInv, BuildingIsSound

(* A lock that opens frees portals and touches no list. *)
LEMMA DisengageInv ==
  ASSUME BuildingInv, NEW n, NEW p, Disengage(n, p)
  PROVE  BuildingInv'
<1>1. locked' \subseteq locked /\ UNCHANGED <<def, at, visited, used, powered, cuts>>
  BY DEF Disengage
<1> QED BY <1>1 DEF BuildingInv, BuildingIsSound, Listed, BuildingTypeOK, DebriefIsAWalk,
                    CutsAreCounted

(* A cut takes a powered circuit, so one that was not cut before. *)
LEMMA CutPowerInv ==
  ASSUME BuildingInv, NEW n, NEW c \in ToSet(def.circuits), CutPower(n, c)
  PROVE  BuildingInv'
<1>1. /\ c.id \in powered /\ powered' = powered \ {c.id} /\ cuts' = Append(cuts, c.id)
      /\ UNCHANGED <<def, at, visited, used, locked>>
  BY DEF CutPower
<1>2. Listed /\ BuildingTypeOK /\ DebriefIsAWalk /\ CutsAreCounted
  BY DEF BuildingInv, BuildingIsSound
<1>3. cuts \in Seq(Ids(def.circuits)) /\ c.id \in Ids(def.circuits) /\ c.id \notin ToSet(cuts)
  BY <1>1, <1>2 DEF Listed, BuildingTypeOK, CutsAreCounted
<1>4. cuts' \in Seq(Ids(def.circuits)) /\ ToSet(cuts') = ToSet(cuts) \cup {c.id}
  BY <1>1, <1>3, AppendFacts
<1>5. IsInjective(cuts')
  <2>1. \A i, j \in DOMAIN cuts : cuts[i] = cuts[j] => i = j
    BY <1>2, InjectiveMeans DEF CutsAreCounted
  <2>2. IsInjective(Append(cuts, c.id))
    BY <1>3, <2>1, AppendDistinct, InjectiveMeans
  <2> QED BY <1>1, <2>2
<1>6. CutsAreCounted'
  BY <1>1, <1>2, <1>3, <1>4, <1>5 DEF CutsAreCounted
<1>7. Listed' /\ BuildingTypeOK' /\ DebriefIsAWalk'
  BY <1>1, <1>2, <1>4 DEF Listed, BuildingTypeOK, DebriefIsAWalk
<1> QED BY <1>6, <1>7 DEF BuildingInv, BuildingIsSound

(* The invariant holds throughout. *)
THEOREM BuildingInvariant == BuildingSpec => []BuildingInv
<1>1. BuildingInv /\ [BuildingNext]_buildingVars => BuildingInv'
  <2> SUFFICES ASSUME BuildingInv, [BuildingNext]_buildingVars PROVE BuildingInv'
    OBVIOUS
  <2>1. ASSUME NEW p \in ToSet(def.portals), Traverse(p) PROVE BuildingInv'
    BY <2>1, TraverseInv
  <2>2. ASSUME NEW n, NEW p, Disengage(n, p) PROVE BuildingInv'
    BY <2>2, DisengageInv
  <2>3. ASSUME NEW n, NEW c \in ToSet(def.circuits), CutPower(n, c) PROVE BuildingInv'
    BY <2>3, CutPowerInv
  <2>4. CASE UNCHANGED buildingVars
    BY <2>4 DEF buildingVars, BuildingInv, BuildingIsSound, Listed, BuildingTypeOK,
                DebriefIsAWalk, CutsAreCounted
  <2> QED BY <2>1, <2>2, <2>3, <2>4 DEF BuildingNext
<1> QED BY <1>1, InitInv, PTL DEF BuildingSpec

(* What the after-action report of a building says is a walk that happened   *)
(* and the cuts that were made (building/sim.rs), for every accepted          *)
(* building.                                                               *)
THEOREM BuildingSound == BuildingSpec => []BuildingIsSound
<1>1. BuildingInv => BuildingIsSound
  BY DEF BuildingInv
<1> QED BY <1>1, BuildingInvariant, PTL

-------------------------------------------------------------------------------
(* Routes through a building.  What reachable_rooms returns is a recursive      *)
(* function of the steps taken; that it is the least closed set is shown by      *)
(* looking at the first step that would break it.                            *)

(* A set of natural numbers has a least. *)
LEMMA LeastNumber ==
  ASSUME NEW D \in SUBSET Nat, D # {}
  PROVE  \E n \in D : \A i \in D : n <= i
<1>1. PICK n \in D : \A i \in D : ~ (<<i, n>> \in OpToRel(<, Nat))
  BY NatLessThanWellFounded, WFMin
<1>2. \A i \in D : ~(i < n)
  BY <1>1 DEF OpToRel
<1> QED BY <1>2

(* A number other than zero has one before it. *)
LEMMA Before == \A n \in Nat : n # 0 => \E m \in Nat : n = m + 1
<1> SUFFICES ASSUME NEW n \in Nat, n # 0 PROVE \E m \in Nat : n = m + 1
  OBVIOUS
<1>1. n - 1 \in Nat /\ n = (n - 1) + 1
  OBVIOUS
<1> QED BY <1>1

(* A step can be taken any number of times. *)
LEMMA Iterates ==
  ASSUME NEW T, NEW start \in T, NEW step \in [T -> T]
  PROVE  \E g \in [Nat -> T] : g[0] = start /\ \A n \in Nat : g[n + 1] = step[g[n]]
<1> DEFINE Upto(n) == {f \in [0..n -> T] : f[0] = start /\ \A i \in 0..(n - 1) : f[i + 1] = step[f[i]]}
           D == {n \in Nat : Upto(n) = {}}
<1>1. D = {}
  <2> SUFFICES ASSUME D # {} PROVE FALSE
    OBVIOUS
  <2>1. PICK n \in D : \A i \in D : n <= i
    BY LeastNumber
  <2>2. CASE n = 0
    <3>1. [i \in 0..0 |-> start] \in Upto(0)
      OBVIOUS
    <3> QED BY <2>2, <3>1
  <2>3. CASE n # 0
    <3>1. n - 1 \in Nat /\ n \in Nat /\ n - 1 \notin D
      BY <2>1, <2>3
    <3>2. PICK f : f \in Upto(n - 1)
      BY <3>1
    <3> DEFINE h == [i \in 0..n |-> IF i = n THEN step[f[n - 1]] ELSE f[i]]
    <3>3. f \in [0..(n - 1) -> T] /\ f[0] = start /\ \A i \in 0..(n - 2) : f[i + 1] = step[f[i]]
      BY <3>1, <3>2
    <3>4. h \in [0..n -> T] /\ h[0] = start
      BY <2>3, <3>1, <3>3
    <3>5. \A i \in 0..(n - 1) : h[i + 1] = step[h[i]]
      <4> SUFFICES ASSUME NEW i \in 0..(n - 1) PROVE h[i + 1] = step[h[i]]
        OBVIOUS
      <4>1. h[i] = f[i]
        BY <3>1
      <4>2. CASE i = n - 1
        BY <3>1, <4>1, <4>2
      <4>3. CASE i # n - 1
        BY <3>1, <3>3, <4>1, <4>3
      <4> QED BY <4>2, <4>3
    <3>6. h \in Upto(n)
      BY <3>4, <3>5
    <3> QED BY <3>6, <2>1
  <2> QED BY <2>2, <2>3
<1>2. ASSUME NEW n \in Nat, NEW f \in Upto(n), NEW h \in Upto(n + 1)
      PROVE  f[n] = h[n]
  <2> DEFINE apart == {i \in 0..n : f[i] # h[i]}
  <2>1. /\ f[0] = start /\ h[0] = start
        /\ \A i \in 0..(n - 1) : f[i + 1] = step[f[i]] /\ h[i + 1] = step[h[i]]
    BY <1>2
  <2>2. apart = {}
    <3> SUFFICES ASSUME apart # {} PROVE FALSE
      OBVIOUS
    <3>0. apart \in SUBSET Nat
      OBVIOUS
    <3>1. PICK i \in apart : \A j \in apart : i <= j
      <4> HIDE DEF apart
      <4> QED BY <3>0, LeastNumber
    <3>2. i # 0 /\ i \in 0..n
      <4>1. i \in 0..n /\ f[i] # h[i]
        BY <3>1
      <4> QED BY <2>1, <4>1
    <3>3. i - 1 \in 0..(n - 1) /\ i - 1 \notin apart /\ (i - 1) + 1 = i
      BY <3>1, <3>2
    <3>4. f[i - 1] = h[i - 1]
      BY <3>3
    <3>5. f[i] = h[i]
      BY <2>1, <3>3, <3>4
    <3> QED BY <3>1, <3>5
  <2>3. n \in 0..n
    OBVIOUS
  <2> HIDE DEF Upto
  <2> QED BY <2>2, <2>3
<1> DEFINE c(n) == CHOOSE f : f \in Upto(n)
           g == [n \in Nat |-> c(n)[n]]
<1>3. \A n \in Nat : c(n) \in Upto(n)
  <2>1. \A n \in Nat : \E f : f \in Upto(n)
    BY <1>1
  <2> HIDE DEF Upto
  <2> QED BY <2>1
<1>4. g \in [Nat -> T] /\ g[0] = start
  <2>1. \A n \in Nat : c(n)[n] \in T
    <3> SUFFICES ASSUME NEW n \in Nat PROVE c(n)[n] \in T
      OBVIOUS
    <3>1. c(n) \in [0..n -> T]
      BY <1>3
    <3> HIDE DEF c
    <3> QED BY <3>1
  <2>2. c(0)[0] = start
    BY <1>3
  <2> HIDE DEF c
  <2> QED BY <2>1, <2>2
<1>5. ASSUME NEW n \in Nat
      PROVE  g[n + 1] = step[g[n]]
  <2>1. c(n) \in Upto(n) /\ c(n + 1) \in Upto(n + 1)
    <3> HIDE DEF c, Upto
    <3> QED BY <1>3
  <2>2. c(n)[n] = c(n + 1)[n]
    BY <1>2, <2>1
  <2> HIDE DEF c
  <2>3. \A i \in 0..((n + 1) - 1) : c(n + 1)[i + 1] = step[c(n + 1)[i]]
    BY <2>1
  <2>4. c(n + 1)[n + 1] = step[c(n + 1)[n]]
    BY <2>3
  <2>5. g[n] = c(n)[n] /\ g[n + 1] = c(n + 1)[n + 1]
    OBVIOUS
  <2> HIDE DEF g
  <2> QED BY <2>2, <2>4, <2>5
<1> QED BY <1>4, <1>5

(* A chain of ever larger sets that stops growing once it has not grown stops *)
(* within as many steps as there is room.                                    *)
LEMMA ChainStops ==
  ASSUME NEW Whole, IsFiniteSet(Whole), NEW g \in [Nat -> SUBSET Whole], g[0] # {},
         \A n \in Nat : g[n] \subseteq g[n + 1],
         \A n \in Nat : g[n + 1] = g[n] => g[n + 2] = g[n + 1]
  PROVE  LET N == Cardinality(Whole) IN g[N + 1] = g[N]
<1> DEFINE N == Cardinality(Whole)
           size(n) == Cardinality(g[n])
           short == {n \in Nat : g[n + 1] # g[n] /\ size(n) <= n}
<1>1. N \in Nat /\ \A n \in Nat : IsFiniteSet(g[n]) /\ size(n) \in Nat /\ size(n) <= N
  <2>1. N \in Nat
    BY FS_CardinalityType
  <2>2. \A n \in Nat : g[n] \in SUBSET Whole
    OBVIOUS
  <2>3. \A n \in Nat : IsFiniteSet(g[n]) /\ size(n) <= N
    BY <2>2, FS_Subset
  <2>4. \A n \in Nat : size(n) \in Nat
    BY <2>3, FS_CardinalityType
  <2> QED BY <2>1, <2>3, <2>4
<1>2. \A n \in Nat : g[n + 1] # g[n] => size(n) < size(n + 1)
  <2> SUFFICES ASSUME NEW n \in Nat, g[n + 1] # g[n] PROVE size(n) < size(n + 1)
    OBVIOUS
  <2>1. IsFiniteSet(g[n + 1]) /\ g[n] \in SUBSET g[n + 1] /\ n + 1 \in Nat
    BY <1>1
  <2>2. size(n) <= size(n + 1) /\ size(n + 1) # size(n)
    BY <2>1, FS_Subset
  <2>3. size(n) \in Nat /\ size(n + 1) \in Nat
    BY <1>1, <2>1
  <2> HIDE DEF size
  <2> QED BY <2>2, <2>3
<1>3. short = {}
  <2> SUFFICES ASSUME short # {} PROVE FALSE
    OBVIOUS
  <2>0. short \in SUBSET Nat
    OBVIOUS
  <2>1. PICK n \in short : \A i \in short : n <= i
    <3> HIDE DEF short
    <3> QED BY <2>0, LeastNumber
  <2>2. n \in Nat /\ g[n + 1] # g[n] /\ size(n) <= n
    BY <2>1
  <2>3. n # 0
    <3>1. size(0) # 0
      BY <1>1, FS_EmptySet
    <3>2. size(0) \in Nat
      BY <1>1
    <3> HIDE DEF size
    <3> QED BY <2>2, <3>1, <3>2
  <2>4. PICK m \in Nat : n = m + 1
    BY <2>2, <2>3, Before
  <2>5. g[m + 1] # g[m]
    BY <2>2, <2>4
  <2>6. size(m) < size(m + 1)
    BY <1>2, <2>5
  <2>7. m \notin short
    BY <2>1, <2>2, <2>4
  <2>8. ~(size(m) <= m)
    BY <2>5, <2>7
  <2>9. size(m) \in Nat /\ size(m + 1) \in Nat /\ size(m + 1) <= m + 1
    BY <1>1, <2>2, <2>4
  <2> HIDE DEF size
  <2> QED BY <2>6, <2>8, <2>9
<1>4. CASE g[N + 1] # g[N]
  <2>1. ~(size(N) <= N)
    BY <1>1, <1>3, <1>4
  <2> QED BY <1>1, <2>1
<1> QED BY <1>4

(* What reachable_rooms returns: the least set of rooms that holds the start   *)
(* and every neighbour of what it holds.                                     *)
LEMMA ReachesAll ==
  ASSUME NEW b, IsFiniteSet(Rooms(b)), NEW from \in Rooms(b), NEW passable
  PROVE  LET R == ReachableRooms(b, from, passable) IN
         /\ from \in R
         /\ \A r \in R : Neighbours(b, r, passable) \subseteq R
         /\ \A S : from \in S /\ (\A r \in S : Neighbours(b, r, passable) \subseteq S)
                  => R \subseteq S
<1> DEFINE near(r) == Neighbours(b, r, passable)
           wider(X) == X \cup UNION {near(r) : r \in X}
           T == SUBSET Rooms(b)
           step == [X \in T |-> wider(X)]
           N == Cardinality(Rooms(b))
           Grows(g) == g = [n \in Nat |-> IF n = 0 THEN {from} \cap Rooms(b) ELSE wider(g[n - 1])]
           grow == CHOOSE g : Grows(g)
<1>1. ReachableRooms(b, from, passable) = grow[N]
  BY DEF ReachableRooms
<1>2. \A r : near(r) \in T
  BY DEF Neighbours
<1> HIDE DEF near
<1>3. {from} \in T /\ step \in [T -> T]
  BY <1>2
<1>4. PICK g \in [Nat -> T] : g[0] = {from} /\ \A n \in Nat : g[n + 1] = step[g[n]]
  <2> HIDE DEF T, step
  <2> QED BY <1>3, Iterates
<1>5. \A n \in Nat : g[n] \in T /\ g[n + 1] = wider(g[n])
  BY <1>4
<1> HIDE DEF wider
<1>6. Grows(g)
  <2>1. \A n \in Nat : g[n] = IF n = 0 THEN {from} \cap Rooms(b) ELSE wider(g[n - 1])
    <3> SUFFICES ASSUME NEW n \in Nat
                 PROVE  g[n] = IF n = 0 THEN {from} \cap Rooms(b) ELSE wider(g[n - 1])
      OBVIOUS
    <3>1. CASE n = 0
      BY <1>4, <3>1
    <3>2. CASE n # 0
      <4>1. PICK m \in Nat : n = m + 1
        BY <3>2, Before
      <4>2. n - 1 = m
        BY <4>1
      <4> QED BY <1>5, <3>2, <4>1, <4>2
    <3> QED BY <3>1, <3>2
  <2> QED BY <1>4, <2>1
<1>7. Grows(grow)
  <2> HIDE DEF Grows
  <2> QED BY <1>6
<1> HIDE DEF grow
<1>8. /\ grow[0] = {from} \cap Rooms(b)
      /\ \A n \in Nat : grow[n + 1] = wider(grow[n])
  <2>1. \A n \in Nat : grow[n] = IF n = 0 THEN {from} \cap Rooms(b) ELSE wider(grow[n - 1])
    BY <1>7
  <2>2. ASSUME NEW n \in Nat PROVE grow[n + 1] = wider(grow[n])
    <3>1. n + 1 \in Nat /\ n + 1 # 0 /\ (n + 1) - 1 = n
      OBVIOUS
    <3> QED BY <2>1, <3>1
  <2> QED BY <2>1, <2>2
<1>9. \A n \in Nat : grow[n] = g[n]
  <2> DEFINE apart == {n \in Nat : grow[n] # g[n]}
  <2> SUFFICES ASSUME apart # {} PROVE FALSE
    OBVIOUS
  <2>0. apart \in SUBSET Nat
    OBVIOUS
  <2>1. PICK n \in apart : \A i \in apart : n <= i
    <3> HIDE DEF apart
    <3> QED BY <2>0, LeastNumber
  <2>2. n \in Nat /\ grow[n] # g[n]
    BY <2>1
  <2>3. n # 0
    <3>1. g[0] = {from}
      BY <1>4
    <3>2. grow[0] = {from} \cap Rooms(b)
      BY <1>8
    <3>3. grow[0] = g[0]
      BY <3>1, <3>2
    <3> QED BY <2>2, <3>3
  <2>4. PICK m \in Nat : n = m + 1
    BY <2>2, <2>3, Before
  <2>5. grow[m] = g[m]
    BY <2>1, <2>2, <2>4
  <2> QED BY <1>5, <1>8, <2>2, <2>4, <2>5
<1>10. ReachableRooms(b, from, passable) = g[N]
  BY <1>1, <1>9, FS_CardinalityType
<1>11. \A n \in Nat : g[n] \subseteq g[n + 1]
  BY <1>5 DEF wider
<1>12. g[N + 1] = g[N]
  <2>1. g[0] # {}
    BY <1>4
  <2>2. \A n \in Nat : g[n + 1] = g[n] => g[n + 2] = g[n + 1]
    <3> SUFFICES ASSUME NEW n \in Nat, g[n + 1] = g[n] PROVE g[n + 2] = g[n + 1]
      OBVIOUS
    <3>1. n + 1 \in Nat /\ (n + 1) + 1 = n + 2
      OBVIOUS
    <3> QED BY <1>5, <3>1
  <2>3. g \in [Nat -> T]
    BY <1>4
  <2> QED BY <1>11, <2>1, <2>2, <2>3, ChainStops
<1>13. N \in Nat /\ wider(g[N]) = g[N]
  BY <1>5, <1>12, FS_CardinalityType
<1>14. \A r \in g[N] : near(r) \subseteq g[N]
  BY <1>13 DEF wider
<1>15. \A n \in Nat : from \in g[n]
  <2> DEFINE lacks == {n \in Nat : from \notin g[n]}
  <2> SUFFICES ASSUME lacks # {} PROVE FALSE
    OBVIOUS
  <2>0. lacks \in SUBSET Nat
    OBVIOUS
  <2>1. PICK n \in lacks : \A i \in lacks : n <= i
    <3> HIDE DEF lacks
    <3> QED BY <2>0, LeastNumber
  <2>2. n \in Nat /\ from \notin g[n]
    BY <2>1
  <2>3. n # 0
    BY <1>4, <2>2
  <2>4. PICK m \in Nat : n = m + 1
    BY <2>2, <2>3, Before
  <2>5. from \in g[m]
    BY <2>1, <2>2, <2>4
  <2> QED BY <1>11, <2>2, <2>4, <2>5
<1>16. ASSUME NEW S, from \in S, \A r \in S : near(r) \subseteq S
       PROVE  g[N] \subseteq S
  <2> DEFINE beyond == {n \in Nat : ~(g[n] \subseteq S)}
  <2>1. beyond = {}
    <3> SUFFICES ASSUME beyond # {} PROVE FALSE
      OBVIOUS
    <3>0. beyond \in SUBSET Nat
      OBVIOUS
    <3>1. PICK n \in beyond : \A i \in beyond : n <= i
      <4> HIDE DEF beyond
      <4> QED BY <3>0, LeastNumber
    <3>2. n \in Nat /\ ~(g[n] \subseteq S)
      BY <3>1
    <3>3. n # 0
      BY <1>4, <1>16, <3>2
    <3>4. PICK m \in Nat : n = m + 1
      BY <3>2, <3>3, Before
    <3>5. g[m] \subseteq S
      BY <3>1, <3>2, <3>4
    <3>6. wider(g[m]) \subseteq S
      BY <1>16, <3>5 DEF wider
    <3> QED BY <1>5, <3>2, <3>4, <3>6
  <2> QED BY <1>13, <2>1
<1> QED BY <1>10, <1>13, <1>14, <1>15, <1>16 DEF near

-------------------------------------------------------------------------------
(* The search for a route. *)

(* Two rooms a portal of the search joins, in the time it takes. *)
Joins(p, r, s) == p \in search.passable /\ Ends(p) = {r, s} /\ r # s

(* Sets of rooms that no portal leads out of. *)
Closed(S) == \A p \in search.passable : \A r, s : Joins(p, r, s) /\ r \in S => s \in S

RouteTypeOK ==
  /\ search \in [from : MappedRooms, to : MappedRooms, passable : SUBSET MappedWays]
  /\ dist \in [DOMAIN dist -> Nat] /\ DOMAIN dist \subseteq MappedRooms
  /\ found \in BOOLEAN \cup {None}

(* Settled rooms are not further than the others; from each of them every      *)
(* portal has been tried.                                                    *)
RoomsSettled ==
  /\ done \subseteq DOMAIN dist /\ search.to \notin done
  /\ search.from \in DOMAIN dist /\ dist[search.from] = 0
  /\ search.from \in done \/ DOMAIN dist = {search.from}
  /\ \A s \in done, r \in DOMAIN dist \ done : dist[s] <= dist[r]
  /\ \A p \in search.passable : \A r \in MappedRooms : \A s \in done : Joins(p, r, s) =>
       r \in DOMAIN dist /\ dist[r] <= dist[s] + p.time

(* Every distance is that of a way back. *)
Unwinds ==
  \A r \in DOMAIN dist \ {search.from} :
    /\ r \in DOMAIN prev /\ prev[r][1] \in done
    /\ Joins(prev[r][2], r, prev[r][1])
    /\ dist[r] = dist[prev[r][1]] + prev[r][2].time

RouteInv ==
  /\ RouteTypeOK /\ RoomsSettled /\ Unwinds
  /\ \A S \in SUBSET MappedRooms : search.from \in S /\ Closed(S) => DOMAIN dist \subseteq S
  /\ found = TRUE => search.to \in Nearest
  /\ found = FALSE => Nearest = {}

(* The portals of a building that loads join two of its rooms. *)
LEMMA WaysAre ==
  ASSUME NEW p \in MappedWays
  PROVE  p.time \in Nat /\ p.from # p.to /\ Ends(p) \subseteq MappedRooms
BY RoutesAssumption DEF MappedWays, MappedRooms, Loads, PortalsPass, ToSet

(* What there is onward of a room. *)
LEMMA OnwardIs ==
  ASSUME RouteTypeOK, NEW here
  PROVE  /\ \A w \in Onward(here) : Joins(w[2], here, w[1]) /\ w[1] \in MappedRooms \ done
         /\ \A p, r : Joins(p, here, r) /\ r \notin done => <<r, p>> \in Onward(here)
<1>1. search.passable \subseteq MappedWays
  BY DEF RouteTypeOK
<1>2. ASSUME NEW p \in search.passable, here \in Ends(p)
      PROVE  LET r == CHOOSE r \in Ends(p) : r # here
             IN Ends(p) = {here, r} /\ r # here /\ r \in MappedRooms
  <2>1. p.from # p.to /\ Ends(p) \subseteq MappedRooms
    BY <1>1, WaysAre
  <2>2. \E r \in Ends(p) : r # here
    BY <2>1 DEF Ends
  <2> DEFINE r == CHOOSE r \in Ends(p) : r # here
  <2>3. r \in Ends(p) /\ r # here
    BY <2>2
  <2> HIDE DEF r
  <2>4. Ends(p) = {here, r}
    BY <1>2, <2>3 DEF Ends
  <2> QED BY <2>1, <2>3, <2>4
<1>3. ASSUME NEW w \in Onward(here)
      PROVE  Joins(w[2], here, w[1]) /\ w[1] \in MappedRooms \ done
  <2>1. PICK p \in search.passable :
          /\ w = <<CHOOSE r \in Ends(p) : r # here, p>>
          /\ here \in Ends(p) /\ Ends(p) \cap (done \ {here}) = {}
    BY DEF Onward
  <2> DEFINE r == CHOOSE r \in Ends(p) : r # here
  <2>2. Ends(p) = {here, r} /\ r # here /\ r \in MappedRooms
    BY <1>2, <2>1
  <2>3. w[1] = r /\ w[2] = p
    BY <2>1
  <2> HIDE DEF r
  <2> QED BY <2>1, <2>2, <2>3 DEF Joins
<1>4. ASSUME NEW p, NEW r, Joins(p, here, r), r \notin done
      PROVE  <<r, p>> \in Onward(here)
  <2>1. p \in search.passable /\ Ends(p) = {here, r} /\ r # here
    BY <1>4 DEF Joins
  <2> DEFINE other == CHOOSE s \in Ends(p) : s # here
  <2>2. other \in Ends(p) /\ other # here
    BY <2>1
  <2>3. other = r
    BY <2>1, <2>2
  <2>4. Ends(p) \cap (done \ {here}) = {}
    BY <1>4, <2>1
  <2>5. <<other, p>> \in Onward(here)
    BY <2>1, <2>4 DEF Onward
  <2> QED BY <2>3, <2>5
<1> QED BY <1>3, <1>4

(* Where a room is not settled, a nearest one is. *)
LEMMA SomeRoomIsNearest ==
  ASSUME RouteTypeOK, Nearest = {}
  PROVE  DOMAIN dist \subseteq done
<1> DEFINE open == DOMAIN dist \ done
           D == {n \in Nat : \E r \in open : dist[r] = n}
<1> SUFFICES ASSUME open # {} PROVE FALSE
  OBVIOUS
<1>1. \A r \in open : dist[r] \in D
  BY DEF RouteTypeOK
<1>2. D # {} /\ D \in SUBSET Nat
  BY <1>1
<1>3. PICK n \in D : \A i \in D : n <= i
  <2> HIDE DEF D
  <2> QED BY <1>2, LeastNumber
<1>4. PICK r \in open : dist[r] = n
  BY <1>3
<1>5. \A s \in open : dist[r] <= dist[s]
  BY <1>1, <1>3, <1>4
<1>6. r \in Nearest
  BY <1>4, <1>5 DEF Nearest
<1> QED BY <1>6

(* The best of the ways to a room: none of them goes untried. *)
LEMMA OnwardIsTried ==
  ASSUME RouteTypeOK, NEW here \in DOMAIN dist, NEW w \in Onward(here)
  PROVE  \/ w[1] \in DOMAIN dist /\ dist[w[1]] <= dist[here] + w[2].time
         \/ \E v \in Better(here) : v[1] = w[1]
<1> DEFINE room == w[1]
           to == {v \in Onward(here) : v[1] = room}
           D == {n \in Nat : \E v \in to : v[2].time = n}
<1>1. \A v \in Onward(here) : v[2].time \in Nat
  <2>1. \A v \in Onward(here) : v[2] \in search.passable
    BY OnwardIs DEF Joins
  <2> QED BY <2>1, WaysAre DEF RouteTypeOK
<1>2. D \in SUBSET Nat /\ D # {}
  BY <1>1
<1>3. PICK n \in D : \A i \in D : n <= i
  <2> HIDE DEF D
  <2> QED BY <1>2, LeastNumber
<1>4. PICK v \in to : v[2].time = n
  BY <1>3
<1>5. \A u \in to : v[2].time <= u[2].time
  BY <1>1, <1>3, <1>4
<1>6. v \in Onward(here) /\ v[1] = room /\ \A u \in Onward(here) : u[1] = v[1] => v[2].time <= u[2].time
  BY <1>4, <1>5
<1>7. CASE room \notin DOMAIN dist \/ dist[here] + v[2].time < dist[room]
  BY <1>6, <1>7 DEF Better
<1>8. CASE room \in DOMAIN dist /\ ~(dist[here] + v[2].time < dist[room])
  <2>1. dist[room] \in Nat /\ dist[here] \in Nat /\ v[2].time \in Nat /\ w[2].time \in Nat
    BY <1>1, <1>6, <1>8 DEF RouteTypeOK
  <2>2. v[2].time <= w[2].time
    BY <1>5
  <2> QED BY <1>8, <2>1, <2>2
<1> QED BY <1>7, <1>8

(* Rooms gone on to from here, each through its portal in way. *)
GoesOn(here, way) ==
  /\ \A r \in DOMAIN way :
       /\ Joins(way[r], here, r) /\ r \in MappedRooms \ done /\ way[r].time \in Nat
       /\ r \in DOMAIN dist => dist[here] + way[r].time < dist[r]
       /\ \A w \in Onward(here) : w[1] = r => way[r].time <= w[2].time
       /\ r \in DOMAIN dist' /\ dist'[r] = dist[here] + way[r].time
       /\ r \in DOMAIN prev' /\ prev'[r] = <<here, way[r]>>
  /\ \A r \in DOMAIN dist \ DOMAIN way : r \in DOMAIN dist' /\ dist'[r] = dist[r]
  /\ \A r \in DOMAIN prev \ DOMAIN way : r \in DOMAIN prev' /\ prev'[r] = prev[r]
  /\ dist' \in [DOMAIN dist' -> Nat] /\ DOMAIN dist' = DOMAIN dist \cup DOMAIN way

(* What settling a room does to the distances and the ways back. *)
LEMMA SettleDoes ==
  ASSUME RouteTypeOK, NEW here \in DOMAIN dist, NEW way, way = WayOnward(here),
         dist' = Inserted(dist, [r \in DOMAIN way |-> dist[here] + way[r].time]),
         prev' = Inserted(prev, [r \in DOMAIN way |-> <<here, way[r]>>])
  PROVE  GoesOn(here, way)
<1>1. /\ DOMAIN way = {w[1] : w \in Better(here)}
      /\ \A r \in DOMAIN way : way[r] = (CHOOSE w \in Better(here) : w[1] = r)[2]
  BY DEF WayOnward
<1>2. ASSUME NEW r \in DOMAIN way
      PROVE  /\ Joins(way[r], here, r) /\ r \in MappedRooms \ done /\ way[r].time \in Nat
             /\ r \in DOMAIN dist => dist[here] + way[r].time < dist[r]
             /\ \A w \in Onward(here) : w[1] = r => way[r].time <= w[2].time
  <2> DEFINE v == CHOOSE w \in Better(here) : w[1] = r
  <2>1. v \in Better(here) /\ v[1] = r
    BY <1>1
  <2>2. way[r] = v[2]
    BY <1>1
  <2> HIDE DEF v
  <2>3. v \in Onward(here)
    BY <2>1 DEF Better
  <2>4. Joins(v[2], here, r) /\ r \in MappedRooms \ done
    BY <2>1, <2>3, OnwardIs
  <2>5. v[2].time \in Nat
    BY <2>4, WaysAre DEF Joins, RouteTypeOK
  <2>6. /\ v[1] \notin DOMAIN dist \/ dist[here] + v[2].time < dist[v[1]]
        /\ \A u \in Onward(here) : u[1] = v[1] => v[2].time <= u[2].time
    BY <2>1 DEF Better
  <2> QED BY <2>1, <2>2, <2>4, <2>5, <2>6
<1>3. /\ DOMAIN dist' = DOMAIN dist \cup DOMAIN way
      /\ \A r \in DOMAIN way : dist'[r] = dist[here] + way[r].time
      /\ \A r \in DOMAIN dist \ DOMAIN way : dist'[r] = dist[r]
  BY DEF Inserted
<1>4. /\ DOMAIN prev' = DOMAIN prev \cup DOMAIN way
      /\ \A r \in DOMAIN way : prev'[r] = <<here, way[r]>>
      /\ \A r \in DOMAIN prev \ DOMAIN way : prev'[r] = prev[r]
  BY DEF Inserted
<1>5. dist' \in [DOMAIN dist' -> Nat]
  <2>1. \A r \in DOMAIN dist' : dist'[r] \in Nat
    <3>1. dist[here] \in Nat /\ \A r \in DOMAIN dist : dist[r] \in Nat
      BY DEF RouteTypeOK
    <3>2. \A r \in DOMAIN way : way[r].time \in Nat
      BY <1>2
    <3>3. \A r \in DOMAIN way : dist'[r] \in Nat
      <4> SUFFICES ASSUME NEW r \in DOMAIN way PROVE dist'[r] \in Nat
        OBVIOUS
      <4> QED BY <1>3, <3>1, <3>2
    <3>4. \A r \in DOMAIN dist \ DOMAIN way : dist'[r] \in Nat
      BY <1>3, <3>1
    <3> QED BY <1>3, <3>3, <3>4
  <2>2. dist' = [r \in DOMAIN dist' |-> dist'[r]]
    BY DEF Inserted
  <2> QED BY <2>1, <2>2
<1> QED BY <1>2, <1>3, <1>4, <1>5 DEF GoesOn

(* Settling a nearest room keeps the invariant. *)
LEMMA SettleKeepsRoutes ==
  ASSUME RouteInv, Settle
  PROVE  RouteInv'
<1>1. PICK here \in Nearest :
        /\ here # search.to /\ done' = done \cup {here}
        /\ LET way == WayOnward(here) IN
           /\ dist' = Inserted(dist, [r \in DOMAIN way |-> dist[here] + way[r].time])
           /\ prev' = Inserted(prev, [r \in DOMAIN way |-> <<here, way[r]>>])
  BY DEF Settle
<1>2. PICK way :
        /\ way = WayOnward(here)
        /\ dist' = Inserted(dist, [r \in DOMAIN way |-> dist[here] + way[r].time])
        /\ prev' = Inserted(prev, [r \in DOMAIN way |-> <<here, way[r]>>])
  BY <1>1
<1>3. search' = search /\ found' = None /\ found = None
  BY DEF Settle
<1>4. RouteTypeOK /\ RoomsSettled /\ Unwinds
  BY DEF RouteInv
<1>5. here \in DOMAIN dist \ done /\ \A r \in DOMAIN dist \ done : dist[here] <= dist[r]
  BY <1>1 DEF Nearest
<1>6. /\ \A r \in DOMAIN way :
            /\ Joins(way[r], here, r) /\ r \in MappedRooms \ done /\ way[r].time \in Nat
            /\ r \in DOMAIN dist => dist[here] + way[r].time < dist[r]
            /\ \A w \in Onward(here) : w[1] = r => way[r].time <= w[2].time
            /\ r \in DOMAIN dist' /\ dist'[r] = dist[here] + way[r].time
            /\ r \in DOMAIN prev' /\ prev'[r] = <<here, way[r]>>
      /\ \A r \in DOMAIN dist \ DOMAIN way : r \in DOMAIN dist' /\ dist'[r] = dist[r]
      /\ \A r \in DOMAIN prev \ DOMAIN way : r \in DOMAIN prev' /\ prev'[r] = prev[r]
      /\ dist' \in [DOMAIN dist' -> Nat] /\ DOMAIN dist' = DOMAIN dist \cup DOMAIN way
  <2>1. here \in DOMAIN dist
    BY <1>5
  <2>2. GoesOn(here, way)
    BY <1>2, <1>4, <2>1, SettleDoes
  <2> QED BY <2>2 DEF GoesOn
<1>7. /\ \A r \in DOMAIN dist : dist[r] \in Nat
      /\ \A r \in DOMAIN dist' : dist'[r] \in Nat
      /\ done \subseteq DOMAIN dist
  BY <1>4, <1>6 DEF RouteTypeOK, RoomsSettled
<1>8. /\ here \notin DOMAIN way /\ dist'[here] = dist[here]
      /\ \A s \in done : s \notin DOMAIN way /\ dist'[s] = dist[s]
  BY <1>5, <1>6, <1>7 DEF Joins
<1>9. \A r \in DOMAIN dist : r \in DOMAIN dist' /\ dist'[r] <= dist[r]
  BY <1>5, <1>6, <1>7
<1>10. RouteTypeOK'
  BY <1>3, <1>4, <1>6 DEF RouteTypeOK
<1>11. RoomsSettled'
  <2>1. done' \subseteq DOMAIN dist' /\ search.to \notin done'
    BY <1>1, <1>4, <1>5, <1>6, <1>7 DEF RoomsSettled
  <2>2. search.from \in done' /\ search.from \in DOMAIN dist' /\ dist'[search.from] = 0
    <3>1. search.from \in done \/ search.from = here
      BY <1>4, <1>5 DEF RoomsSettled
    <3> QED BY <1>1, <1>4, <1>6, <1>7, <1>8, <3>1 DEF RoomsSettled
  <2>3. ASSUME NEW s \in done', NEW r \in DOMAIN dist' \ done' PROVE dist'[s] <= dist'[r]
    <3>1. dist'[s] <= dist[here]
      <4>1. CASE s = here
        BY <1>5, <1>7, <1>8, <4>1
      <4>2. CASE s \in done
        BY <1>4, <1>5, <1>8, <4>2 DEF RoomsSettled
      <4> QED BY <1>1, <4>1, <4>2
    <3>2. dist[here] <= dist'[r]
      <4>1. CASE r \in DOMAIN way
        BY <1>5, <1>6, <1>7, <4>1
      <4>2. CASE r \notin DOMAIN way
        BY <1>1, <1>5, <1>6, <4>2
      <4> QED BY <4>1, <4>2
    <3>3. dist'[s] \in Nat /\ dist'[r] \in Nat /\ dist[here] \in Nat
      BY <1>5, <1>7, <2>1
    <3> QED BY <3>1, <3>2, <3>3
  <2>4. ASSUME NEW p \in search.passable, NEW r \in MappedRooms, NEW s \in done', Joins(p, r, s)
        PROVE  r \in DOMAIN dist' /\ dist'[r] <= dist'[s] + p.time
    <3>1. p.time \in Nat
      BY <1>4, WaysAre DEF RouteTypeOK
    <3>2. ASSUME r \in DOMAIN dist, dist[r] <= dist'[s] + p.time
          PROVE  r \in DOMAIN dist' /\ dist'[r] <= dist'[s] + p.time
      <4>1. r \in DOMAIN dist' /\ dist'[r] <= dist[r]
        BY <1>9, <3>2
      <4>2. dist'[r] \in Nat /\ dist[r] \in Nat /\ dist'[s] \in Nat
        BY <1>7, <2>1, <3>2, <4>1
      <4> QED BY <3>1, <3>2, <4>1, <4>2
    <3>3. CASE s \in done
      <4>1. r \in DOMAIN dist /\ dist[r] <= dist[s] + p.time
        BY <1>4, <2>4, <3>3 DEF RoomsSettled
      <4> QED BY <1>8, <3>2, <3>3, <4>1
    <3>4. CASE s = here /\ r \in done
      <4>1. r \in DOMAIN dist /\ dist[r] <= dist[here]
        BY <1>4, <1>5, <3>4 DEF RoomsSettled
      <4>2. dist[r] \in Nat /\ dist[here] \in Nat
        BY <1>5, <1>7, <4>1
      <4>3. dist[r] <= dist'[s] + p.time
        BY <1>8, <3>1, <3>4, <4>1, <4>2
      <4> QED BY <3>2, <4>1, <4>3
    <3>5. CASE s = here /\ r \notin done
      <4>1. Joins(p, here, r)
        BY <2>4, <3>5 DEF Joins
      <4>2. PICK w \in Onward(here) : w[1] = r /\ w[2] = p
        <5>1. <<r, p>> \in Onward(here)
          BY <1>4, <3>5, <4>1, OnwardIs
        <5> QED BY <5>1
      <4>3. CASE r \in DOMAIN dist /\ dist[r] <= dist[here] + p.time
        BY <1>8, <3>2, <3>5, <4>3
      <4>4. CASE \E v \in Better(here) : v[1] = r
        <5>1. r \in DOMAIN way
          BY <1>2, <4>4 DEF WayOnward
        <5>2. /\ r \in DOMAIN dist' /\ dist'[r] = dist[here] + way[r].time
              /\ way[r].time <= p.time /\ way[r].time \in Nat
          BY <1>6, <4>2, <5>1
        <5>3. dist[here] \in Nat
          BY <1>5, <1>7
        <5> QED BY <1>8, <3>1, <3>5, <5>2, <5>3
      <4> QED BY <1>4, <1>5, <4>2, <4>3, <4>4, OnwardIsTried
    <3> QED BY <1>1, <3>3, <3>4, <3>5
  <2> QED BY <1>3, <2>1, <2>2, <2>3, <2>4 DEF RoomsSettled, Joins
<1>12. Unwinds'
  <2> SUFFICES ASSUME NEW r \in DOMAIN dist' \ {search.from}
               PROVE  /\ r \in DOMAIN prev' /\ prev'[r][1] \in done'
                      /\ Joins(prev'[r][2], r, prev'[r][1])
                      /\ dist'[r] = dist'[prev'[r][1]] + prev'[r][2].time
    BY <1>3 DEF Unwinds, Joins
  <2>1. CASE r \in DOMAIN way
    <3>1. r \in DOMAIN prev' /\ prev'[r] = <<here, way[r]>>
      BY <1>6, <2>1
    <3>2. Joins(way[r], r, here)
      BY <1>6, <2>1 DEF Joins
    <3>3. prev'[r][1] = here /\ prev'[r][2] = way[r]
      BY <3>1
    <3>4. dist'[r] = dist'[here] + way[r].time
      BY <1>6, <1>8, <2>1
    <3> QED BY <1>1, <3>1, <3>2, <3>3, <3>4
  <2>2. CASE r \notin DOMAIN way
    <3>1. r \in DOMAIN dist \ {search.from} /\ dist'[r] = dist[r]
      BY <1>6, <2>2
    <3>2. /\ r \in DOMAIN prev /\ prev[r][1] \in done
          /\ Joins(prev[r][2], r, prev[r][1])
          /\ dist[r] = dist[prev[r][1]] + prev[r][2].time
      BY <1>4, <3>1 DEF Unwinds
    <3>3. r \in DOMAIN prev' /\ prev'[r] = prev[r]
      BY <1>6, <2>2, <3>2
    <3> QED BY <1>1, <1>8, <3>1, <3>2, <3>3
  <2> QED BY <2>1, <2>2
<1>13. ASSUME NEW S \in SUBSET MappedRooms, search.from \in S, Closed(S)
       PROVE  DOMAIN dist' \subseteq S
  <2>1. DOMAIN dist \subseteq S
    BY <1>13 DEF RouteInv
  <2>2. \A r \in DOMAIN way : r \in S
    BY <1>5, <1>6, <1>13, <2>1 DEF Closed, Joins
  <2> QED BY <1>6, <2>1, <2>2
<1>14. found' # TRUE /\ found' # FALSE
  BY <1>3, RoutesAssumption
<1>15. \A S \in SUBSET MappedRooms : (search.from)' \in S /\ Closed(S)' => DOMAIN dist' \subseteq S
  BY <1>3, <1>13 DEF Closed, Joins
<1> QED BY <1>10, <1>11, <1>12, <1>14, <1>15 DEF RouteInv

(* The start. *)
LEMMA RouteInitInv == RouteInit => RouteInv
<1> SUFFICES ASSUME RouteInit PROVE RouteInv
  OBVIOUS
<1>1. /\ search \in [from : MappedRooms, to : MappedRooms, passable : SUBSET MappedWays]
      /\ dist = [r \in {search.from} |-> 0] /\ done = {} /\ found = None
  BY DEF RouteInit, Passables
<1>2. RouteTypeOK
  BY <1>1 DEF RouteTypeOK
<1>3. RoomsSettled /\ Unwinds
  BY <1>1 DEF RoomsSettled, Unwinds
<1>4. found # TRUE /\ found # FALSE
  BY <1>1, RoutesAssumption
<1> QED BY <1>1, <1>2, <1>3, <1>4 DEF RouteInv

(* A search settles rooms until it stops, and then says whether it arrived. *)
THEOREM RouteInvariant == RouteSpec => []RouteInv
<1>1. RouteInv /\ [RouteNext]_routeVars => RouteInv'
  <2> SUFFICES ASSUME RouteInv, [RouteNext]_routeVars PROVE RouteInv'
    OBVIOUS
  <2>1. CASE Settle
    BY <2>1, SettleKeepsRoutes
  <2>2. ASSUME UNCHANGED <<search, dist, prev, done>>,
               found' = found \/ (found' = TRUE /\ search.to \in Nearest) \/ (found' = FALSE /\ Nearest = {})
        PROVE  RouteInv'
    <3>1. /\ RouteTypeOK' /\ RoomsSettled' /\ Unwinds' /\ Nearest' = Nearest
          /\ \A S : Closed(S)' <=> Closed(S)
      BY <2>2 DEF RouteInv, RouteTypeOK, RoomsSettled, Unwinds, Nearest, Closed, Joins
    <3> QED BY <2>2, <3>1 DEF RouteInv
  <2>3. CASE Arrived
    BY <2>2, <2>3 DEF Arrived
  <2>4. CASE Exhausted
    BY <2>2, <2>4 DEF Exhausted
  <2>5. CASE UNCHANGED routeVars
    BY <2>2, <2>5 DEF routeVars
  <2> QED BY <2>1, <2>3, <2>4, <2>5 DEF RouteNext
<1> QED BY <1>1, RouteInitInv, PTL DEF RouteSpec

(* A search that gave up has settled what reachable_rooms says there is.      *)
LEMMA GivesUpRightly ==
  ASSUME RouteInv, Nearest = {}
  PROVE  done = ReachableRooms(Mapped, search.from, {p.id : p \in search.passable})
<1> DEFINE ids == {p.id : p \in search.passable}
           R == ReachableRooms(Mapped, search.from, ids)
           near(r) == Neighbours(Mapped, r, ids)
<1>1. RouteTypeOK /\ RoomsSettled
  BY DEF RouteInv
<1>2. done = DOMAIN dist /\ search.from \in done /\ done \subseteq MappedRooms
  BY <1>1, SomeRoomIsNearest DEF RoomsSettled, RouteTypeOK
<1>3. \A r, s : s \in near(r) <=>
        /\ s \in MappedRooms /\ r # s
        /\ \E p \in search.passable : Ends(p) = {r, s}
  <2>1. ASSUME NEW i \in DOMAIN Mapped.portals, Mapped.portals[i].id \in ids
        PROVE  Mapped.portals[i] \in search.passable
    <3>1. PICK p \in search.passable : p.id = Mapped.portals[i].id
      BY <2>1
    <3>2. PICK j \in DOMAIN Mapped.portals : p = Mapped.portals[j]
      BY <1>1, <3>1 DEF RouteTypeOK, MappedWays, ToSet
    <3>3. IsInjective(Of(Mapped.portals, "id"))
      BY RoutesAssumption DEF Loads, PortalsPass, Distinct
    <3>4. i = j
      BY <3>1, <3>2, <3>3 DEF IsInjective, Of
    <3> QED BY <3>1, <3>2, <3>4
  <2>2. ASSUME NEW p \in search.passable
        PROVE  \E i \in DOMAIN Mapped.portals : Mapped.portals[i].id \in ids /\ Mapped.portals[i] = p
    BY <1>1 DEF RouteTypeOK, MappedWays, ToSet
  <2> HIDE DEF ids
  <2> QED BY <2>1, <2>2 DEF Neighbours, MappedRooms
<1>4. IsFiniteSet(Rooms(Mapped)) /\ search.from \in Rooms(Mapped)
  BY <1>2, RoutesAssumption DEF MappedRooms
<1>5. /\ search.from \in R /\ \A r \in R : near(r) \subseteq R
      /\ \A S : search.from \in S /\ (\A r \in S : near(r) \subseteq S) => R \subseteq S
  <2> HIDE DEF ids
  <2> QED BY <1>4, ReachesAll
<1> HIDE DEF near, R
<1>6. R \subseteq done
  <2>1. \A r \in done : near(r) \subseteq done
    BY <1>1, <1>2, <1>3 DEF RoomsSettled, Joins
  <2> QED BY <1>2, <1>5, <2>1
<1>7. done \subseteq R
  <2>1. Closed(R \cap MappedRooms)
    <3>1. ASSUME NEW p, NEW r, NEW s, Joins(p, r, s), r \in R PROVE s \in R \cap MappedRooms
      <4>1. p \in search.passable /\ Ends(p) = {r, s} /\ r # s
        BY <3>1 DEF Joins
      <4>2. s \in MappedRooms
        BY <1>1, <4>1, WaysAre DEF RouteTypeOK
      <4> QED BY <1>3, <1>5, <3>1, <4>1, <4>2
    <3> QED BY <3>1 DEF Closed
  <2> QED BY <1>2, <1>5, <2>1 DEF RouteInv
<1> QED BY <1>6, <1>7 DEF R

(* shortest_path (building/graph.rs) finds a shortest route where there is one *)
(* and none where there is none, for every building that loads, between any   *)
(* two of its rooms, whatever the caller lets pass.                           *)
THEOREM RouteShortest == RouteSpec => []RouteIsShortest
<1>1. RouteInv => RouteIsShortest
  <2> SUFFICES ASSUME RouteInv PROVE RouteIsShortest
    OBVIOUS
  <2> DEFINE far(r) == IF r \in done THEN dist[r] ELSE dist[search.to]
  <2>0. RouteTypeOK /\ RoomsSettled /\ Unwinds
    BY DEF RouteInv
  <2>1. ASSUME found = TRUE
        PROVE  /\ search.to \in DOMAIN dist \ done /\ \A r \in DOMAIN dist \ done : dist[search.to] <= dist[r]
               /\ \A r \in DOMAIN dist : dist[r] \in Nat
               /\ done \subseteq DOMAIN dist
    BY <2>0, <2>1 DEF RouteInv, Nearest, RouteTypeOK, RoomsSettled
  <2>2. ASSUME found = TRUE, NEW p \in search.passable, NEW r \in Ends(p), NEW s \in Ends(p)
        PROVE  far(r) <= far(s) + p.time
    <3>1. p.time \in Nat /\ Ends(p) \subseteq MappedRooms
      BY <2>0, WaysAre DEF RouteTypeOK
    <3>2. far(r) \in Nat /\ far(s) \in Nat
      BY <2>1, <2>2
    <3>3. CASE s \in done /\ r # s
      <4>1. Joins(p, r, s)
        BY <3>3 DEF Joins, Ends
      <4>2. r \in DOMAIN dist /\ dist[r] <= dist[s] + p.time
        BY <2>0, <3>1, <3>3, <4>1 DEF RoomsSettled
      <4>3. far(r) <= dist[r]
        BY <2>1, <2>2, <4>2
      <4>4. dist[r] \in Nat /\ dist[s] \in Nat
        BY <2>1, <2>2, <3>3, <4>2
      <4> HIDE DEF far
      <4>5. far(s) = dist[s]
        BY <3>3 DEF far
      <4> QED BY <3>1, <3>2, <4>2, <4>3, <4>4, <4>5
    <3>4. CASE s \notin done
      <4>1. far(r) <= dist[search.to]
        BY <2>0, <2>1, <2>2 DEF RoomsSettled
      <4>2. far(s) = dist[search.to]
        BY <3>4
      <4> HIDE DEF far
      <4> QED BY <3>1, <3>2, <4>1, <4>2
    <3>5. CASE r = s
      <4> HIDE DEF far
      <4> QED BY <3>1, <3>2, <3>5
    <3> QED BY <3>3, <3>4, <3>5
  <2>3. ASSUME found = TRUE, NEW r \in (done \cup {search.to}) \ {search.from}
        PROVE  /\ prev[r][2] \in search.passable
               /\ Ends(prev[r][2]) = {r, prev[r][1]} /\ prev[r][1] \in done
               /\ dist[r] = dist[prev[r][1]] + prev[r][2].time
    <3>1. r \in DOMAIN dist \ {search.from}
      BY <2>1, <2>3
    <3> QED BY <2>0, <3>1 DEF Unwinds, Joins
  <2>4. ASSUME found = FALSE
        PROVE  /\ search.to \notin done
               /\ done = ReachableRooms(Mapped, search.from, {p.id : p \in search.passable})
    BY <2>0, <2>4, GivesUpRightly DEF RouteInv, RoomsSettled
  <2> QED BY <2>0, <2>2, <2>3, <2>4 DEF RouteIsShortest, RoomsSettled
<1> QED BY <1>1, RouteInvariant, PTL
-------------------------------------------------------------------------------
(* The floor a definition is wired to. *)

(* Every position is in a room: the first that holds it, or the last one.    *)
LEMMA EveryPlaceHasARoom ==
  ASSUME NEW d, IsList(d.rooms), d.rooms # <<>>, NEW x
  PROVE  /\ RoomIndexAt(d, x) \in DOMAIN d.rooms
         /\ \A i \in DOMAIN d.rooms : Holds(d.rooms[i], x + Offset) =>
              Holds(d.rooms[RoomIndexAt(d, x)], x + Offset)
<1> DEFINE holding == {i \in DOMAIN d.rooms : Holds(d.rooms[i], x + Offset)}
<1>1. Len(d.rooms) \in Nat /\ DOMAIN d.rooms = 1..Len(d.rooms)
  BY DEF IsList
<1>2. Len(d.rooms) # 0
  <2> SUFFICES ASSUME Len(d.rooms) = 0 PROVE FALSE
    OBVIOUS
  <2>1. d.rooms = [i \in 1..0 |-> d.rooms[i]]
    BY DEF IsList
  <2>2. 1..0 = {}
    OBVIOUS
  <2> QED BY <2>1, <2>2
<1>3. CASE holding = {}
  BY <1>1, <1>2, <1>3 DEF RoomIndexAt
<1>4. CASE holding # {}
  <2>1. holding \in SUBSET Nat
    BY <1>1
  <2>2. PICK n \in holding : \A i \in holding : n <= i
    BY <2>1, <1>4, LeastNumber
  <2>3. RoomIndexAt(d, x) = CHOOSE i \in holding : \A j \in holding : i <= j
    BY <1>4 DEF RoomIndexAt
  <2>4. RoomIndexAt(d, x) \in holding
    BY <2>2, <2>3
  <2> QED BY <2>4
<1> QED BY <1>3, <1>4

(* Doors of a room have different ranks among its doors. *)
LEMMA RankRises ==
  ASSUME NEW d, NEW i \in Nat, NEW j \in Nat, i < j, RoomOfDoor(d, i) = RoomOfDoor(d, j)
  PROVE  Rank(d, i) \in Nat /\ Rank(d, j) \in Nat /\ Rank(d, i) < Rank(d, j)
<1> DEFINE cell(k) == RoomOfDoor(d, k)
           lower == {k \in 1..i : cell(k) = cell(i)}
           upper == {k \in 1..j : cell(k) = cell(j)}
<1> HIDE DEF cell
<1>1. cell(i) = cell(j)
  BY DEF cell
<1>2. IsFiniteSet(1..j)
  <2>1. 1 \in Int /\ j \in Int
    OBVIOUS
  <2> QED BY <2>1, FS_Interval, Zenon
<1>3. upper \in SUBSET (1..j) /\ lower \in SUBSET upper /\ j \in upper /\ j \notin lower
  <2>1. \A k \in 1..i : k \in 1..j /\ k # j
    OBVIOUS
  <2>2. j \in 1..j
    OBVIOUS
  <2> QED BY <1>1, <2>1, <2>2
<1>4. IsFiniteSet(upper) /\ IsFiniteSet(lower)
  BY <1>2, <1>3, FS_Subset
<1>5. lower \in SUBSET (upper \ {j}) /\ IsFiniteSet(upper \ {j})
      /\ Cardinality(upper \ {j}) = Cardinality(upper) - 1
  BY <1>3, <1>4, FS_RemoveElement
<1>6. Cardinality(lower) <= Cardinality(upper \ {j})
  BY <1>5, FS_Subset
<1>7. Cardinality(lower) \in Nat /\ Cardinality(upper) \in Nat
  BY <1>4, FS_CardinalityType
<1>8. Rank(d, i) = Cardinality(lower) /\ Rank(d, j) = Cardinality(upper)
  BY DEF Rank, cell
<1> QED BY <1>5, <1>6, <1>7, <1>8

(* The doors of a room, and how many they are. *)
LEMMA DoorsAreFinite ==
  ASSUME NEW d, IsList(d.doors), NEW r
  PROVE  /\ DOMAIN d.doors \in SUBSET Nat
         /\ IsFiniteSet(DoorsOf(d, r)) /\ DoorsOf(d, r) \in SUBSET (DOMAIN d.doors)
         /\ Cardinality(DoorsOf(d, r)) \in Nat
<1>1. Len(d.doors) \in Nat /\ DOMAIN d.doors = 1..Len(d.doors)
  BY DEF IsList
<1>2. IsFiniteSet(1..Len(d.doors)) /\ DoorsOf(d, r) \in SUBSET (1..Len(d.doors))
  BY <1>1, FS_Interval DEF DoorsOf
<1> QED BY <1>1, <1>2, FS_Subset, FS_CardinalityType

(* A door's rank is no more than there are doors in its room. *)
LEMMA RankIsBounded ==
  ASSUME NEW d, IsList(d.doors), NEW i \in DOMAIN d.doors
  PROVE  Rank(d, i) \in 1..Cardinality(DoorsOf(d, RoomOfDoor(d, i)))
<1> DEFINE those == DoorsOf(d, RoomOfDoor(d, i))
           lower == {k \in 1..i : RoomOfDoor(d, k) = RoomOfDoor(d, i)}
<1>1. Len(d.doors) \in Nat /\ DOMAIN d.doors = 1..Len(d.doors) /\ i \in 1..Len(d.doors)
  BY DEF IsList
<1>2. lower \in SUBSET those /\ i \in lower
  BY <1>1 DEF DoorsOf
<1>3. IsFiniteSet(those) /\ Cardinality(those) \in Nat
  BY DoorsAreFinite
<1>4. IsFiniteSet(lower) /\ Cardinality(lower) <= Cardinality(those)
  BY <1>2, <1>3, FS_Subset
<1>5. Cardinality(lower) \in Nat /\ Cardinality(lower) # 0
  BY <1>2, <1>4, FS_CardinalityType, FS_EmptySet
<1>6. Rank(d, i) = Cardinality(lower)
  BY DEF Rank
<1> HIDE DEF those, lower
<1>7. Rank(d, i) \in 1..Cardinality(those)
  BY <1>3, <1>4, <1>5, <1>6
<1> QED BY <1>7 DEF those

(* Every number up to a room's doors is the rank of one of them. *)
LEMMA EveryRankIsTaken ==
  ASSUME NEW d, IsList(d.doors), NEW r, NEW k \in 1..Cardinality(DoorsOf(d, r))
  PROVE  \E i \in DoorsOf(d, r) : Rank(d, i) = k
<1> DEFINE those == DoorsOf(d, r)
           c == Cardinality(those)
           f == [i \in those |-> Rank(d, i)]
<1>1. IsFiniteSet(those) /\ c \in Nat /\ those \in SUBSET (DOMAIN d.doors) /\ DOMAIN d.doors \in SUBSET Nat
  BY DoorsAreFinite
<1>2. \A i \in those : RoomOfDoor(d, i) = r
  BY DEF DoorsOf
<1>3. \A i \in those : Rank(d, i) \in 1..c
  BY <1>1, <1>2, RankIsBounded
<1>4. \A i, j \in those : Rank(d, i) = Rank(d, j) => i = j
  <2> SUFFICES ASSUME NEW i \in those, NEW j \in those, Rank(d, i) = Rank(d, j), i # j PROVE FALSE
    OBVIOUS
  <2>1. i \in Nat /\ j \in Nat /\ RoomOfDoor(d, i) = RoomOfDoor(d, j)
    BY <1>1, <1>2
  <2>2. i < j \/ j < i
    BY <2>1
  <2> QED BY <2>1, <2>2, RankRises
<1>5. IsFiniteSet(1..c) /\ Cardinality(1..c) = c
  BY <1>1, FS_Interval
<1> HIDE DEF those, c
<1>6. f \in Injection(those, 1..c)
  BY <1>3, <1>4 DEF Injection, IsInjective
<1>7. f \in Surjection(those, 1..c)
  <2>1. c = Cardinality(those)
    BY DEF c
  <2> HIDE DEF f
  <2> QED BY <1>5, <1>6, <2>1, FS_Injection
<1>8. k \in 1..c
  BY DEF c, those
<1>9. PICK i \in those : f[i] = k
  BY <1>7, <1>8 DEF Surjection
<1> QED BY <1>9 DEF those

(* A floor that validates: its lists are lists, its ids are apart, and it    *)
(* keeps within the capacities.                                              *)
LEMMA WhatValidates ==
  ASSUME NEW d, Validates(d)
  PROVE  /\ d.rooms # <<>> /\ CapacityPass(d)
         /\ \A k, l \in DOMAIN d.rooms : d.rooms[k].id = d.rooms[l].id => k = l
BY DEF Validates, RoomsPass, Unrepeated

(* The node of a door on the network is there, and its address is its room's *)
(* segment and its rank's.                                                   *)
LEMMA DoorNodeIs ==
  ASSUME NEW d, IsList(d.rooms), IsList(d.doors), Validates(d), NEW i \in Networked(d)
  PROVE  /\ i \in DOMAIN d.doors /\ RoomOfDoor(d, i) \in DOMAIN d.rooms
         /\ Rank(d, i) \in 1..Cardinality(DoorsOf(d, RoomOfDoor(d, i)))
         /\ DoorNode(d, i) =
              {[of |-> <<"door", i>>, id |-> <<"door", Lowered[d.doors[i].id]>>,
                segment |-> Automation(d.rooms[RoomOfDoor(d, i)].id), host |-> DoorHostBase + Rank(d, i)]}
<1>1. i \in DOMAIN d.doors
  BY DEF Networked
<1>2. RoomOfDoor(d, i) \in DOMAIN d.rooms
  BY EveryPlaceHasARoom, WhatValidates DEF RoomOfDoor
<1>3. Rank(d, i) \in 1..Cardinality(DoorsOf(d, RoomOfDoor(d, i)))
  BY <1>1, RankIsBounded
<1>4. Cardinality(DoorsOf(d, RoomOfDoor(d, i))) <= MaxDoorsPerRoom
  BY <1>2, WhatValidates DEF CapacityPass
<1>5. Cardinality(DoorsOf(d, RoomOfDoor(d, i))) \in Nat
  BY DoorsAreFinite
<1>6. ~(DoorHostBase + Rank(d, i) > MaxHost)
  BY <1>3, <1>4, <1>5, FloorPlanAssumption DEF MaxDoorsPerRoom
<1> QED BY <1>1, <1>2, <1>3, <1>6 DEF DoorNode, DoorHosted, Hosted

(* Every camera of a floor that validates has a node, at a host in range.    *)
LEMMA EveryCameraHasANode ==
  ASSUME NEW d, IsList(d.cameras), CapacityPass(d)
  PROVE  /\ Cardinality(CameraNodes(d)) = Len(d.cameras)
         /\ CameraNodes(d) =
              {[of |-> <<"cam", i>>, id |-> <<"cam", i>>, segment |-> Authored("security"),
                host |-> CameraHostBase + i - 1] : i \in DOMAIN d.cameras}
<1> DEFINE Eye(i) == [of |-> <<"cam", i>>, id |-> <<"cam", i>>, segment |-> Authored("security"),
                      host |-> CameraHostBase + i - 1]
           c == Len(d.cameras)
           nodes == {Eye(i) : i \in 1..c}
           f == [i \in 1..c |-> Eye(i)]
<1>1. c \in Nat /\ DOMAIN d.cameras = 1..c
  BY DEF IsList
<1>2. c <= MaxHost - CameraHostBase + 1
  BY DEF CapacityPass, MaxCameras
<1>3. \A i \in 1..c : Hosted(<<"cam", i>>, <<"cam", i>>, Authored("security"), CameraHostBase + i - 1) = {Eye(i)}
  <2> SUFFICES ASSUME NEW i \in 1..c
               PROVE  Hosted(<<"cam", i>>, <<"cam", i>>, Authored("security"), CameraHostBase + i - 1) = {Eye(i)}
    OBVIOUS
  <2>1. ~(CameraHostBase + i - 1 > MaxHost)
    BY <1>1, <1>2, FloorPlanAssumption
  <2> QED BY <2>1 DEF Hosted
<1>4. CameraNodes(d) = nodes
  <2> DEFINE Hosting(i) == Hosted(<<"cam", i>>, <<"cam", i>>, Authored("security"), CameraHostBase + i - 1)
  <2>1. CameraNodes(d) = UNION {Hosting(i) : i \in DOMAIN d.cameras}
    BY DEF CameraNodes
  <2>2. \A i \in 1..c : Hosting(i) = {Eye(i)}
    BY <1>3
  <2> HIDE DEF Hosting, Eye
  <2> QED BY <1>1, <2>1, <2>2
<1>5. \A i, j \in 1..c : Eye(i) = Eye(j) => i = j
  <2> SUFFICES ASSUME NEW i \in 1..c, NEW j \in 1..c, Eye(i) = Eye(j) PROVE i = j
    OBVIOUS
  <2>1. Eye(i).host = CameraHostBase + i - 1 /\ Eye(j).host = CameraHostBase + j - 1
    OBVIOUS
  <2>2. CameraHostBase + i - 1 = CameraHostBase + j - 1
    BY <2>1
  <2> QED BY <1>1, <2>2, FloorPlanAssumption
<1>6. f \in Bijection(1..c, nodes)
  <2> HIDE DEF Eye
  <2>1. f \in [1..c -> nodes]
    OBVIOUS
  <2>2. f \in Injection(1..c, nodes)
    BY <2>1, <1>5 DEF Injection, IsInjective
  <2>3. f \in Surjection(1..c, nodes)
    BY <2>1 DEF Surjection
  <2> QED BY <2>2, <2>3 DEF Bijection
<1>7. Cardinality(nodes) = c
  <2>1. IsFiniteSet(1..c) /\ Cardinality(1..c) = c
    <3>1. c \in Nat
      BY <1>1
    <3> HIDE DEF c
    <3>2. Cardinality(1..c) = (IF 1 > c THEN 0 ELSE c - 1 + 1) /\ IsFiniteSet(1..c)
      BY <3>1, FS_Interval
    <3> QED BY <3>1, <3>2
  <2>2. ExistsBijection(1..c, nodes)
    BY <1>6 DEF ExistsBijection
  <2> HIDE DEF nodes, c
  <2> QED BY <2>1, <2>2, FS_Bijection
<1> QED BY <1>1, <1>4, <1>7

(* The nodes of a floor that validates, kind by kind. *)
IsDoorOf(d, n) ==
  \E i \in Networked(d) :
    n = [of |-> <<"door", i>>, id |-> <<"door", Lowered[d.doors[i].id]>>,
         segment |-> Automation(d.rooms[RoomOfDoor(d, i)].id), host |-> DoorHostBase + Rank(d, i)]
IsLightOf(d, n) ==
  \E r \in RoomIds(d) \cap Segmented :
    n = [of |-> <<"light", r>>, id |-> <<"light", r>>, segment |-> Automation(r), host |-> LightHost]
IsCameraOf(d, n) ==
  \E i \in DOMAIN d.cameras :
    n = [of |-> <<"cam", i>>, id |-> <<"cam", i>>, segment |-> Authored("security"),
         host |-> CameraHostBase + i - 1]
IsVacuum(n) ==
  n = [of |-> <<"vac", 0>>, id |-> <<"vac", 0>>, segment |-> Automation("hall"), host |-> VacuumHost]

LEMMA NodesAre ==
  ASSUME NEW d, IsList(d.rooms), IsList(d.doors), IsList(d.cameras), Validates(d), NEW n
  PROVE  n \in FloorNodes(d) <=>
           n \in AuthoredNodes \/ IsDoorOf(d, n) \/ IsLightOf(d, n) \/ IsCameraOf(d, n) \/ IsVacuum(n)
<1>1. n \in DoorNodes(d) <=> IsDoorOf(d, n)
  <2>1. \A i \in DOMAIN d.doors : i \notin Networked(d) => DoorNode(d, i) = {}
    BY DEF DoorNode
  <2>2. Networked(d) \subseteq DOMAIN d.doors
    BY DEF Networked
  <2>3. n \in DoorNodes(d) <=> \E i \in Networked(d) : n \in DoorNode(d, i)
    BY <2>1, <2>2 DEF DoorNodes
  <2>4. ASSUME NEW i \in Networked(d)
        PROVE  n \in DoorNode(d, i) <=>
                 n = [of |-> <<"door", i>>, id |-> <<"door", Lowered[d.doors[i].id]>>,
                      segment |-> Automation(d.rooms[RoomOfDoor(d, i)].id), host |-> DoorHostBase + Rank(d, i)]
    BY DoorNodeIs
  <2> QED BY <2>3, <2>4 DEF IsDoorOf
<1>2. n \in LightNodes(d) <=> IsLightOf(d, n)
  <2>1. ~(LightHost > MaxHost)
    BY FloorPlanAssumption
  <2> QED BY <2>1 DEF LightNodes, Hosted, IsLightOf
<1>3. n \in CameraNodes(d) <=> IsCameraOf(d, n)
  BY WhatValidates, EveryCameraHasANode DEF IsCameraOf
<1>4. n \in VacuumNodes <=> IsVacuum(n)
  <2>1. ~(VacuumHost > MaxHost)
    BY FloorPlanAssumption
  <2> QED BY <2>1 DEF VacuumNodes, Hosted, IsVacuum
<1> QED BY <1>1, <1>2, <1>3, <1>4 DEF FloorNodes

(* The authored nodes are on segments of their own, each at its own address  *)
(* under its own name.                                                       *)
LEMMA AuthoredAreApart ==
  /\ \A n \in AuthoredNodes : /\ \E a : n.segment = Authored(a) /\ a # "security"
                              /\ \E a : n.id = Authored(a)
  /\ \A n, m \in AuthoredNodes : n.id = m.id \/ HostAddress(n) = HostAddress(m) => n = m
BY DEF AuthoredNodes, Authored, HostAddress

(* Two doors of a floor that validates have two addresses. *)
LEMMA DoorsAreApart ==
  ASSUME NEW d, IsList(d.rooms), IsList(d.doors), Validates(d),
         NEW i \in Networked(d), NEW j \in Networked(d),
         d.rooms[RoomOfDoor(d, i)].id = d.rooms[RoomOfDoor(d, j)].id, Rank(d, i) = Rank(d, j)
  PROVE  i = j
<1>1. RoomOfDoor(d, i) = RoomOfDoor(d, j)
  BY DoorNodeIs, WhatValidates
<1>2. i \in Nat /\ j \in Nat
  BY DoorNodeIs, DoorsAreFinite
<1> SUFFICES ASSUME i < j \/ j < i PROVE FALSE
  BY <1>2
<1> QED BY <1>1, <1>2, RankRises

(* Addresses are distinct where no room's doors come up to its lights. *)
LEMMA BelowTheLightsIsEnough ==
  ASSUME NEW d, IsList(d.rooms), IsList(d.doors), IsList(d.cameras), Validates(d), BelowTheLights(d)
  PROVE  AddressesApart(d)
<1> SUFFICES ASSUME NEW n \in FloorNodes(d), NEW m \in FloorNodes(d),
                    n.segment = m.segment, n.host = m.host
             PROVE  n = m
  BY DEF AddressesApart, HostAddress
<1>a. {DoorHostBase, CameraHostBase, LightHost, VacuumHost} \subseteq Nat /\ LightHost < VacuumHost
  BY FloorPlanAssumption
<1>b. \A i \in Networked(d) : Rank(d, i) \in Nat /\ DoorHostBase + Rank(d, i) < LightHost
  <2> SUFFICES ASSUME NEW i \in Networked(d)
               PROVE  Rank(d, i) \in Nat /\ DoorHostBase + Rank(d, i) < LightHost
    OBVIOUS
  <2>1. Cardinality(DoorsOf(d, RoomOfDoor(d, i))) < LightHost - DoorHostBase
    BY DoorNodeIs DEF BelowTheLights, Networked
  <2>2. Cardinality(DoorsOf(d, RoomOfDoor(d, i))) \in Nat
    BY DoorsAreFinite
  <2> QED BY <1>a, <2>1, <2>2, DoorNodeIs
<1>c. \A a, b : /\ Automation(a) # Authored(b)
                /\ Automation(a) = Automation(b) => a = b
                /\ Authored(a) = Authored(b) => a = b
  BY DEF Automation, Authored
<1> DEFINE OnAuto(x) == IsDoorOf(d, x) \/ IsLightOf(d, x) \/ IsVacuum(x)
           OnOther(x) == x \in AuthoredNodes \/ IsCameraOf(d, x)
<1>1. /\ OnAuto(n) \/ OnOther(n)
      /\ OnAuto(m) \/ OnOther(m)
  BY NodesAre
<1>2. ASSUME NEW x, OnAuto(x) PROVE \E a : x.segment = Automation(a)
  BY <1>2 DEF IsDoorOf, IsLightOf, IsVacuum
<1>3. ASSUME NEW x, OnOther(x) PROVE \E a : x.segment = Authored(a)
  BY <1>3, AuthoredAreApart DEF IsCameraOf
<1>4. (OnAuto(n) /\ OnAuto(m)) \/ (OnOther(n) /\ OnOther(m))
  BY <1>1, <1>2, <1>3, <1>c
<1>5. CASE OnOther(n) /\ OnOther(m)
  <2>1. CASE n \in AuthoredNodes /\ m \in AuthoredNodes
    BY <2>1, AuthoredAreApart DEF HostAddress
  <2>2. CASE IsCameraOf(d, n) /\ IsCameraOf(d, m)
    <3>1. PICK i \in DOMAIN d.cameras :
            n = [of |-> <<"cam", i>>, id |-> <<"cam", i>>, segment |-> Authored("security"),
                 host |-> CameraHostBase + i - 1]
      BY <2>2 DEF IsCameraOf
    <3>2. PICK j \in DOMAIN d.cameras :
            m = [of |-> <<"cam", j>>, id |-> <<"cam", j>>, segment |-> Authored("security"),
                 host |-> CameraHostBase + j - 1]
      BY <2>2 DEF IsCameraOf
    <3>3. i \in Nat /\ j \in Nat
      BY DEF IsList
    <3>4. CameraHostBase + i - 1 = CameraHostBase + j - 1
      BY <3>1, <3>2
    <3>5. i = j
      BY <1>a, <3>3, <3>4
    <3> QED BY <3>1, <3>2, <3>5
  <2>3. \A x : IsCameraOf(d, x) => x.segment = Authored("security")
    BY DEF IsCameraOf
  <2> QED BY <1>5, <1>c, <2>1, <2>2, <2>3, AuthoredAreApart
<1>6. CASE OnAuto(n) /\ OnAuto(m)
  <2>1. ASSUME NEW x, IsDoorOf(d, x) PROVE x.host \in Nat /\ x.host < LightHost
    <3>1. PICK i \in Networked(d) : x.host = DoorHostBase + Rank(d, i)
      BY <2>1 DEF IsDoorOf
    <3> QED BY <1>a, <1>b, <3>1
  <2>2. ASSUME NEW x PROVE (IsLightOf(d, x) => x.host = LightHost) /\ (IsVacuum(x) => x.host = VacuumHost)
    BY DEF IsLightOf, IsVacuum
  <2>3. \/ IsDoorOf(d, n) /\ IsDoorOf(d, m)
        \/ IsLightOf(d, n) /\ IsLightOf(d, m)
        \/ IsVacuum(n) /\ IsVacuum(m)
    <3>1. ~(IsDoorOf(d, n) /\ (IsLightOf(d, m) \/ IsVacuum(m))) /\ ~(IsDoorOf(d, m) /\ (IsLightOf(d, n) \/ IsVacuum(n)))
      BY <1>a, <2>1, <2>2
    <3>2. ~(IsLightOf(d, n) /\ IsVacuum(m)) /\ ~(IsLightOf(d, m) /\ IsVacuum(n))
      BY <1>a, <2>2
    <3> QED BY <1>6, <3>1, <3>2
  <2>4. CASE IsDoorOf(d, n) /\ IsDoorOf(d, m)
    <3>1. PICK i \in Networked(d) :
            n = [of |-> <<"door", i>>, id |-> <<"door", Lowered[d.doors[i].id]>>,
                 segment |-> Automation(d.rooms[RoomOfDoor(d, i)].id), host |-> DoorHostBase + Rank(d, i)]
      BY <2>4 DEF IsDoorOf
    <3>2. PICK j \in Networked(d) :
            m = [of |-> <<"door", j>>, id |-> <<"door", Lowered[d.doors[j].id]>>,
                 segment |-> Automation(d.rooms[RoomOfDoor(d, j)].id), host |-> DoorHostBase + Rank(d, j)]
      BY <2>4 DEF IsDoorOf
    <3>3. d.rooms[RoomOfDoor(d, i)].id = d.rooms[RoomOfDoor(d, j)].id
      <4>1. Automation(d.rooms[RoomOfDoor(d, i)].id) = Automation(d.rooms[RoomOfDoor(d, j)].id)
        BY <3>1, <3>2
      <4> QED BY <1>c, <4>1
    <3>4. DoorHostBase + Rank(d, i) = DoorHostBase + Rank(d, j)
      BY <3>1, <3>2
    <3>5. Rank(d, i) = Rank(d, j)
      BY <1>a, <1>b, <3>4
    <3>6. i = j
      BY <3>3, <3>5, DoorsAreApart
    <3> QED BY <3>1, <3>2, <3>6
  <2>5. CASE IsLightOf(d, n) /\ IsLightOf(d, m)
    <3>1. PICK r : n = [of |-> <<"light", r>>, id |-> <<"light", r>>, segment |-> Automation(r), host |-> LightHost]
      BY <2>5 DEF IsLightOf
    <3>2. PICK s : m = [of |-> <<"light", s>>, id |-> <<"light", s>>, segment |-> Automation(s), host |-> LightHost]
      BY <2>5 DEF IsLightOf
    <3>3. r = s
      BY <1>c, <3>1, <3>2
    <3> QED BY <3>1, <3>2, <3>3
  <2>6. CASE IsVacuum(n) /\ IsVacuum(m)
    BY <2>6 DEF IsVacuum
  <2> QED BY <2>3, <2>4, <2>5, <2>6
<1> QED BY <1>4, <1>5, <1>6

(* And only there: a room with more doors has one at its lights' address. *)
LEMMA BelowTheLightsIsNeeded ==
  ASSUME NEW d, IsList(d.rooms), IsList(d.doors), IsList(d.cameras), Validates(d), AddressesApart(d)
  PROVE  BelowTheLights(d)
<1> SUFFICES ASSUME NEW r \in DOMAIN d.rooms, d.rooms[r].id \in Segmented,
                    ~(Cardinality(DoorsOf(d, r)) < LightHost - DoorHostBase)
             PROVE  FALSE
  BY DEF BelowTheLights
<1> DEFINE k == LightHost - DoorHostBase
           light == [of |-> <<"light", d.rooms[r].id>>, id |-> <<"light", d.rooms[r].id>>,
                     segment |-> Automation(d.rooms[r].id), host |-> LightHost]
           door(i) == [of |-> <<"door", i>>, id |-> <<"door", Lowered[d.doors[i].id]>>,
                       segment |-> Automation(d.rooms[r].id), host |-> LightHost]
<1>1. k \in 1..Cardinality(DoorsOf(d, r)) /\ DoorHostBase + k = LightHost
  <2>1. Cardinality(DoorsOf(d, r)) \in Nat
    BY DoorsAreFinite
  <2> QED BY <2>1, FloorPlanAssumption
<1>2. PICK i \in DoorsOf(d, r) : Rank(d, i) = k
  BY <1>1, EveryRankIsTaken
<1>3. i \in Networked(d) /\ RoomOfDoor(d, i) = r
  BY DEF DoorsOf, Networked
<1>4. door(i) \in FloorNodes(d)
  <2>1. IsDoorOf(d, door(i))
    BY <1>1, <1>2, <1>3 DEF IsDoorOf
  <2> QED BY <2>1, NodesAre
<1>5. light \in FloorNodes(d)
  <2>1. d.rooms[r].id \in RoomIds(d) \cap Segmented
    BY DEF RoomIds, Field
  <2>2. IsLightOf(d, light)
    BY <2>1 DEF IsLightOf
  <2> QED BY <2>2, NodesAre
<1>6. HostAddress(door(i)) = HostAddress(light)
  BY DEF HostAddress
<1>7. door(i) = light
  BY <1>4, <1>5, <1>6 DEF AddressesApart
<1>8. <<"door", i>> = <<"light", d.rooms[r].id>>
  <2>1. door(i).of = <<"door", i>> /\ light.of = <<"light", d.rooms[r].id>>
    OBVIOUS
  <2> QED BY <1>7, <2>1
<1> QED BY <1>8

(* Names are distinct just when no two doors' ids differ only in case. *)
LEMMA NamesAreTheDoors ==
  ASSUME NEW d, IsList(d.rooms), IsList(d.doors), IsList(d.cameras), Validates(d)
  PROVE  NamesApart(d) <=> CaseApart(d)
<1> DEFINE door(i) == [of |-> <<"door", i>>, id |-> <<"door", Lowered[d.doors[i].id]>>,
                       segment |-> Automation(d.rooms[RoomOfDoor(d, i)].id), host |-> DoorHostBase + Rank(d, i)]
<1>1. ASSUME NamesApart(d), NEW i \in Networked(d), NEW j \in Networked(d),
             Lowered[d.doors[i].id] = Lowered[d.doors[j].id]
      PROVE  i = j
  <2>1. door(i) \in FloorNodes(d) /\ door(j) \in FloorNodes(d)
    <3>1. IsDoorOf(d, door(i)) /\ IsDoorOf(d, door(j))
      BY DEF IsDoorOf
    <3> QED BY <3>1, NodesAre
  <2>2. door(i) = door(j)
    <3>1. door(i).id = door(j).id
      BY <1>1
    <3> HIDE DEF door
    <3> QED BY <1>1, <2>1, <3>1 DEF NamesApart
  <2>3. <<"door", i>> = <<"door", j>>
    <3>1. door(i).of = <<"door", i>> /\ door(j).of = <<"door", j>>
      OBVIOUS
    <3> HIDE DEF door
    <3> QED BY <2>2, <3>1
  <2> QED BY <2>3
<1>2. ASSUME CaseApart(d), NEW n \in FloorNodes(d), NEW m \in FloorNodes(d), n.id = m.id PROVE n = m
  <2>1. \A x : /\ x \in AuthoredNodes => x.id[1] = "authored"
               /\ IsDoorOf(d, x) => x.id[1] = "door"
               /\ IsLightOf(d, x) => x.id[1] = "light"
               /\ IsCameraOf(d, x) => x.id[1] = "cam"
               /\ IsVacuum(x) => x.id[1] = "vac"
    BY AuthoredAreApart DEF Authored, IsDoorOf, IsLightOf, IsCameraOf, IsVacuum
  <2>2. \/ n \in AuthoredNodes /\ m \in AuthoredNodes
        \/ IsDoorOf(d, n) /\ IsDoorOf(d, m)
        \/ IsLightOf(d, n) /\ IsLightOf(d, m)
        \/ IsCameraOf(d, n) /\ IsCameraOf(d, m)
        \/ IsVacuum(n) /\ IsVacuum(m)
    <3>1. n.id[1] = m.id[1]
      BY <1>2
    <3> QED BY <2>1, <3>1, NodesAre
  <2>3. CASE n \in AuthoredNodes /\ m \in AuthoredNodes
    BY <1>2, <2>3, AuthoredAreApart
  <2>4. CASE IsDoorOf(d, n) /\ IsDoorOf(d, m)
    <3>1. PICK i \in Networked(d) : n = door(i)
      BY <2>4 DEF IsDoorOf
    <3>2. PICK j \in Networked(d) : m = door(j)
      BY <2>4 DEF IsDoorOf
    <3>3. Lowered[d.doors[i].id] = Lowered[d.doors[j].id]
      <4>1. <<"door", Lowered[d.doors[i].id]>> = <<"door", Lowered[d.doors[j].id]>>
        BY <1>2, <3>1, <3>2
      <4> QED BY <4>1
    <3>4. i = j
      BY <1>2, <3>3 DEF CaseApart
    <3> QED BY <3>1, <3>2, <3>4
  <2>5. CASE IsLightOf(d, n) /\ IsLightOf(d, m)
    <3>1. PICK r : n = [of |-> <<"light", r>>, id |-> <<"light", r>>, segment |-> Automation(r), host |-> LightHost]
      BY <2>5 DEF IsLightOf
    <3>2. PICK s : m = [of |-> <<"light", s>>, id |-> <<"light", s>>, segment |-> Automation(s), host |-> LightHost]
      BY <2>5 DEF IsLightOf
    <3>3. <<"light", r>> = <<"light", s>>
      BY <1>2, <3>1, <3>2
    <3> QED BY <3>1, <3>2, <3>3
  <2>6. CASE IsCameraOf(d, n) /\ IsCameraOf(d, m)
    <3>1. PICK i \in DOMAIN d.cameras :
            n = [of |-> <<"cam", i>>, id |-> <<"cam", i>>, segment |-> Authored("security"),
                 host |-> CameraHostBase + i - 1]
      BY <2>6 DEF IsCameraOf
    <3>2. PICK j \in DOMAIN d.cameras :
            m = [of |-> <<"cam", j>>, id |-> <<"cam", j>>, segment |-> Authored("security"),
                 host |-> CameraHostBase + j - 1]
      BY <2>6 DEF IsCameraOf
    <3>3. <<"cam", i>> = <<"cam", j>>
      BY <1>2, <3>1, <3>2
    <3> QED BY <3>1, <3>2, <3>3
  <2>7. CASE IsVacuum(n) /\ IsVacuum(m)
    BY <2>7 DEF IsVacuum
  <2> QED BY <2>2, <2>3, <2>4, <2>5, <2>6, <2>7
<1> QED BY <1>1, <1>2 DEF NamesApart, CaseApart

(* No room of the shipped scenario has more than one door. *)
LEMMA OneDoorARoom ==
  /\ IsList(GhostLobbyPlan.rooms) /\ IsList(GhostLobbyPlan.doors) /\ IsList(GhostLobbyPlan.cameras)
  /\ DOMAIN GhostLobbyPlan.rooms = 1..5
  /\ \A r \in 1..5 : Cardinality(DoorsOf(GhostLobbyPlan, r)) \in {0, 1}
<1> DEFINE d == GhostLobbyPlan
<1>1. d.rooms = LobbyCells /\ d.doors = LobbyDoorways /\ d.cameras = LobbyCameras
  BY DEF GhostLobbyPlan
<1> HIDE DEF d
<1>2. /\ DOMAIN LobbyCells = 1..5 /\ Len(LobbyCells) = 5
      /\ LobbyCells[1] = [id |-> "kitchen", x |-> 20, w |-> 250, supported |-> TRUE]
      /\ LobbyCells[2] = [id |-> "hall", x |-> 270, w |-> 240, supported |-> TRUE]
      /\ LobbyCells[3] = [id |-> "office", x |-> 510, w |-> 285, supported |-> TRUE]
      /\ LobbyCells[4] = [id |-> "laundry", x |-> 795, w |-> 245, supported |-> TRUE]
      /\ LobbyCells[5] = [id |-> "exit", x |-> 1040, w |-> 220, supported |-> TRUE]
  BY DEF LobbyCells
<1>3. /\ DOMAIN LobbyDoorways = 1..4
      /\ LobbyDoorways[1] = [id |-> "D1", x |-> 270] /\ LobbyDoorways[2] = [id |-> "D2", x |-> 510]
      /\ LobbyDoorways[3] = [id |-> "D3", x |-> 795] /\ LobbyDoorways[4] = [id |-> "D4", x |-> 1040]
  BY DEF LobbyDoorways
<1>4. IsList(LobbyCells) /\ IsList(LobbyDoorways) /\ IsList(LobbyCameras)
  <2>1. LobbyCells = [i \in 1..5 |-> LobbyCells[i]] /\ Len(LobbyCells) = 5
    BY DEF LobbyCells
  <2>2. LobbyDoorways = [i \in 1..4 |-> LobbyDoorways[i]] /\ Len(LobbyDoorways) = 4
    BY DEF LobbyDoorways
  <2>3. LobbyCameras = [i \in 1..3 |-> LobbyCameras[i]] /\ Len(LobbyCameras) = 3
    BY DEF LobbyCameras
  <2> QED BY <2>1, <2>2, <2>3 DEF IsList
<1>5. ASSUME NEW r \in 1..5 PROVE Cardinality(DoorsOf(d, r)) \in {0, 1}
  <2> DEFINE those == {i \in 1..4 : RoomIndexAt(d, LobbyDoorways[i].x) = r}
  <2>1. \A i \in 1..4 : Holds(LobbyCells[i + 1], LobbyDoorways[i].x + Offset)
    BY <1>2, <1>3, FloorPlanAssumption DEF Holds, Right
  <2>2. \A i \in 1..4 : Holds(d.rooms[RoomIndexAt(d, LobbyDoorways[i].x)], LobbyDoorways[i].x + Offset)
    <3>1. IsList(d.rooms) /\ d.rooms # <<>>
      <4>1. Len(<<>>) # Len(LobbyCells)
        BY <1>2
      <4> QED BY <1>1, <1>4, <4>1
    <3> SUFFICES ASSUME NEW i \in 1..4
                 PROVE  Holds(d.rooms[RoomIndexAt(d, LobbyDoorways[i].x)], LobbyDoorways[i].x + Offset)
      OBVIOUS
    <3> DEFINE x == LobbyDoorways[i].x
    <3>2. i + 1 \in DOMAIN d.rooms /\ d.rooms[i + 1] = LobbyCells[i + 1]
      BY <1>1, <1>2
    <3>3. Holds(d.rooms[i + 1], x + Offset)
      BY <2>1, <3>2
    <3> HIDE DEF x
    <3>4. Holds(d.rooms[RoomIndexAt(d, x)], x + Offset)
      BY <3>1, <3>2, <3>3, EveryPlaceHasARoom
    <3> QED BY <3>4 DEF x
  <2>3. /\ Holds(LobbyCells[r], 270 + Offset) => r = 2
        /\ Holds(LobbyCells[r], 510 + Offset) => r = 3
        /\ Holds(LobbyCells[r], 795 + Offset) => r = 4
        /\ Holds(LobbyCells[r], 1040 + Offset) => r = 5
    BY <1>2, FloorPlanAssumption DEF Holds, Right
  <2>4. \A i \in those : Holds(LobbyCells[r], LobbyDoorways[i].x + Offset)
    BY <1>1, <2>2
  <2>5. \A i \in those : i = r - 1
    BY <1>3, <2>3, <2>4
  <2>6. those = {} \/ \E i : those = {i}
    <3> HIDE DEF those
    <3>1. those = {} \/ those = {r - 1}
      BY <2>5
    <3> QED BY <3>1
  <2>7. Cardinality(those) \in {0, 1}
    <3>1. CASE those = {}
      BY <3>1, FS_EmptySet
    <3>2. ASSUME NEW i, those = {i} PROVE Cardinality(those) = 1
      BY <3>2, FS_Singleton
    <3> QED BY <2>6, <3>1, <3>2
  <2>8. DoorsOf(d, r) = those
    BY <1>1, <1>3 DEF DoorsOf, RoomOfDoor
  <2> QED BY <2>7, <2>8
<1> QED BY <1>1, <1>2, <1>4, <1>5 DEF d

(* The shipped scenario passes its own checks. *)
LEMMA ShippedFloorValidates == Validates(GhostLobbyPlan)
<1> DEFINE d == GhostLobbyPlan
<1>1. /\ d.rooms = LobbyCells /\ d.doors = LobbyDoorways /\ d.cameras = LobbyCameras
      /\ d.hides = LobbyHides /\ d.consoles = <<>> /\ d.signal = None
      /\ d.objectives = LobbyObjectives /\ d.player = 72 /\ d.note = 92 /\ d.usb = 622
      /\ d.difficulty = LobbyArrivals /\ d.actions = LobbyActions
  BY DEF GhostLobbyPlan
<1> HIDE DEF d
<1>2. /\ DOMAIN LobbyCells = 1..5 /\ Len(LobbyCells) = 5
      /\ LobbyCells[1] = [id |-> "kitchen", x |-> 20, w |-> 250, supported |-> TRUE]
      /\ LobbyCells[2] = [id |-> "hall", x |-> 270, w |-> 240, supported |-> TRUE]
      /\ LobbyCells[3] = [id |-> "office", x |-> 510, w |-> 285, supported |-> TRUE]
      /\ LobbyCells[4] = [id |-> "laundry", x |-> 795, w |-> 245, supported |-> TRUE]
      /\ LobbyCells[5] = [id |-> "exit", x |-> 1040, w |-> 220, supported |-> TRUE]
  BY DEF LobbyCells
<1>3. /\ DOMAIN LobbyDoorways = 1..4
      /\ LobbyDoorways[1] = [id |-> "D1", x |-> 270] /\ LobbyDoorways[2] = [id |-> "D2", x |-> 510]
      /\ LobbyDoorways[3] = [id |-> "D3", x |-> 795] /\ LobbyDoorways[4] = [id |-> "D4", x |-> 1040]
  BY DEF LobbyDoorways
<1>4. /\ DOMAIN LobbyCameras = 1..3 /\ Len(LobbyCameras) = 3
      /\ LobbyCameras[1] = [room |-> "hall", lo |-> 292, hi |-> 495]
      /\ LobbyCameras[2] = [room |-> "office", lo |-> 530, hi |-> 782]
      /\ LobbyCameras[3] = [room |-> "laundry", lo |-> 812, hi |-> 1015]
  BY DEF LobbyCameras
<1>5. /\ DOMAIN LobbyObjectives = 1..3
      /\ LobbyObjectives[1] = [kind |-> "Note", room |-> "kitchen"]
      /\ LobbyObjectives[2] = [kind |-> "Misdirect", room |-> "office"]
      /\ LobbyObjectives[3] = [kind |-> "Exit", room |-> "exit"]
  BY DEF LobbyObjectives
<1>6. RoomIds(d) = {LobbyCells[i].id : i \in 1..5}
  BY <1>1, <1>2 DEF RoomIds, Field
<1>7. {"kitchen", "hall", "office", "laundry", "exit"} \subseteq RoomIds(d)
  BY <1>2, <1>6
<1>8. RoomsPass(d)
  <2>1. LobbyCells # <<>>
    <3>1. Len(<<>>) # Len(LobbyCells)
      BY <1>2
    <3> QED BY <3>1
  <2>2. \A i, j \in 1..5 : LobbyCells[i].id = LobbyCells[j].id => i = j
    BY <1>2
  <2>3. \A i \in 1..4 : LobbyCells[i].x + LobbyCells[i].w = LobbyCells[i + 1].x
    BY <1>2
  <2>4. \A i \in 1..5 : LobbyCells[i].supported
    BY <1>2
  <2> QED BY <1>1, <1>2, <2>1, <2>2, <2>3, <2>4 DEF RoomsPass, Unrepeated, Right
<1>9. ReferencesPass(d)
  <2>1. DOMAIN LobbyHides = 1..5 /\ \A i \in 1..5 : LobbyHides[i].room = LobbyCells[i].id
    BY <1>2 DEF LobbyHides
  <2>2. Field(d.hides, "room") \subseteq RoomIds(d)
    BY <1>1, <1>6, <2>1 DEF Field
  <2>3. Field(d.cameras, "room") \subseteq RoomIds(d)
    BY <1>1, <1>4, <1>7 DEF Field
  <2>4. \A i \in DOMAIN d.cameras : d.cameras[i].lo < d.cameras[i].hi
    BY <1>1, <1>4
  <2>5. Field(d.objectives, "room") \subseteq RoomIds(d) \cup {None}
    BY <1>1, <1>5, <1>7 DEF Field
  <2>6. DOMAIN d.consoles = {}
    BY <1>1
  <2> QED BY <2>2, <2>3, <2>4, <2>5, <2>6 DEF ReferencesPass
<1>10. PlacesPass(d)
  <2>1. \A i \in 1..4 : LobbyDoorways[i].x = LobbyCells[i + 1].x
    BY <1>2, <1>3
  <2>2. \A i \in DOMAIN d.doors : OnBoundary(d, d.doors[i].x)
    <3> SUFFICES ASSUME NEW i \in 1..4 PROVE OnBoundary(d, LobbyDoorways[i].x)
      BY <1>1, <1>3
    <3>1. i + 1 \in DOMAIN d.rooms /\ LobbyDoorways[i].x = d.rooms[i + 1].x
      BY <1>1, <1>2, <2>1
    <3> QED BY <3>1 DEF OnBoundary
  <2>3. Unrepeated(d.doors, "id")
    BY <1>1, <1>3 DEF Unrepeated
  <2>4. \A x \in {d.player, d.note, d.usb} : InWorld(d, x)
    <3>1. 1 \in DOMAIN d.rooms /\ 5 \in DOMAIN d.rooms /\ d.rooms[1].x = 20 /\ Right(d.rooms[5]) = 1260
      BY <1>1, <1>2 DEF Right
    <3>2. \A x \in {72, 92, 622} : InWorld(d, x)
      BY <3>1 DEF InWorld
    <3> QED BY <1>1, <3>2
  <2> QED BY <2>2, <2>3, <2>4 DEF PlacesPass
<1>11. TablesPass(d)
  <2>1. DOMAIN LobbyArrivals = DifficultyIds
    BY DEF LobbyArrivals
  <2>2. \A k \in DifficultyIds : LobbyArrivals[k][1] <= LobbyArrivals[k][2]
    BY DEF LobbyArrivals, DifficultyIds
  <2>3. \A a \in LobbyActions : a.cost >= 0 /\ a.cooldown >= 0
    BY DEF LobbyActions
  <2>4. "Exit" \in Field(d.objectives, "kind")
    BY <1>1, <1>5 DEF Field
  <2> QED BY <1>1, <2>1, <2>2, <2>3, <2>4 DEF TablesPass
<1>12. CapacityPass(d)
  <2>1. \A r \in 1..5 : Cardinality(DoorsOf(d, r)) \in {0, 1}
    BY OneDoorARoom DEF d
  <2>2. 3 <= MaxCameras
    BY FloorPlanAssumption DEF MaxCameras
  <2>3. MaxDoorsPerRoom \in Int /\ MaxDoorsPerRoom >= 1
    BY FloorPlanAssumption DEF MaxDoorsPerRoom
  <2>4. \A r \in 1..5 : Cardinality(DoorsOf(d, r)) <= MaxDoorsPerRoom
    BY <2>1, <2>3
  <2>5. Len(d.cameras) <= MaxCameras /\ DOMAIN d.rooms = 1..5
    BY <1>1, <1>2, <1>4, <2>2
  <2> QED BY <2>4, <2>5 DEF CapacityPass
<1>13. SignalPass(d)
  BY <1>1 DEF SignalPass
<1> QED BY <1>8, <1>9, <1>10, <1>11, <1>12, <1>13 DEF d, Validates

(* So its nodes have names and addresses of their own. *)
LEMMA ShippedFloorIsApart == AddressesApart(GhostLobbyPlan) /\ NamesApart(GhostLobbyPlan)
<1>1. /\ IsList(GhostLobbyPlan.rooms) /\ IsList(GhostLobbyPlan.doors) /\ IsList(GhostLobbyPlan.cameras)
      /\ Validates(GhostLobbyPlan)
  BY OneDoorARoom, ShippedFloorValidates
<1>2. BelowTheLights(GhostLobbyPlan)
  <2>1. LightHost - DoorHostBase \in Int /\ 1 < LightHost - DoorHostBase
    BY FloorPlanAssumption
  <2> QED BY <2>1, OneDoorARoom DEF BelowTheLights
<1>3. CaseApart(GhostLobbyPlan)
  <2>1. /\ DOMAIN GhostLobbyPlan.doors = 1..4
        /\ GhostLobbyPlan.doors[1].id = "D1" /\ GhostLobbyPlan.doors[2].id = "D2"
        /\ GhostLobbyPlan.doors[3].id = "D3" /\ GhostLobbyPlan.doors[4].id = "D4"
    BY DEF GhostLobbyPlan, LobbyDoorways
  <2>2. Networked(GhostLobbyPlan) \subseteq 1..4
    BY <2>1 DEF Networked
  <2>3. \A a, b \in {"D1", "D2", "D3", "D4"} : Lowered[a] = Lowered[b] => a = b
    BY FloorPlanAssumption
  <2>4. ASSUME NEW i \in 1..4, NEW j \in 1..4,
               Lowered[GhostLobbyPlan.doors[i].id] = Lowered[GhostLobbyPlan.doors[j].id]
        PROVE  i = j
    <3> DEFINE name(k) == GhostLobbyPlan.doors[k].id
    <3>1. \A k \in 1..4 : name(k) \in {"D1", "D2", "D3", "D4"}
      BY <2>1
    <3>2. \A k, l \in 1..4 : name(k) = name(l) => k = l
      BY <2>1
    <3> HIDE DEF name
    <3>3. name(i) = name(j)
      BY <2>3, <2>4, <3>1 DEF name
    <3> QED BY <3>2, <3>3
  <2> QED BY <2>2, <2>4 DEF CaseApart
<1> QED BY <1>1, <1>2, <1>3, BelowTheLightsIsEnough, NamesAreTheDoors

(* On every floor that validates, for any definitions, address bases and      *)
(* way of lowering a case, each door on the network and each camera has a      *)
(* node; addresses are distinct exactly where no room's doors come up to its   *)
(* lights' host, and names exactly where no door ids differ only in case; the  *)
(* shipped floor validates and both hold of it.                               *)
THEOREM FloorWired == PlanSpec => []FloorIsWired
<1>1. PlanInit => FloorIsWired
  <2> SUFFICES ASSUME PlanInit PROVE FloorIsWired
    OBVIOUS
  <2>1. IsList(plan.rooms) /\ IsList(plan.doors) /\ IsList(plan.cameras) /\ Validates(plan)
    BY FloorPlanAssumption DEF PlanInit
  <2>2. \A i \in Networked(plan) : DoorNode(plan, i) # {}
    BY <2>1, DoorNodeIs
  <2>3. Cardinality(CameraNodes(plan)) = Len(plan.cameras)
    BY <2>1, WhatValidates, EveryCameraHasANode
  <2>4. AddressesApart(plan) <=> BelowTheLights(plan)
    BY <2>1, BelowTheLightsIsEnough, BelowTheLightsIsNeeded
  <2>5. NamesApart(plan) <=> CaseApart(plan)
    BY <2>1, NamesAreTheDoors
  <2> QED BY <2>2, <2>3, <2>4, <2>5, ShippedFloorValidates, ShippedFloorIsApart DEF FloorIsWired
<1>2. FloorIsWired /\ [FALSE]_plan => FloorIsWired'
  BY DEF FloorIsWired
<1> QED BY <1>1, <1>2, PTL DEF PlanSpec

-------------------------------------------------------------------------------
(* The supervisor. *)

-------------------------------------------------------------------------------
(* The supervisor: sums of masses over finite sets, whatever order they are   *)
(* taken in.                                                                *)

(* What holds first and goes on holding holds of every number. *)
LEMMA ClimbFrom ==
  ASSUME NEW B, 0 \in B, \A k \in Nat : k \in B => k + 1 \in B
  PROVE  \A n \in Nat : n \in B
<1> DEFINE D == {k \in Nat : k \notin B}
<1>1. D = {}
  <2> SUFFICES ASSUME D # {} PROVE FALSE
    OBVIOUS
  <2>1. PICK k \in D : \A i \in D : k <= i
    <3>1. D \in SUBSET Nat
      OBVIOUS
    <3> HIDE DEF D
    <3> QED BY <3>1, LeastNumber
  <2>2. PICK m \in Nat : k = m + 1
    BY <2>1, Before
  <2>3. m \notin D
    BY <2>1, <2>2
  <2> QED BY <2>1, <2>2, <2>3
<1> QED BY <1>1

(* The element taken from a set, and a sum that takes them one after another. *)
Pick(s) == CHOOSE x \in s : TRUE
Summing(g, w, T) == g = [s \in T |-> IF s = {} THEN 0 ELSE w[Pick(s)] + g[s \ {Pick(s)}]]

(* Whatever is picked from a set that is not empty is in it.                 *)
LEMMA PickIsIn == \A s : s # {} => Pick(s) \in s
  BY DEF Pick

(* A set without one of its elements is one smaller. *)
LEMMA WithoutOne ==
  ASSUME NEW S, IsFiniteSet(S)
  PROVE  \A s \in SUBSET S : \A x \in s :
           /\ s \ {x} \in SUBSET S
           /\ Cardinality(s) \in Nat /\ Cardinality(s \ {x}) \in Nat
           /\ Cardinality(s) = Cardinality(s \ {x}) + 1
<1> SUFFICES ASSUME NEW s \in SUBSET S, NEW x \in s
             PROVE  /\ Cardinality(s) \in Nat /\ Cardinality(s \ {x}) \in Nat
                    /\ Cardinality(s) = Cardinality(s \ {x}) + 1
  OBVIOUS
<1>1. IsFiniteSet(s)
  BY FS_Subset
<1>2. Cardinality(s) \in Nat /\ IsFiniteSet(s \ {x}) /\ Cardinality(s \ {x}) = Cardinality(s) - 1
  BY <1>1, FS_RemoveElement, FS_CardinalityType
<1>3. Cardinality(s \ {x}) \in Nat
  BY <1>2, FS_CardinalityType
<1> QED BY <1>1, <1>2, <1>3

(* The sum over a finite set exists. *)
LEMMA SumExists ==
  ASSUME NEW S, IsFiniteSet(S), NEW w, \A x \in S : w[x] \in Int
  PROVE  \E g \in [SUBSET S -> Int] : Summing(g, w, SUBSET S)
<1> DEFINE Upto(k) == {s \in SUBSET S : Cardinality(s) <= k}
           B == {k \in Nat : \E g \in [Upto(k) -> Int] : Summing(g, w, Upto(k))}
<1>1. \A s \in SUBSET S : IsFiniteSet(s) /\ Cardinality(s) \in Nat
  BY FS_Subset, FS_CardinalityType
<1>2. 0 \in B
  <2>1. \A s \in Upto(0) : s = {}
    BY <1>1, FS_EmptySet
  <2> DEFINE g == [s \in Upto(0) |-> 0]
  <2>2. g \in [Upto(0) -> Int] /\ Summing(g, w, Upto(0))
    BY <2>1 DEF Summing
  <2> QED BY <2>2
<1>3. ASSUME NEW k \in Nat, k \in B PROVE k + 1 \in B
  <2>1. PICK g \in [Upto(k) -> Int] : Summing(g, w, Upto(k))
    BY <1>3
  <2> DEFINE h == [s \in Upto(k + 1) |-> IF s = {} THEN 0 ELSE w[Pick(s)] + g[s \ {Pick(s)}]]
  <2>2. ASSUME NEW s \in Upto(k + 1), s # {}
        PROVE  /\ Pick(s) \in S /\ s \ {Pick(s)} \in Upto(k) /\ s \ {Pick(s)} \in Upto(k + 1)
               /\ w[Pick(s)] + g[s \ {Pick(s)}] \in Int
    <3>1. Pick(s) \in s
      BY <2>2, PickIsIn
    <3>2. /\ s \ {Pick(s)} \in SUBSET S
          /\ Cardinality(s \ {Pick(s)}) \in Nat
          /\ Cardinality(s) \in Nat
          /\ Cardinality(s) = Cardinality(s \ {Pick(s)}) + 1
      <4>1. s \in SUBSET S
        OBVIOUS
      <4> QED BY <3>1, <4>1, WithoutOne
    <3>3. s \ {Pick(s)} \in Upto(k) /\ s \ {Pick(s)} \in Upto(k + 1)
      BY <2>2, <3>2
    <3> QED BY <2>1, <3>1, <3>3
  <2>3. h \in [Upto(k + 1) -> Int]
    BY <2>2
  <2>4. ASSUME NEW s \in Upto(k) PROVE h[s] = g[s]
    <3>1. s \in Upto(k + 1)
      BY <1>1
    <3>2. g[s] = IF s = {} THEN 0 ELSE w[Pick(s)] + g[s \ {Pick(s)}]
      BY <2>1 DEF Summing
    <3> QED BY <3>1, <3>2
  <2>5. Summing(h, w, Upto(k + 1))
    <3>1. \A s \in Upto(k + 1) : s # {} => h[s \ {Pick(s)}] = g[s \ {Pick(s)}]
      BY <2>2, <2>4
    <3> DEFINE U == Upto(k + 1)
               v == [s \in U |-> IF s = {} THEN 0 ELSE w[Pick(s)] + h[s \ {Pick(s)}]]
    <3>2. \A s \in U : h[s] = v[s]
      BY <3>1
    <3>3. h = v
      <4>1. h = [s \in U |-> h[s]] /\ v = [s \in U |-> v[s]]
        OBVIOUS
      <4> QED BY <3>2, <4>1
    <3> QED BY <3>3 DEF Summing
  <2> HIDE DEF h, Upto
  <2> QED BY <2>3, <2>5
<1>4. Cardinality(S) \in B
  <2>1. Cardinality(S) \in Nat
    BY <1>1
  <2> HIDE DEF B
  <2> QED BY <1>2, <1>3, <2>1, ClimbFrom
<1>5. Upto(Cardinality(S)) = SUBSET S
  BY FS_Subset
<1> QED BY <1>4, <1>5

(* And does not depend on the sets around it. *)
LEMMA SumUnique ==
  ASSUME NEW S, IsFiniteSet(S), NEW w, NEW T \in SUBSET S, NEW f, NEW g,
         Summing(f, w, SUBSET S), Summing(g, w, SUBSET T)
  PROVE  f[T] = g[T]
<1> DEFINE B == {k \in Nat : \A s \in SUBSET T : Cardinality(s) = k => f[s] = g[s]}
<1>1. \A s \in SUBSET T : IsFiniteSet(s) /\ Cardinality(s) \in Nat /\ s \in SUBSET S
  BY FS_Subset, FS_CardinalityType
<1>2. 0 \in B
  <2>1. \A s \in SUBSET T : Cardinality(s) = 0 => s = {}
    BY <1>1, FS_EmptySet
  <2> QED BY <1>1, <2>1 DEF Summing
<1>3. ASSUME NEW k \in Nat, k \in B PROVE k + 1 \in B
  <2> SUFFICES ASSUME NEW s \in SUBSET T, Cardinality(s) = k + 1 PROVE f[s] = g[s]
    OBVIOUS
  <2>1. s # {}
    <3>1. Cardinality({}) = 0 /\ Cardinality(s) # 0
      BY FS_EmptySet
    <3> QED BY <3>1, Zenon
  <2>2. Pick(s) \in s
    BY <2>1, PickIsIn
  <2>3. s \ {Pick(s)} \in SUBSET T /\ Cardinality(s \ {Pick(s)}) = k
    <3>1. IsFiniteSet(T)
      BY <1>1
    <3>2. \A t \in SUBSET T : \A x \in t :
            Cardinality(t \ {x}) \in Nat /\ Cardinality(t) = Cardinality(t \ {x}) + 1
      BY <3>1, WithoutOne
    <3>3. Cardinality(s \ {Pick(s)}) \in Nat /\ Cardinality(s) = Cardinality(s \ {Pick(s)}) + 1
      BY <2>2, <3>2
    <3> QED BY <3>3
  <2>4. f[s \ {Pick(s)}] = g[s \ {Pick(s)}]
    BY <1>3, <2>3
  <2> QED BY <1>1, <2>1, <2>4 DEF Summing
<1>4. \A k \in Nat : k \in B
  <2> HIDE DEF B
  <2> QED BY <1>2, <1>3, ClimbFrom
<1> QED BY <1>1, <1>4

(* So a sum is one number and the sum of the rest, from the element taken. *)
LEMMA SumTakesPick ==
  ASSUME NEW S, IsFiniteSet(S), NEW w, \A x \in S : w[x] \in Int
  PROVE  /\ SumOver(w, S) \in Int
         /\ S = {} => SumOver(w, S) = 0
         /\ S # {} => SumOver(w, S) = w[Pick(S)] + SumOver(w, S \ {Pick(S)})
<1>1. ASSUME NEW T \in SUBSET S
      PROVE  \E g \in [SUBSET T -> Int] : Summing(g, w, SUBSET T) /\ SumOver(w, T) = g[T]
  <2>1. SumOver(w, T) = (CHOOSE g : Summing(g, w, SUBSET T))[T]
    BY DEF SumOver, MapThenSumSet, MapThenFoldSet, Summing, Pick
  <2>2. IsFiniteSet(T)
    BY FS_Subset
  <2>3. PICK g \in [SUBSET T -> Int] : Summing(g, w, SUBSET T)
    BY <2>2, SumExists
  <2>4. PICK f : Summing(f, w, SUBSET T) /\ SumOver(w, T) = f[T]
    BY <2>1, <2>3
  <2>5. f[T] = g[T]
    BY <2>2, <2>3, <2>4, SumUnique
  <2> QED BY <2>3, <2>4, <2>5
<1>2. PICK g \in [SUBSET S -> Int] : Summing(g, w, SUBSET S) /\ SumOver(w, S) = g[S]
  BY <1>1
<1>3. SumOver(w, S) \in Int /\ (S = {} => SumOver(w, S) = 0)
  BY <1>2 DEF Summing
<1>4. ASSUME S # {} PROVE SumOver(w, S) = w[Pick(S)] + SumOver(w, S \ {Pick(S)})
  <2> DEFINE T == S \ {Pick(S)}
  <2>1. T \in SUBSET S
    OBVIOUS
  <2>2. PICK h \in [SUBSET T -> Int] : Summing(h, w, SUBSET T) /\ SumOver(w, T) = h[T]
    BY <1>1, <2>1
  <2>3. g[T] = h[T]
    <3> HIDE DEF T
    <3> QED BY <1>2, <2>1, <2>2, SumUnique
  <2>4. g[S] = w[Pick(S)] + g[T]
    BY <1>2, <1>4 DEF Summing
  <2> QED BY <1>2, <2>2, <2>3, <2>4
<1> QED BY <1>3, <1>4

(* From any element. *)
LEMMA SumTakes ==
  ASSUME NEW S, IsFiniteSet(S), NEW w, \A x \in S : w[x] \in Int, NEW x \in S
  PROVE  SumOver(w, S) = w[x] + SumOver(w, S \ {x})
<1> DEFINE Same(T, y) == SumOver(w, T) = w[y] + SumOver(w, T \ {y})
           B == {k \in Nat : \A T \in SUBSET S : Cardinality(T) = k => \A y \in T : Same(T, y)}
<1>1. ASSUME NEW T \in SUBSET S
      PROVE  /\ IsFiniteSet(T) /\ Cardinality(T) \in Nat /\ SumOver(w, T) \in Int
             /\ T # {} => Pick(T) \in T /\ Same(T, Pick(T))
  <2>1. IsFiniteSet(T) /\ \A y \in T : w[y] \in Int
    BY FS_Subset
  <2> QED BY <2>1, FS_CardinalityType, SumTakesPick, PickIsIn
<1>2. 0 \in B
  <2>1. \A T \in SUBSET S : Cardinality(T) = 0 => T = {}
    BY <1>1, FS_EmptySet
  <2> QED BY <2>1
<1>3. ASSUME NEW k \in Nat, k \in B PROVE k + 1 \in B
  <2> SUFFICES ASSUME NEW T \in SUBSET S, Cardinality(T) = k + 1, NEW y \in T PROVE Same(T, y)
    OBVIOUS
  <2>1. PICK z \in T : Same(T, z)
    BY <1>1
  <2>2. CASE y = z
    BY <2>1, <2>2
  <2>3. CASE y # z
    <3> DEFINE U == T \ {z}
               V == T \ {y}
    <3>1. /\ U \in SUBSET S /\ V \in SUBSET S /\ Cardinality(U) = k /\ Cardinality(V) = k
      BY <1>1, WithoutOne
    <3>2. y \in U /\ z \in V /\ U \ {y} = V \ {z} /\ U \ {y} \in SUBSET S
      BY <2>3
    <3> HIDE DEF U, V
    <3>3. Same(U, y) /\ Same(V, z)
      BY <1>3, <3>1, <3>2
    <3>4. SumOver(w, T) = w[z] + SumOver(w, U)
      BY <2>1 DEF U
    <3>5. SumOver(w, U \ {y}) = SumOver(w, V \ {z})
      BY <3>2, Zenon
    <3>6. SumOver(w, U \ {y}) \in Int /\ w[y] \in Int /\ w[z] \in Int
      BY <1>1, <3>2
    <3>7. SumOver(w, T) = w[y] + SumOver(w, V)
      BY <3>3, <3>4, <3>5, <3>6
    <3> QED BY <3>7 DEF V
  <2> QED BY <2>2, <2>3
<1>4. \A k \in Nat : k \in B
  <2> HIDE DEF B
  <2> QED BY <1>2, <1>3, ClimbFrom
<1>5. S \in SUBSET S /\ Cardinality(S) \in B
  BY <1>1, <1>4
<1> QED BY <1>5

(* A property of sets that a first element and each further one keep holds of *)
(* every finite set.                                                        *)
LEMMA SetClimb ==
  ASSUME NEW S, IsFiniteSet(S), NEW B, {} \in B,
         \A T \in SUBSET S : \A x \in S \ T : T \in B => T \cup {x} \in B
  PROVE  S \in B
<1> DEFINE K == {k \in Nat : \A T \in SUBSET S : Cardinality(T) = k => T \in B}
<1>1. \A T \in SUBSET S : IsFiniteSet(T) /\ Cardinality(T) \in Nat
  BY FS_Subset, FS_CardinalityType
<1>2. 0 \in K
  <2>1. \A T \in SUBSET S : Cardinality(T) = 0 => T = {}
    BY <1>1, FS_EmptySet
  <2> QED BY <2>1
<1>3. ASSUME NEW k \in Nat, k \in K PROVE k + 1 \in K
  <2> SUFFICES ASSUME NEW T \in SUBSET S, Cardinality(T) = k + 1 PROVE T \in B
    OBVIOUS
  <2>1. T # {}
    <3>1. Cardinality({}) = 0
      BY FS_EmptySet
    <3> QED BY <3>1
  <2>2. PICK x \in T : TRUE
    BY <2>1
  <2>3. T \ {x} \in SUBSET S /\ Cardinality(T \ {x}) = k
    BY <1>1, WithoutOne
  <2>4. T \ {x} \in B /\ x \in S \ (T \ {x}) /\ (T \ {x}) \cup {x} = T
    BY <1>3, <2>3
  <2> QED BY <2>3, <2>4
<1>4. \A k \in Nat : k \in K
  <2> HIDE DEF K
  <2> QED BY <1>2, <1>3, ClimbFrom
<1> QED BY <1>1, <1>4

(* What a sum is, an element more at a time. *)
LEMMA SumAdds ==
  ASSUME NEW S, IsFiniteSet(S), NEW w, \A x \in S : w[x] \in Int
  PROVE  /\ SumOver(w, {}) = 0
         /\ \A T \in SUBSET S : SumOver(w, T) \in Int
         /\ \A T \in SUBSET S : \A x \in S \ T : SumOver(w, T \cup {x}) = w[x] + SumOver(w, T)
<1>1. \A T \in SUBSET S : IsFiniteSet(T) /\ \A x \in T : w[x] \in Int
  BY FS_Subset
<1>2. SumOver(w, {}) = 0
  BY <1>1, SumTakesPick
<1>3. \A T \in SUBSET S : SumOver(w, T) \in Int
  BY <1>1, SumTakesPick
<1>4. ASSUME NEW T \in SUBSET S, NEW x \in S \ T PROVE SumOver(w, T \cup {x}) = w[x] + SumOver(w, T)
  <2> DEFINE U == T \cup {x}
  <2>1. U \in SUBSET S /\ x \in U /\ U \ {x} = T
    OBVIOUS
  <2> HIDE DEF U
  <2>2. SumOver(w, U) = w[x] + SumOver(w, U \ {x})
    BY <1>1, <2>1, SumTakes
  <2> QED BY <2>1, <2>2 DEF U
<1> QED BY <1>2, <1>3, <1>4

(* A sum no term of which is larger is no larger. *)
LEMMA SumMonotonic ==
  ASSUME NEW S, IsFiniteSet(S), NEW w, NEW v,
         \A x \in S : w[x] \in Int /\ v[x] \in Int /\ w[x] <= v[x]
  PROVE  SumOver(w, S) <= SumOver(v, S)
<1> DEFINE B == {T \in SUBSET S : SumOver(w, T) <= SumOver(v, T)}
<1>1. /\ SumOver(w, {}) = 0
      /\ \A T \in SUBSET S : SumOver(w, T) \in Int
      /\ \A T \in SUBSET S : \A x \in S \ T : SumOver(w, T \cup {x}) = w[x] + SumOver(w, T)
  BY SumAdds
<1>2. /\ SumOver(v, {}) = 0
      /\ \A T \in SUBSET S : SumOver(v, T) \in Int
      /\ \A T \in SUBSET S : \A x \in S \ T : SumOver(v, T \cup {x}) = v[x] + SumOver(v, T)
  BY SumAdds
<1>3. {} \in B
  BY <1>1, <1>2
<1>4. ASSUME NEW T \in SUBSET S, NEW x \in S \ T, T \in B PROVE T \cup {x} \in B
  BY <1>1, <1>2, <1>4
<1>5. S \in B
  <2> HIDE DEF B
  <2> QED BY <1>3, <1>4, SetClimb
<1> QED BY <1>5

(* A sum of two sets that do not meet is the sum of theirs. *)
LEMMA SumOfTwo ==
  ASSUME NEW S, IsFiniteSet(S), NEW w, \A x \in S : w[x] \in Int,
         NEW P \in SUBSET S, NEW Q \in SUBSET S, P \cap Q = {}
  PROVE  SumOver(w, P \cup Q) = SumOver(w, P) + SumOver(w, Q)
<1> DEFINE B == {T \in SUBSET Q : SumOver(w, P \cup T) = SumOver(w, P) + SumOver(w, T)}
<1>1. /\ SumOver(w, {}) = 0
      /\ \A T \in SUBSET S : SumOver(w, T) \in Int
      /\ \A T \in SUBSET S : \A x \in S \ T : SumOver(w, T \cup {x}) = w[x] + SumOver(w, T)
  BY SumAdds
<1>2. {} \in B
  <2>1. P \cup {} = P
    OBVIOUS
  <2> QED BY <1>1, <2>1
<1>3. ASSUME NEW T \in SUBSET Q, NEW x \in Q \ T, T \in B PROVE T \cup {x} \in B
  <2> DEFINE U == P \cup T
  <2>1. U \in SUBSET S /\ T \in SUBSET S /\ x \in S \ U /\ x \in S \ T /\ P \cup (T \cup {x}) = U \cup {x}
    OBVIOUS
  <2>2. SumOver(w, U) = SumOver(w, P) + SumOver(w, T)
    BY <1>3
  <2> HIDE DEF U
  <2>3. SumOver(w, U \cup {x}) = w[x] + SumOver(w, U) /\ SumOver(w, T \cup {x}) = w[x] + SumOver(w, T)
    BY <1>1, <2>1
  <2>4. w[x] \in Int /\ SumOver(w, P) \in Int /\ SumOver(w, T) \in Int
    BY <1>1, <2>1
  <2>5. SumOver(w, P \cup (T \cup {x})) = SumOver(w, U \cup {x})
    BY <2>1, Zenon
  <2>6. SumOver(w, P \cup (T \cup {x})) = SumOver(w, P) + SumOver(w, T \cup {x})
    BY <2>2, <2>3, <2>4, <2>5
  <2> QED BY <2>6
<1>4. Q \in B
  <2>1. IsFiniteSet(Q)
    BY FS_Subset
  <2> HIDE DEF B
  <2> QED BY <1>2, <1>3, <2>1, SetClimb
<1> QED BY <1>4

(* Of what is not negative, a part is no more than the whole, and no term is. *)
LEMMA SumOfPart ==
  ASSUME NEW S, IsFiniteSet(S), NEW w, \A x \in S : w[x] \in Nat
  PROVE  /\ \A T \in SUBSET S : SumOver(w, T) \in Nat
         /\ \A T \in SUBSET S : \A P \in SUBSET T : SumOver(w, P) <= SumOver(w, T)
         /\ \A T \in SUBSET S : \A x \in T : w[x] <= SumOver(w, T)
<1>1. /\ SumOver(w, {}) = 0
      /\ \A T \in SUBSET S : SumOver(w, T) \in Int
      /\ \A T \in SUBSET S : \A x \in S \ T : SumOver(w, T \cup {x}) = w[x] + SumOver(w, T)
  <2>1. \A x \in S : w[x] \in Int
    OBVIOUS
  <2> QED BY <2>1, SumAdds
<1>2. ASSUME NEW T \in SUBSET S PROVE SumOver(w, T) \in Nat
  <2> DEFINE B == {U \in SUBSET T : SumOver(w, U) \in Nat}
  <2>1. {} \in B
    BY <1>1
  <2>2. ASSUME NEW U \in SUBSET T, NEW x \in T \ U, U \in B PROVE U \cup {x} \in B
    BY <1>1, <2>2
  <2>3. T \in B
    <3>1. IsFiniteSet(T)
      BY FS_Subset
    <3> HIDE DEF B
    <3> QED BY <2>1, <2>2, <3>1, SetClimb
  <2> QED BY <2>3
<1>3. ASSUME NEW T \in SUBSET S, NEW P \in SUBSET T PROVE SumOver(w, P) <= SumOver(w, T)
  <2> DEFINE Q == T \ P
  <2>1. P \in SUBSET S /\ Q \in SUBSET S /\ P \cap Q = {} /\ P \cup Q = T
    OBVIOUS
  <2> HIDE DEF Q
  <2>2. SumOver(w, P \cup Q) = SumOver(w, P) + SumOver(w, Q)
    <3>1. \A y \in S : w[y] \in Int
      OBVIOUS
    <3> QED BY <2>1, <3>1, SumOfTwo
  <2>3. SumOver(w, P) \in Nat /\ SumOver(w, Q) \in Nat
    BY <1>2, <2>1
  <2>4. SumOver(w, P \cup Q) = SumOver(w, T)
    BY <2>1, Zenon
  <2> QED BY <2>2, <2>3, <2>4
<1>4. ASSUME NEW T \in SUBSET S, NEW x \in T PROVE w[x] <= SumOver(w, T)
  <2>1. {} \in SUBSET S /\ x \in S \ {} /\ {} \cup {x} = {x} /\ {x} \in SUBSET T
    OBVIOUS
  <2>2. SumOver(w, {x}) = w[x] + 0
    BY <1>1, <2>1
  <2> QED BY <1>3, <2>1, <2>2
<1> QED BY <1>2, <1>3, <1>4

(* Terms may be summed class by class. *)
LEMMA SumByClass ==
  ASSUME NEW S, IsFiniteSet(S), NEW w, \A x \in S : w[x] \in Int,
         NEW R, IsFiniteSet(R), NEW m
  PROVE  SumOver([r \in R |-> SumOver(w, {x \in S : m[x] = r})], R) = SumOver(w, {x \in S : m[x] \in R})
<1> DEFINE Class(r) == {x \in S : m[x] = r}
           Those(Q) == {x \in S : m[x] \in Q}
           v == [r \in R |-> SumOver(w, Class(r))]
           B == {Q \in SUBSET R : SumOver(v, Q) = SumOver(w, Those(Q))}
<1>1. /\ SumOver(w, {}) = 0
      /\ \A T \in SUBSET S : SumOver(w, T) \in Int
  BY SumAdds
<1>2. \A r \in R : v[r] = SumOver(w, Class(r)) /\ v[r] \in Int
  BY <1>1
<1> HIDE DEF v
<1>3. /\ SumOver(v, {}) = 0
      /\ \A T \in SUBSET R : SumOver(v, T) \in Int
      /\ \A T \in SUBSET R : \A x \in R \ T : SumOver(v, T \cup {x}) = v[x] + SumOver(v, T)
  <2>1. \A r \in R : v[r] \in Int
    BY <1>2
  <2> HIDE DEF B
  <2> QED BY <2>1, SumAdds
<1>4. {} \in B
  <2>1. Those({}) = {}
    OBVIOUS
  <2> QED BY <1>1, <1>3, <2>1
<1>5. ASSUME NEW Q \in SUBSET R, NEW r \in R \ Q, Q \in B PROVE Q \cup {r} \in B
  <2> DEFINE P == Those(Q)
             C == Class(r)
  <2>1. P \in SUBSET S /\ C \in SUBSET S /\ P \cap C = {} /\ Those(Q \cup {r}) = P \cup C
    OBVIOUS
  <2>2. SumOver(v, Q) = SumOver(w, P) /\ v[r] = SumOver(w, C)
    BY <1>2, <1>5
  <2> HIDE DEF P, C, Those
  <2>3. SumOver(w, P \cup C) = SumOver(w, P) + SumOver(w, C)
    BY <2>1, SumOfTwo
  <2>4. SumOver(v, Q \cup {r}) = v[r] + SumOver(v, Q)
    BY <1>3
  <2>5. SumOver(w, P) \in Int /\ SumOver(w, C) \in Int
    BY <1>1, <2>1
  <2>6. SumOver(w, Those(Q \cup {r})) = SumOver(w, P \cup C)
    BY <2>1, Zenon
  <2>7. SumOver(v, Q \cup {r}) = SumOver(w, Those(Q \cup {r}))
    BY <2>2, <2>3, <2>4, <2>5, <2>6
  <2> QED BY <2>7
<1>6. R \in B
  <2> HIDE DEF B
  <2> QED BY <1>4, <1>5, SetClimb
<1> QED BY <1>6 DEF v

-------------------------------------------------------------------------------
(* The supervisor: evidence, the allocation and the sweep. *)

(* Masses on sets of hypotheses that are not empty, which with the conflict  *)
(* are at most the whole.                                                    *)
Sound(l) ==
  /\ l \in Ledger
  /\ \A S \in DOMAIN l.focal : S # {} /\ S \subseteq Frame /\ l.focal[S] \in 1..MassTotal
  /\ SumOver(l.focal, DOMAIN l.focal) + l.conflict <= MassTotal

(* The hypotheses are few, so are their sets, and so is what any evidence    *)
(* weighs.                                                                   *)
LEMMA FrameIsFinite ==
  /\ IsFiniteSet(Frame) /\ IsFiniteSet(SUBSET Frame)
  /\ \A l : Sound(l) => IsFiniteSet(DOMAIN l.focal)
<1>1. IsFiniteSet({"usb"}) /\ IsFiniteSet({"usb", "fridge_note"}) /\ IsFiniteSet(Frame)
  <2>1. IsFiniteSet({"usb"})
    BY FS_Singleton
  <2>2. {"usb", "fridge_note"} = {"usb"} \cup {"fridge_note"} /\ Frame = {"usb", "fridge_note"} \cup {"unknown"}
    BY DEF Frame
  <2>3. IsFiniteSet({"usb", "fridge_note"})
    BY <2>1, <2>2, FS_AddElement
  <2> QED BY <2>1, <2>2, <2>3, FS_AddElement
<1>2. IsFiniteSet(SUBSET Frame)
  BY <1>1, FS_SUBSET
<1>3. ASSUME NEW l, Sound(l) PROVE IsFiniteSet(DOMAIN l.focal)
  <2>1. DOMAIN l.focal \subseteq SUBSET Frame
    BY <1>3 DEF Sound
  <2> QED BY <1>2, <2>1, FS_Subset
<1> QED BY <1>1, <1>2, <1>3

(* The masses of an event's evidence, and the ledger that holds them.        *)
Pointed == 2500
Elsewhere == 7500
Split(l, f, P) ==
  /\ l = [focal |-> f, conflict |-> 0]
  /\ P \subseteq Frame /\ P # {} /\ Frame # {} /\ P # Frame
  /\ DOMAIN f = {P, Frame} /\ f \in [{P, Frame} -> Nat] /\ f[P] = Pointed /\ f[Frame] = Elsewhere

(* A quarter of the whole on the target the event points at, the rest on     *)
(* everything.                                                              *)
LEMMA EvidenceIs ==
  ASSUME NEW e \in Event, Evidence(e) # None
  PROVE  \E f, P : Split(Evidence(e), f, P)
<1>1. e \in {"Usb", "Note"} /\ Points(e) \in {"usb", "fridge_note"}
  BY DEF Evidence, Points
<1> DEFINE P == {Points(e)}
           f == [S \in {P, Frame} |-> IF S = Frame THEN 7500 ELSE 2500]
<1>2. "unknown" \in Frame /\ "unknown" \notin P /\ P # {} /\ P \subseteq Frame /\ Frame # {}
  BY <1>1 DEF Frame
<1>3. P # Frame
  BY <1>2
<1>4. Evidence(e) = [focal |-> f, conflict |-> 0]
  BY <1>1 DEF Evidence
<1> HIDE DEF P
<1>5. DOMAIN f = {P, Frame} /\ f \in [{P, Frame} -> Nat] /\ f[P] = Pointed /\ f[Frame] = Elsewhere
  BY <1>3 DEF Pointed, Elsewhere
<1> HIDE DEF f
<1>6. Split(Evidence(e), f, P)
  BY <1>2, <1>3, <1>4, <1>5, Zenon DEF Split
<1> QED BY <1>6, Zenon

(* Together they are the whole. *)
LEMMA EvidenceIsSound ==
  ASSUME NEW e \in Event, Evidence(e) # None
  PROVE  Sound(Evidence(e))
<1>1. PICK f, P : Split(Evidence(e), f, P)
  BY EvidenceIs, Zenon
<1>2. P \subseteq Frame /\ P # {} /\ Frame # {} /\ P # Frame
  BY <1>1, Zenon DEF Split
<1>3. Evidence(e) = [focal |-> f, conflict |-> 0]
  BY <1>1, Zenon DEF Split
<1>5. DOMAIN f = {P, Frame} /\ f[P] = Pointed /\ f[Frame] = Elsewhere /\ f \in [{P, Frame} -> Nat]
  BY <1>1, Zenon DEF Split
<1>6. SumOver(f, {P, Frame}) = 10000
  <2> DEFINE T == {P, Frame}
  <2>1. IsFiniteSet(T)
    <3>1. T \subseteq SUBSET Frame
      BY <1>2
    <3> QED BY <3>1, FrameIsFinite, FS_Subset
  <2>2. \A x \in T : f[x] \in Int
    BY <1>5
  <2>3. {} \in SUBSET T /\ P \in T \ {} /\ {} \cup {P} = {P} /\ {P} \in SUBSET T /\ Frame \in T \ {P} /\ {P} \cup {Frame} = T
    BY <1>2
  <2> HIDE DEF T
  <2>4. /\ SumOver(f, {}) = 0
        /\ \A U \in SUBSET T : \A x \in T \ U : SumOver(f, U \cup {x}) = f[x] + SumOver(f, U)
    BY <2>1, <2>2, SumAdds
  <2>5. SumOver(f, {P}) = f[P] + SumOver(f, {}) /\ SumOver(f, T) = f[Frame] + SumOver(f, {P})
    BY <2>3, <2>4
  <2>6. SumOver(f, T) = 10000
    BY <1>5, <2>4, <2>5 DEF Pointed, Elsewhere
  <2> QED BY <2>6 DEF T
<1>7. f \in UNION {[D -> Nat] : D \in SUBSET (SUBSET Frame)}
  <2>1. {P, Frame} \in SUBSET (SUBSET Frame)
    BY <1>2
  <2> QED BY <1>5, <2>1
<1>8. PICK l : l = [focal |-> f, conflict |-> 0]
  OBVIOUS
<1>9. l \in Ledger /\ l.focal = f /\ l.conflict = 0
  BY <1>7, <1>8 DEF Ledger
<1>10. \A S \in DOMAIN f : S # {} /\ S \subseteq Frame /\ f[S] \in 1..MassTotal
  <2>1. Pointed \in 1..MassTotal /\ Elsewhere \in 1..MassTotal
    BY DEF MassTotal, Pointed, Elsewhere
  <2>2. f[P] \in 1..MassTotal
    BY <1>5, <2>1, Zenon
  <2>3. f[Frame] \in 1..MassTotal
    BY <1>5, <2>1, Zenon
  <2>4. ASSUME NEW S \in {P, Frame} PROVE S # {} /\ S \subseteq Frame /\ f[S] \in 1..MassTotal
    <3>1. CASE S = P
      BY <1>2, <2>2, <3>1, Zenon
    <3>2. CASE S = Frame
      BY <1>2, <2>3, <3>2, Zenon
    <3> QED BY <2>4, <3>1, <3>2, Zenon
  <2> QED BY <1>5, <2>4, Zenon
<1>11. SumOver(f, DOMAIN f) + 0 <= MassTotal
  BY <1>5, <1>6 DEF MassTotal
<1>12. Sound(l)
  BY <1>9, <1>10, <1>11 DEF Sound
<1> QED BY <1>3, <1>8, <1>12

(* Rounding down twice loses, and never makes, mass. *)
LEMMA Rounded ==
  ASSUME NEW x \in Nat
  PROVE  /\ (x * 2500) \div MassTotal \in Nat /\ (x * 7500) \div MassTotal \in Nat
         /\ (x * 2500) \div MassTotal + (x * 7500) \div MassTotal <= x
BY DEF MassTotal

(* A mass is a whole number, from one to the whole.                          *)
LEMMA MassIs == MassTotal \in Nat /\ \A x \in 1..MassTotal : x \in Nat /\ x \in Int /\ x > 0 /\ x <= MassTotal
  BY DEF MassTotal

(* Products of masses that fit each mass fit together.                       *)
LEMMA ProductsFit ==
  ASSUME NEW D, IsFiniteSet(D), NEW f, \A S \in D : f[S] \in Nat,
         NEW P, NEW Q, P # Q, NEW w, NEW X, X = D \X {P, Q},
         \A S \in D : w[<<S, P>>] \in Nat /\ w[<<S, Q>>] \in Nat /\ w[<<S, P>>] + w[<<S, Q>>] <= f[S]
  PROVE  /\ IsFiniteSet(X) /\ \A p \in X : w[p] \in Nat
         /\ SumOver(w, X) \in Nat /\ SumOver(f, D) \in Nat /\ SumOver(w, X) <= SumOver(f, D)
<1>1. IsFiniteSet(X)
  <2>1. IsFiniteSet({P} \cup {Q})
    BY FS_Singleton, FS_AddElement
  <2>2. {P} \cup {Q} = {P, Q}
    OBVIOUS
  <2> QED BY <2>1, <2>2, FS_Product
<1>2. \A p \in X : w[p] \in Nat /\ w[p] \in Int
  <2>1. \A p \in X : p[1] \in D /\ (p = <<p[1], P>> \/ p = <<p[1], Q>>)
    OBVIOUS
  <2>2. \A p \in X : w[p] \in Nat
    BY <2>1
  <2> QED BY <2>2
<1> DEFINE first == [p \in X |-> p[1]]
           Class(S) == {p \in X : first[p] = S}
           v == [S \in D |-> SumOver(w, {p \in X : first[p] = S})]
           All == {p \in X : first[p] \in D}
<1>3. SumOver(v, D) = SumOver(w, All)
  <2>1. \A x \in X : w[x] \in Int
    BY <1>2
  <2> HIDE DEF first
  <2>2. SumOver([r \in D |-> SumOver(w, {x \in X : first[x] = r})], D) = SumOver(w, {x \in X : first[x] \in D})
    BY <1>1, <2>1, SumByClass
  <2> QED BY <2>2, Zenon
<1>4. All = X
  OBVIOUS
<1>5. /\ SumOver(w, {}) = 0
      /\ \A T \in SUBSET X : \A p \in X \ T : SumOver(w, T \cup {p}) = w[p] + SumOver(w, T)
      /\ \A T \in SUBSET X : SumOver(w, T) \in Nat
  BY <1>1, <1>2, SumAdds, SumOfPart
<1>6. ASSUME NEW S \in D PROVE v[S] \in Int /\ v[S] <= f[S]
  <2>1. PICK p, q : p = <<S, P>> /\ q = <<S, Q>>
    OBVIOUS
  <2>2. p \in X /\ q \in X /\ p # q
    BY <2>1
  <2>3. Class(S) = {p, q}
    BY <2>1
  <2>4. v[S] = SumOver(w, Class(S))
    OBVIOUS
  <2>5. w[p] \in Nat /\ w[q] \in Nat /\ w[p] + w[q] <= f[S]
    BY <2>1
  <2> HIDE DEF v, Class, All, first
  <2>6. {} \in SUBSET X /\ p \in X \ {} /\ {} \cup {p} = {p} /\ {p} \in SUBSET X /\ q \in X \ {p} /\ {p} \cup {q} = {p, q}
    BY <2>2
  <2>7. SumOver(w, {} \cup {p}) = w[p] + SumOver(w, {}) /\ SumOver(w, {p} \cup {q}) = w[q] + SumOver(w, {p})
    BY <1>5, <2>6
  <2>8. SumOver(w, {p}) = w[p] + SumOver(w, {}) /\ SumOver(w, {p, q}) = w[q] + SumOver(w, {p})
    BY <2>6, <2>7, Zenon
  <2>9. v[S] = SumOver(w, {p, q})
    BY <2>3, <2>4, Zenon
  <2> QED BY <1>5, <2>5, <2>8, <2>9
<1> HIDE DEF v, All
<1>7. SumOver(v, D) <= SumOver(f, D)
  BY <1>6, SumMonotonic
<1>8. SumOver(f, D) \in Nat
  BY SumOfPart
<1>9. SumOver(v, D) = SumOver(w, X) /\ SumOver(w, X) \in Nat
  BY <1>3, <1>4, <1>5
<1> QED BY <1>1, <1>2, <1>7, <1>8, <1>9

(* Products sorted by where they meet, some of them cut, fit as they did.    *)
LEMMA MeetingsFit ==
  ASSUME NEW X, IsFiniteSet(X), NEW w, \A p \in X : w[p] \in Nat,
         NEW met, IsFiniteSet(met), {} \notin met, NEW u,
         \A S \in met \cup {{}} : u[S] = SumOver(w, {p \in X : p[1] \cap p[2] = S}),
         NEW f, \A S \in met : f[S] \in Nat /\ f[S] <= u[S]
  PROVE  /\ SumOver(f, met) \in Nat /\ u[{}] \in Nat
         /\ SumOver(f, met) + u[{}] <= SumOver(w, X)
<1> DEFINE R == met \cup {{}}
           where == [p \in X |-> p[1] \cap p[2]]
           v == [S \in R |-> SumOver(w, {p \in X : where[p] = S})]
           T == {p \in X : where[p] \in R}
<1>1. IsFiniteSet(R)
  BY FS_AddElement
<1>2. \A p \in X : w[p] \in Int
  OBVIOUS
<1>3. SumOver(v, R) = SumOver(w, T)
  <2> HIDE DEF where, R
  <2> QED BY <1>1, <1>2, SumByClass
<1>4. \A U \in SUBSET X : SumOver(w, U) \in Nat /\ SumOver(w, U) <= SumOver(w, X)
  BY SumOfPart
<1>5. T \in SUBSET X
  OBVIOUS
<1>6. ASSUME NEW S \in R PROVE v[S] = u[S] /\ u[S] \in Nat
  <2>1. {p \in X : where[p] = S} = {p \in X : p[1] \cap p[2] = S}
    OBVIOUS
  <2>2. v[S] = SumOver(w, {p \in X : where[p] = S})
    OBVIOUS
  <2>3. v[S] = u[S]
    BY <2>1, <2>2
  <2>4. {p \in X : p[1] \cap p[2] = S} \in SUBSET X
    OBVIOUS
  <2> QED BY <1>4, <2>3, <2>4
<1>7. met \in SUBSET R /\ {} \in R \ met /\ met \cup {{}} = R
  OBVIOUS
<1> HIDE DEF R, v, T, where
<1>8. \A S \in R : v[S] \in Nat /\ v[S] \in Int
  BY <1>6
<1>9. /\ \A U \in SUBSET R : SumOver(v, U) \in Int
      /\ \A U \in SUBSET R : \A S \in R \ U : SumOver(v, U \cup {S}) = v[S] + SumOver(v, U)
  BY <1>1, <1>8, SumAdds
<1>10. SumOver(v, met \cup {{}}) = v[{}] + SumOver(v, met) /\ SumOver(v, met) \in Int
  BY <1>7, <1>9
<1>11. SumOver(v, R) = u[{}] + SumOver(v, met) /\ u[{}] \in Nat
  BY <1>6, <1>7, <1>10
<1>12. \A S \in met : f[S] \in Int /\ v[S] \in Int /\ f[S] <= v[S]
  BY <1>6, <1>7
<1>13. SumOver(f, met) <= SumOver(v, met)
  BY <1>12, SumMonotonic
<1>14. SumOver(f, met) \in Nat
  BY SumOfPart
<1>15. SumOver(w, T) \in Nat /\ SumOver(w, T) <= SumOver(w, X) /\ SumOver(w, X) \in Nat
  BY <1>4, <1>5
<1> QED BY <1>3, <1>10, <1>11, <1>13, <1>14, <1>15

(* Combining sound evidence with an event's keeps it sound.                  *)
LEMMA CombineIsSound ==
  ASSUME NEW a, Sound(a), NEW e \in Event, Evidence(e) # None
  PROVE  Sound(Combine(a, Evidence(e)))
<1>1. PICK b, masses, P : b = Evidence(e) /\ Split(b, masses, P)
  BY EvidenceIs, Zenon
<1>2. /\ P # Frame /\ P \subseteq Frame
      /\ DOMAIN b.focal = {P, Frame} /\ b.focal[P] = 2500 /\ b.focal[Frame] = 7500 /\ b.conflict = 0
  <2>1. b = [focal |-> masses, conflict |-> 0]
    BY <1>1, Zenon DEF Split
  <2>2. b.focal = masses /\ b.conflict = 0
    BY <2>1
  <2>3. P # Frame /\ P \subseteq Frame /\ DOMAIN masses = {P, Frame} /\ masses[P] = Pointed /\ masses[Frame] = Elsewhere
    BY <1>1, Zenon DEF Split
  <2>4. b.focal[P] = Pointed /\ b.focal[Frame] = Elsewhere
    BY <2>2, <2>3, Zenon
  <2>5. b.focal[P] = 2500 /\ b.focal[Frame] = 7500
    BY <2>4 DEF Pointed, Elsewhere
  <2>6. DOMAIN b.focal = {P, Frame}
    BY <2>2, <2>3, Zenon
  <2> QED BY <2>2, <2>3, <2>5, <2>6
<1>3. PICK D, X : D = DOMAIN a.focal /\ X = D \X {P, Frame}
  OBVIOUS
<1>4. Pairs(a, b) = X
  BY <1>2, <1>3 DEF Pairs
<1>5. PICK w : w = [p \in Pairs(a, b) |-> Product(a, b, p)]
  OBVIOUS
<1>6. /\ \A S \in D : S \subseteq Frame /\ a.focal[S] \in Nat
      /\ a.conflict \in Nat
      /\ SumOver(a.focal, D) + a.conflict <= MassTotal
      /\ IsFiniteSet(D)
  BY <1>3, FrameIsFinite, MassIs DEF Sound, Ledger
<1>7. ASSUME NEW S \in D
      PROVE  /\ w[<<S, P>>] \in Nat /\ w[<<S, Frame>>] \in Nat
             /\ w[<<S, P>>] + w[<<S, Frame>>] <= a.focal[S]
  <2>1. <<S, P>> \in X /\ <<S, Frame>> \in X
    BY <1>3
  <2>2. w[<<S, P>>] = (a.focal[S] * 2500) \div MassTotal
    BY <1>2, <1>4, <1>5, <2>1 DEF Product
  <2>3. w[<<S, Frame>>] = (a.focal[S] * 7500) \div MassTotal
    BY <1>2, <1>4, <1>5, <2>1 DEF Product
  <2>4. PICK x \in Nat : x = a.focal[S]
    BY <1>6
  <2>5. w[<<S, P>>] = (x * 2500) \div MassTotal /\ w[<<S, Frame>>] = (x * 7500) \div MassTotal
    BY <2>2, <2>3, <2>4
  <2>6. /\ (x * 2500) \div MassTotal \in Nat /\ (x * 7500) \div MassTotal \in Nat
        /\ (x * 2500) \div MassTotal + (x * 7500) \div MassTotal <= x
    BY Rounded
  <2>7. PICK y, z \in Nat : y = (x * 2500) \div MassTotal /\ z = (x * 7500) \div MassTotal
    BY <2>6
  <2>8. w[<<S, P>>] = y /\ w[<<S, Frame>>] = z /\ y + z <= a.focal[S]
    BY <2>4, <2>5, <2>6, <2>7
  <2> QED BY <2>8
<1>8. /\ IsFiniteSet(X) /\ \A p \in X : w[p] \in Nat
      /\ SumOver(w, X) \in Nat /\ SumOver(a.focal, D) \in Nat /\ SumOver(w, X) <= SumOver(a.focal, D)
  <2>1. PICK g : g = a.focal
    OBVIOUS
  <2>2. /\ \A S \in D : g[S] \in Nat
        /\ \A S \in D : w[<<S, P>>] \in Nat /\ w[<<S, Frame>>] \in Nat /\ w[<<S, P>>] + w[<<S, Frame>>] <= g[S]
    BY <1>6, <1>7, <2>1
  <2>3. /\ IsFiniteSet(X) /\ \A p \in X : w[p] \in Nat
        /\ SumOver(w, X) \in Nat /\ SumOver(g, D) \in Nat /\ SumOver(w, X) <= SumOver(g, D)
    <3>1. P # Frame /\ X = D \X {P, Frame} /\ IsFiniteSet(D)
      BY <1>2, <1>3, <1>6
    <3> QED BY <2>2, <3>1, ProductsFit
  <2> QED BY <2>1, <2>3, Zenon
<1>9. PICK met : met = {p[1] \cap p[2] : p \in {p \in Pairs(a, b) : Product(a, b, p) > 0}} \ {{}}
  OBVIOUS
<1>10. \A p \in X : w[p] = Product(a, b, p)
  BY <1>4, <1>5
<1>11. \A S \in met : S # {} /\ S \subseteq Frame /\ \E p \in X : w[p] > 0 /\ p[1] \cap p[2] = S
  <2>1. ASSUME NEW S \in met PROVE S # {} /\ S \subseteq Frame /\ \E p \in X : w[p] > 0 /\ p[1] \cap p[2] = S
    <3>1. S # {} /\ \E p \in X : Product(a, b, p) > 0 /\ p[1] \cap p[2] = S
      BY <1>4, <1>9
    <3>2. PICK p \in X : Product(a, b, p) > 0 /\ p[1] \cap p[2] = S
      BY <3>1
    <3>3. p[1] \in D
      BY <1>3
    <3> QED BY <1>6, <1>10, <3>1, <3>2, <3>3
  <2> QED BY <2>1
<1>12. IsFiniteSet(met) /\ met \subseteq SUBSET Frame /\ {} \notin met
  <2>1. met \subseteq SUBSET Frame
    BY <1>11
  <2> QED BY <1>11, <2>1, FrameIsFinite, FS_Subset
<1>13. PICK u : u = [S \in met \cup {{}} |-> Meeting(a, b, S)]
  OBVIOUS
<1>14. \A S \in met \cup {{}} : u[S] = Meeting(a, b, S) /\ u[S] = SumOver(w, {p \in X : p[1] \cap p[2] = S})
  BY <1>4, <1>5, <1>13 DEF Meeting
<1>15. PICK f : f = [S \in met |-> Least(Meeting(a, b, S), MassTotal)]
  OBVIOUS
<1>16. ASSUME NEW S \in met PROVE f[S] \in 1..MassTotal /\ f[S] \in Nat /\ f[S] <= u[S]
  <2>1. PICK p \in X : w[p] > 0 /\ p[1] \cap p[2] = S
    BY <1>11
  <2>2. PICK T : T = {q \in X : q[1] \cap q[2] = S}
    OBVIOUS
  <2>3. T \in SUBSET X /\ p \in T
    BY <2>1, <2>2
  <2>4. SumOver(w, T) \in Nat /\ w[p] <= SumOver(w, T) /\ w[p] \in Nat
    BY <1>8, <2>3, SumOfPart
  <2>5. u[S] = SumOver(w, T) /\ f[S] = Least(u[S], MassTotal)
    BY <1>14, <1>15, <2>2
  <2>6. PICK x, y \in Nat : x = w[p] /\ y = SumOver(w, T)
    BY <2>4
  <2>7. x > 0 /\ x <= y /\ u[S] = y /\ f[S] = Least(y, MassTotal)
    BY <2>1, <2>4, <2>5, <2>6
  <2>8. Least(y, MassTotal) \in 1..MassTotal /\ Least(y, MassTotal) \in Nat /\ Least(y, MassTotal) <= y
    BY <2>7 DEF Least, MassTotal
  <2> QED BY <2>7, <2>8
<1>17. SumOver(f, met) \in Nat /\ u[{}] \in Nat /\ SumOver(f, met) + u[{}] <= SumOver(w, X)
  <2>1. \A S \in met \cup {{}} : u[S] = SumOver(w, {p \in X : p[1] \cap p[2] = S})
    BY <1>14
  <2>2. \A S \in met : f[S] \in Nat /\ f[S] <= u[S]
    BY <1>16
  <2> QED BY <1>8, <1>12, <2>1, <2>2, MeetingsFit
<1>18. PICK c : c = Conflict(a, b)
  OBVIOUS
<1>19. c = a.conflict + u[{}] /\ c \in Nat
  <2>1. u[{}] = Meeting(a, b, {})
    BY <1>14
  <2> QED BY <1>2, <1>6, <1>17, <1>18, <2>1 DEF Conflict
<1>20. SumOver(f, met) + c <= MassTotal
  BY <1>6, <1>8, <1>17, <1>19, MassIs
<1>21. Combine(a, Evidence(e)) = [focal |-> f, conflict |-> c]
  BY <1>1, <1>9, <1>15, <1>18 DEF Combine
<1>22. DOMAIN f = met /\ f \in UNION {[U -> Nat] : U \in SUBSET (SUBSET Frame)}
  <2>1. DOMAIN f = met /\ f \in [met -> Nat]
    <3>1. DOMAIN f = met /\ f = [S \in met |-> f[S]]
      BY <1>15
    <3> QED BY <1>16, <3>1
  <2> QED BY <1>12, <2>1
<1>23. \A S \in met : S # {} /\ S \subseteq Frame /\ f[S] \in 1..MassTotal
  BY <1>11, <1>16
<1> QED BY <1>19, <1>20, <1>21, <1>22, <1>23 DEF Sound, Ledger

(* What is believed is plausible, and what is plausible is not in conflict.  *)
LEMMA SoundIsBounded ==
  ASSUME NEW l, Sound(l)
  PROVE  /\ Plausibility(l, Frame) + l.conflict <= MassTotal
         /\ \A prop \in SUBSET Frame :
              /\ Belief(l, prop) <= Plausibility(l, prop)
              /\ Plausibility(l, prop) <= MassTotal - l.conflict
         /\ \A prop : Plausibility(l, prop) \in Nat
<1>1. PICK f, D : f = l.focal /\ D = DOMAIN l.focal
  OBVIOUS
<1>2. IsFiniteSet(D) /\ (\A S \in D : f[S] \in Nat /\ S # {} /\ S \subseteq Frame) /\ l.conflict \in Nat
  BY <1>1, FrameIsFinite, MassIs DEF Sound, Ledger
<1>3. /\ \A T \in SUBSET D : SumOver(f, T) \in Nat /\ SumOver(f, T) <= SumOver(f, D)
      /\ \A T \in SUBSET D : \A U \in SUBSET T : SumOver(f, U) <= SumOver(f, T)
  BY <1>2, SumOfPart
<1>4. SumOver(f, D) + l.conflict <= MassTotal
  BY <1>1 DEF Sound
<1>5. \A prop : /\ Plausibility(l, prop) = SumOver(f, {S \in D : S \cap prop # {}})
                /\ Belief(l, prop) = SumOver(f, {S \in D : S \subseteq prop})
  BY <1>1 DEF Plausibility, Belief
<1>6. ASSUME NEW prop
      PROVE  /\ Belief(l, prop) <= Plausibility(l, prop)
             /\ Plausibility(l, prop) + l.conflict <= MassTotal
             /\ Plausibility(l, prop) <= MassTotal - l.conflict
             /\ Plausibility(l, prop) \in Nat
  <2>1. PICK T, U : T = {S \in D : S \cap prop # {}} /\ U = {S \in D : S \subseteq prop}
    OBVIOUS
  <2>2. T \in SUBSET D /\ U \in SUBSET T
    BY <1>2, <2>1
  <2>3. Plausibility(l, prop) = SumOver(f, T) /\ Belief(l, prop) = SumOver(f, U)
    BY <1>5, <2>1
  <2>4. D \in SUBSET D
    OBVIOUS
  <2>5. PICK x, y, z, c \in Nat : x = SumOver(f, T) /\ y = SumOver(f, U) /\ z = SumOver(f, D) /\ c = l.conflict
    BY <1>2, <1>3, <2>2, <2>4
  <2>6. y <= x /\ x <= z /\ z + c <= MassTotal
    BY <1>3, <1>4, <2>2, <2>5
  <2>7. y <= x /\ x + c <= MassTotal /\ x <= MassTotal - c
    BY <2>6, MassIs
  <2> QED BY <2>3, <2>5, <2>7
<1> QED BY <1>6

(* Attention is a percentage, and the target covered is the best of the two. *)
LEMMA AllocationIs ==
  ASSUME NEW l, Sound(l)
  PROVE  /\ \A t : RecommendedAttention(l, t) \in 0..100
         /\ MostPlausible(l) \in {"usb", "fridge_note"}
         /\ LET best == CHOOSE i \in 1..2 :
                   \A j \in 1..2 : LET a(k) == RecommendedAttention(l, Targets[k])
                                   IN a(i) > a(j) \/ (a(i) = a(j) /\ i <= j)
            IN MostPlausible(l) = Targets[best]
<1>1. ASSUME NEW t PROVE RecommendedAttention(l, t) \in 0..100
  <2>1. PICK x \in Nat : x = Plausibility(l, {t})
    BY SoundIsBounded
  <2>2. RecommendedAttention(l, t) = Least((x * 100) \div MassTotal, 100)
    BY <2>1 DEF RecommendedAttention
  <2>3. Least((x * 100) \div MassTotal, 100) \in 0..100
    BY DEF Least, MassTotal
  <2> QED BY <2>2, <2>3
<1>2. MostPlausible(l) \in {"usb", "fridge_note"}
  BY DEF MostPlausible, Targets
<1> DEFINE Best(i) == \A j \in 1..2 : LET a(k) == RecommendedAttention(l, Targets[k])
                                      IN a(i) > a(j) \/ (a(i) = a(j) /\ i <= j)
<1>3. PICK x, y \in 0..100 : x = RecommendedAttention(l, Targets[1]) /\ y = RecommendedAttention(l, Targets[2])
  BY <1>1
<1>4. Best(1) <=> (x > y \/ x = y)
  BY <1>3
<1>5. Best(2) <=> y > x
  BY <1>3
<1>6. MostPlausible(l) = IF y > x THEN Targets[2] ELSE Targets[1]
  BY <1>3 DEF MostPlausible
<1> HIDE DEF Best
<1>7. MostPlausible(l) = Targets[CHOOSE i \in 1..2 : Best(i)]
  <2>1. CASE y > x
    <3>1. \A i \in 1..2 : Best(i) <=> i = 2
      BY <1>4, <1>5, <2>1
    <3>2. (CHOOSE i \in 1..2 : Best(i)) = 2
      BY <3>1
    <3> QED BY <1>6, <2>1, <3>2
  <2>2. CASE ~(y > x)
    <3>1. \A i \in 1..2 : Best(i) <=> i = 1
      BY <1>4, <1>5, <2>2
    <3>2. (CHOOSE i \in 1..2 : Best(i)) = 1
      BY <3>1
    <3> QED BY <1>6, <2>2, <3>2
  <2> QED BY <2>1, <2>2
<1> QED BY <1>1, <1>2, <1>7 DEF Best

(* The allocation is announced as it stands, and the sweep ends on the floor. *)
SupervisionInv ==
  /\ evidence = None \/ Sound(evidence)
  /\ attention \in 0..100 /\ coverage \in {None, "usb", "fridge_note"}
  /\ announced = [attention |-> attention, target |-> coverage] /\ told = announced
  /\ evidence = None => attention = 0 /\ coverage = None
  /\ evidence # None =>
       /\ attention = RecommendedAttention(evidence, MostPlausible(evidence))
       /\ attention > 0 => coverage = MostPlausible(evidence)
  /\ patrol \in ClampLo..ClampHi

(* A fold of an event is no evidence, or sound evidence. *)
LEMMA FoldIs ==
  ASSUME NEW l, l = None \/ Sound(l), NEW e \in Event
  PROVE  /\ Evidence(e) = None => Fold(l, e) = l
         /\ Evidence(e) # None => Sound(Fold(l, e))
<1>1. CASE Evidence(e) = None
  BY <1>1 DEF Fold
<1>2. CASE Evidence(e) # None /\ l = None
  <2>1. Sound(Evidence(e))
    BY <1>2, EvidenceIsSound, Zenon
  <2>2. Fold(l, e) = Evidence(e)
    BY <1>2, Zenon DEF Fold
  <2> QED BY <1>2, <2>1, <2>2
<1>3. CASE Evidence(e) # None /\ l # None
  <2>1. Sound(Combine(l, Evidence(e)))
    BY <1>3, CombineIsSound
  <2> QED BY <1>3, <2>1 DEF Fold
<1> QED BY <1>1, <1>2, <1>3

(* Evidence that has masses is evidence.                                     *)
LEMMA SoundIsSome == \A l : Sound(l) => l # None
  BY SupervisionAssumption DEF Sound

(* Evidence folded over a batch stays, or becomes sound if the batch informs. *)
LEMMA FoldedIs ==
  ASSUME evidence = None \/ Sound(evidence), NEW batch \in Batches
  PROVE  /\ ~Informs(batch) => Folded(batch) = evidence
         /\ Informs(batch) => Sound(Folded(batch))
<1>1. CASE \E e \in Event : batch = <<e>>
  <2>1. PICK e \in Event : batch = <<e>>
    BY <1>1
  <2>2. Len(batch) = 1 /\ batch[1] = e /\ DOMAIN batch = {1}
    BY <2>1
  <2>3. Folded(batch) = Fold(evidence, e) /\ (Informs(batch) <=> Evidence(e) # None)
    BY <2>2 DEF Folded, Informs
  <2> QED BY <2>3, FoldIs
<1>2. CASE batch \in Event \X Event
  <2>1. PICK d, e \in Event : batch = <<d, e>>
    BY <1>2
  <2>2. Len(batch) = 2 /\ batch[1] = d /\ batch[2] = e /\ DOMAIN batch = {1, 2}
    BY <2>1
  <2>3. /\ Folded(batch) = Fold(Fold(evidence, d), e)
        /\ Informs(batch) <=> (Evidence(d) # None \/ Evidence(e) # None)
    BY <2>2 DEF Folded, Informs
  <2>4. PICK l : l = Fold(evidence, d)
    OBVIOUS
  <2>5. /\ l = None \/ Sound(l)
        /\ Evidence(d) = None => l = evidence
        /\ Evidence(d) # None => Sound(l)
    BY <2>4, FoldIs
  <2>6. /\ Evidence(e) = None => Fold(l, e) = l
        /\ Evidence(e) # None => Sound(Fold(l, e))
    BY <2>5, FoldIs
  <2> QED BY <2>3, <2>4, <2>5, <2>6
<1> QED BY <1>1, <1>2 DEF Batches

(* Before the first batch there is no evidence, nothing announced and the    *)
(* plain sweep.                                                              *)
LEMMA SupervisionInitInv == SupervisionInit => SupervisionInv
  BY DEF SupervisionInit, SupervisionInv, ClampLo, ClampHi

(* The tick that is told of nothing else than it changed.                    *)
LEMMA SupervisionTickInv ==
  ASSUME SupervisionInv, NEW batch \in Batches, Tick(batch)
  PROVE  SupervisionInv'
<1>1. /\ evidence = None \/ Sound(evidence)
      /\ attention \in 0..100 /\ coverage \in {None, "usb", "fridge_note"}
      /\ announced = [attention |-> attention, target |-> coverage] /\ told = announced
      /\ evidence = None => attention = 0 /\ coverage = None
      /\ evidence # None =>
           /\ attention = RecommendedAttention(evidence, MostPlausible(evidence))
           /\ attention > 0 => coverage = MostPlausible(evidence)
      /\ patrol \in ClampLo..ClampHi
  BY DEF SupervisionInv
<1>2. /\ evidence' = Folded(batch)
      /\ patrol' = patrol
      /\ Informs(batch) => /\ attention' = RecommendedAttention(evidence', MostPlausible(evidence'))
                           /\ coverage' = IF attention' > 0 THEN MostPlausible(evidence') ELSE coverage
      /\ ~Informs(batch) => attention' = attention /\ coverage' = coverage
      /\ announced' = [attention |-> attention', target |-> IF coverage' = None THEN announced.target ELSE coverage']
      /\ told' = [attention |-> IF attention' # announced.attention THEN attention' ELSE told.attention,
                  target |-> IF coverage' \notin {None, announced.target} THEN coverage' ELSE told.target]
  BY DEF Tick
<1>3. PICK l : l = evidence'
  OBVIOUS
<1>4. (~Informs(batch) => l = evidence) /\ (Informs(batch) => Sound(l))
  BY <1>1, <1>2, <1>3, FoldedIs
<1>5. Informs(batch) => /\ l # None
                       /\ RecommendedAttention(l, MostPlausible(l)) \in 0..100
                       /\ MostPlausible(l) \in {"usb", "fridge_note"}
  BY <1>4, SoundIsSome, AllocationIs
<1>6. None \notin {"usb", "fridge_note"}
  BY SupervisionAssumption DEF Frame
<1>7. PICK now, t : now = attention' /\ t = coverage'
  OBVIOUS
<1>8. /\ now \in 0..100 /\ t \in {None, "usb", "fridge_note"}
      /\ t = None => coverage = None
      /\ l = None => now = 0 /\ t = None
      /\ l # None => /\ now = RecommendedAttention(l, MostPlausible(l))
                     /\ now > 0 => t = MostPlausible(l)
  <2>1. CASE Informs(batch)
    BY <1>1, <1>2, <1>3, <1>5, <1>6, <1>7, <2>1
  <2>2. CASE ~Informs(batch)
    BY <1>1, <1>2, <1>3, <1>4, <1>7, <2>2
  <2> QED BY <2>1, <2>2
<1>9. announced' = [attention |-> now, target |-> t] /\ told' = announced'
  <2>1. announced.target = coverage /\ announced.attention = attention /\ told = announced
    BY <1>1
  <2>2. announced' = [attention |-> now, target |-> t]
    BY <1>2, <1>7, <1>8, <2>1
  <2>3. (IF now # announced.attention THEN now ELSE told.attention) = now
    BY <2>1
  <2>4. (IF t \notin {None, announced.target} THEN t ELSE told.target) = t
    BY <1>8, <2>1
  <2>5. told' = [attention |-> now, target |-> t]
    BY <1>2, <1>7, <2>3, <2>4
  <2> QED BY <2>2, <2>5
<1>10. l = None \/ Sound(l)
  BY <1>1, <1>4
<1> QED BY <1>1, <1>2, <1>3, <1>7, <1>8, <1>9, <1>10 DEF SupervisionInv

(* A weighted edge lies between the ends it is weighted from.                *)
LEMMA BentStays ==
  ASSUME NEW edge \in ClampLo..ClampHi, NEW end \in ClampLo..ClampHi, attention \in 0..100
  PROVE  /\ Bent(edge, end) \in Int
         /\ Bent(edge, end) >= ClampLo * 100 /\ Bent(edge, end) <= ClampHi * 100
<1>1. PICK a \in 0..100, d \in Nat, h \in Nat : a = attention /\ d = end - ClampLo /\ h = ClampHi - end
  <2>1. end - ClampLo \in Nat /\ ClampHi - end \in Nat
    BY DEF ClampLo, ClampHi
  <2> QED BY <2>1
<1>2. PICK b \in 0..100 : b = 100 - a
  OBVIOUS
<1>3. PICK m \in Nat, n \in Nat : m = edge - ClampLo /\ n = ClampHi - edge
  <2>1. edge - ClampLo \in Nat /\ ClampHi - edge \in Nat
    BY DEF ClampLo, ClampHi
  <2> QED BY <2>1
<1>4. d * a \in Nat /\ m * b \in Nat /\ h * a \in Nat /\ n * b \in Nat
  OBVIOUS
<1>5. Bent(edge, end) = edge * 100 + (end - edge) * a
  BY <1>1 DEF Bent
<1>6. edge * 100 + (end - edge) * a = ClampLo * 100 + (m * b + d * a)
  BY <1>1, <1>2, <1>3 DEF ClampLo
<1>7. edge * 100 + (end - edge) * a = ClampHi * 100 - (n * b + h * a)
  BY <1>1, <1>2, <1>3 DEF ClampHi
<1> QED BY <1>4, <1>5, <1>6, <1>7 DEF ClampLo, ClampHi

(* A clamped place is on Billy's floor.                                      *)
LEMMA ClampIsIn == \A x \in Int : Clamp(x, ClampLo, ClampHi) \in ClampLo..ClampHi
  BY DEF Clamp, ClampLo, ClampHi

(* So a bent band has its ends on the floor. *)
LEMMA BandIsOnTheFloor ==
  ASSUME attention \in 0..100, NEW usbX \in Positions, NEW noteX \in Positions
  PROVE  Band(usbX, noteX).lo \in ClampLo..ClampHi /\ Band(usbX, noteX).hi \in ClampLo..ClampHi
<1>1. PICK x \in Int : x = IF coverage = "usb" THEN usbX ELSE noteX
  BY SupervisionAssumption
<1>2. PICK lo, hi \in Int : /\ lo = Bent(PatrolLo, BandEnd(x - CoverageBand))
                            /\ hi = Bent(PatrolHi, BandEnd(x + CoverageBand))
                            /\ lo >= ClampLo * 100 /\ lo <= ClampHi * 100
                            /\ hi >= ClampLo * 100 /\ hi <= ClampHi * 100
  <2>1. PICK p, q \in ClampLo..ClampHi : p = BandEnd(x - CoverageBand) /\ q = BandEnd(x + CoverageBand)
    <3>1. x - CoverageBand \in Int /\ x + CoverageBand \in Int
      BY DEF CoverageBand
    <3> QED BY <3>1, ClampIsIn DEF BandEnd
  <2>2. PatrolLo \in ClampLo..ClampHi /\ PatrolHi \in ClampLo..ClampHi
    BY DEF PatrolLo, PatrolHi, ClampLo, ClampHi
  <2> QED BY <2>1, <2>2, BentStays
<1>3. CASE attention < AttentionMin \/ coverage = None
  <2>1. Band(usbX, noteX) = [lo |-> PatrolLo, hi |-> PatrolHi, pivot |-> PatrolPivot]
    BY <1>3 DEF Band
  <2> QED BY <2>1 DEF PatrolLo, PatrolHi, ClampLo, ClampHi
<1>4. CASE ~(attention < AttentionMin \/ coverage = None)
  <2>1. Band(usbX, noteX) = [lo |-> Least(lo, hi) \div 100, hi |-> (lo + hi - Least(lo, hi)) \div 100,
                            pivot |-> (lo + hi) \div 200]
    BY <1>1, <1>2, <1>4 DEF Band
  <2>2. /\ Least(lo, hi) \div 100 \in ClampLo..ClampHi
        /\ (lo + hi - Least(lo, hi)) \div 100 \in ClampLo..ClampHi
    <3>1. \A v \in Int : v >= ClampLo * 100 /\ v <= ClampHi * 100 => v \div 100 \in ClampLo..ClampHi
      BY DEF ClampLo, ClampHi
    <3>2. lo \div 100 \in ClampLo..ClampHi /\ hi \div 100 \in ClampLo..ClampHi
      BY <1>2, <3>1
    <3>3. CASE lo <= hi
      <4>1. Least(lo, hi) = lo /\ lo + hi - Least(lo, hi) = hi
        BY <3>3 DEF Least
      <4> QED BY <3>2, <4>1
    <3>4. CASE ~(lo <= hi)
      <4>1. Least(lo, hi) = hi /\ lo + hi - Least(lo, hi) = lo
        BY <3>4 DEF Least
      <4> QED BY <3>2, <4>1
    <3> QED BY <3>3, <3>4
  <2> QED BY <2>1, <2>2
<1> QED BY <1>3, <1>4

(* A turn at the end of a sweep moves the patrol only, and keeps it on the   *)
(* floor.                                                                    *)
LEMMA SupervisionTurnInv ==
  ASSUME SupervisionInv, NEW usbX \in Positions, NEW noteX \in Positions, Turn(usbX, noteX)
  PROVE  SupervisionInv'
<1>1. patrol' \in ClampLo..ClampHi
  BY BandIsOnTheFloor DEF SupervisionInv, Turn
<1>2. UNCHANGED <<evidence, attention, coverage, announced, told, observed>>
  BY DEF Turn
<1> QED BY <1>1, <1>2 DEF SupervisionInv

(* A restart forgets the evidence with the attention it recommended.         *)
LEMMA SupervisionRestartInv == SupervisionInv /\ Restart => SupervisionInv'
  BY DEF SupervisionInv, Restart, ClampLo, ClampHi

(* The invariant holds for as many events, in as many batches, as there are. *)
LEMMA SupervisionInvHolds == SupervisionSpec => []SupervisionInv
<1>1. SupervisionInv /\ [SupervisionNext]_supervisionVars => SupervisionInv'
  <2> SUFFICES ASSUME SupervisionInv, [SupervisionNext]_supervisionVars PROVE SupervisionInv'
    OBVIOUS
  <2>1. CASE \E batch \in Batches : Tick(batch)
    BY <2>1, SupervisionTickInv
  <2>2. CASE Restart
    BY <2>2, SupervisionRestartInv
  <2>3. CASE \E usbX, noteX \in Positions : Turn(usbX, noteX)
    BY <2>3, SupervisionTurnInv
  <2>4. CASE UNCHANGED supervisionVars
    BY <2>4 DEF SupervisionInv, supervisionVars
  <2> QED BY <2>1, <2>2, <2>3, <2>4 DEF SupervisionNext
<1> QED BY <1>1, SupervisionInitInv, PTL DEF SupervisionSpec

(* The invariant says of the supervisor what the run checks of it.           *)
LEMMA SupervisionInvIsSound == SupervisionInv => SupervisionIsSound
<1> SUFFICES ASSUME SupervisionInv PROVE SupervisionIsSound
  OBVIOUS
<1>1. EvidenceIsBounded
  <2> SUFFICES ASSUME evidence # None
               PROVE  /\ \A S \in DOMAIN evidence.focal : S # {} /\ S \subseteq Frame /\ evidence.focal[S] \in 1..MassTotal
                      /\ Plausibility(evidence, Frame) + evidence.conflict <= MassTotal
                      /\ \A prop \in SUBSET Frame :
                           /\ Belief(evidence, prop) <= Plausibility(evidence, prop)
                           /\ Plausibility(evidence, prop) <= MassTotal - evidence.conflict
    BY DEF EvidenceIsBounded
  <2>1. Sound(evidence)
    BY DEF SupervisionInv
  <2>2. \A S \in DOMAIN evidence.focal : S # {} /\ S \subseteq Frame /\ evidence.focal[S] \in 1..MassTotal
    BY <2>1 DEF Sound
  <2> QED BY <2>1, <2>2, SoundIsBounded
<1>2. CoverageFollowsEvidence
  <2>1. evidence # None =>
          LET best == CHOOSE i \in 1..2 :
                \A j \in 1..2 : LET a(k) == RecommendedAttention(evidence, Targets[k])
                                IN a(i) > a(j) \/ (a(i) = a(j) /\ i <= j)
          IN MostPlausible(evidence) = Targets[best]
    BY AllocationIs DEF SupervisionInv
  <2> QED BY <2>1 DEF SupervisionInv, CoverageFollowsEvidence
<1>3. SweepCanArrive
  BY DEF SupervisionInv, SweepCanArrive, Clamp, ClampLo, ClampHi
<1> QED BY <1>1, <1>2, <1>3 DEF SupervisionIsSound

(* However many events are combined and rounded, the masses stay within the  *)
(* whole, the allocation announced is the one the evidence gives, and the     *)
(* sweep it bends ends where Billy can come.                                 *)
THEOREM SupervisionSound == SupervisionSpec => []SupervisionIsSound
  BY SupervisionInvHolds, SupervisionInvIsSound, PTL

-------------------------------------------------------------------------------
(* The actor registry. *)

(* One operation on a form. *)
Operated(op, form) == [form EXCEPT ![op.stat] = Value(op, form[op.stat])]

(* Four operations apply one after another. *)
LEMMA FourOps ==
  ASSUME NEW ops, Len(ops) = 4, NEW from
  PROVE  ApplyOps(ops, from) = Operated(ops[4], Operated(ops[3], Operated(ops[2], Operated(ops[1], from))))
<1> DEFINE Recurs(f) == f = [n \in 0..4 |-> IF n = 0 THEN from ELSE Operated(ops[n], f[n - 1])]
<1>1. PICK a, b, c, d : a = Operated(ops[1], from) /\ b = Operated(ops[2], a) /\ c = Operated(ops[3], b) /\ d = Operated(ops[4], c)
  OBVIOUS
<1>2. \E f : Recurs(f)
  <2> DEFINE f == [n \in 0..4 |-> IF n = 0 THEN from ELSE IF n = 1 THEN a ELSE IF n = 2 THEN b ELSE IF n = 3 THEN c ELSE d]
             g == [n \in 0..4 |-> IF n = 0 THEN from ELSE Operated(ops[n], f[n - 1])]
  <2>1. \A n \in 0..4 : n = 0 \/ n = 1 \/ n = 2 \/ n = 3 \/ n = 4
    OBVIOUS
  <2>2. f[0] = from /\ f[1] = a /\ f[2] = b /\ f[3] = c /\ f[4] = d
    OBVIOUS
  <2>3. g[0] = from /\ g[1] = Operated(ops[1], f[0]) /\ g[2] = Operated(ops[2], f[1])
        /\ g[3] = Operated(ops[3], f[2]) /\ g[4] = Operated(ops[4], f[3])
    OBVIOUS
  <2>4. \A n \in 0..4 : f[n] = g[n]
    <3> HIDE DEF f, g
    <3> QED BY <1>1, <2>1, <2>2, <2>3
  <2>5. f = [n \in 0..4 |-> f[n]] /\ g = [n \in 0..4 |-> g[n]]
    OBVIOUS
  <2>6. f = g
    <3> HIDE DEF f, g
    <3> QED BY <2>4, <2>5
  <2> QED BY <2>6
<1>3. ApplyOps(ops, from) = (CHOOSE f : Recurs(f))[4]
  BY DEF ApplyOps, Operated
<1>4. PICK f : Recurs(f) /\ ApplyOps(ops, from) = f[4]
  BY <1>2, <1>3
<1>5. f[0] = from /\ f[1] = Operated(ops[1], f[0]) /\ f[2] = Operated(ops[2], f[1])
      /\ f[3] = Operated(ops[3], f[2]) /\ f[4] = Operated(ops[4], f[3])
  BY <1>4
<1> HIDE DEF Recurs
<1> QED BY <1>4, <1>5

Forms == [StatIds -> Int]

(* An operation changes its stat and no other. *)
LEMMA OperatedIs ==
  ASSUME NEW op, op.stat \in StatIds, NEW form \in Forms, NEW v \in Int, v = Value(op, form[op.stat])
  PROVE  /\ Operated(op, form) \in Forms
         /\ Operated(op, form)[op.stat] = v
         /\ \A s \in StatIds : s # op.stat => Operated(op, form)[s] = form[s]
  BY DEF Operated, Forms

(* What the shipped modifiers do. *)
LEMMA ModifierIs ==
  ASSUME NEW a, NEW b, NEW c, NEW d, NEW form \in Forms,
         a.stat \in StatIds, b.stat \in StatIds, c.stat \in StatIds, d.stat \in StatIds,
         a.stat # b.stat, a.stat # c.stat, a.stat # d.stat, b.stat # c.stat, b.stat # d.stat, c.stat # d.stat,
         NEW p \in Int, p = Value(a, form[a.stat]), NEW q \in Int, q = Value(b, form[b.stat]),
         NEW x \in Int, x = Value(c, form[c.stat]), NEW y \in Int, y = Value(d, form[d.stat])
  PROVE  \E g \in Forms :
           /\ ApplyOps(<<a, b, c, d>>, form) = g
           /\ g[a.stat] = p /\ g[b.stat] = q /\ g[c.stat] = x /\ g[d.stat] = y
           /\ \A s \in StatIds : s \notin {a.stat, b.stat, c.stat, d.stat} => g[s] = form[s]
<1>1. PICK f1, f2, f3, f4 : /\ f1 = Operated(a, form) /\ f2 = Operated(b, f1)
                            /\ f3 = Operated(c, f2) /\ f4 = Operated(d, f3)
  OBVIOUS
<1>2. /\ f1 \in Forms /\ f1[a.stat] = p
      /\ \A s \in StatIds : s # a.stat => f1[s] = form[s]
  BY <1>1, OperatedIs
<1>3. /\ f2 \in Forms /\ f2[b.stat] = q
      /\ \A s \in StatIds : s # b.stat => f2[s] = f1[s]
  <2>1. q = Value(b, f1[b.stat])
    BY <1>2
  <2> QED BY <1>1, <1>2, <2>1, OperatedIs
<1>4. /\ f3 \in Forms /\ f3[c.stat] = x
      /\ \A s \in StatIds : s # c.stat => f3[s] = f2[s]
  <2>1. x = Value(c, f2[c.stat])
    BY <1>2, <1>3
  <2> QED BY <1>1, <1>3, <2>1, OperatedIs
<1>5. /\ f4 \in Forms /\ f4[d.stat] = y
      /\ \A s \in StatIds : s # d.stat => f4[s] = f3[s]
  <2>1. y = Value(d, f3[d.stat])
    BY <1>2, <1>3, <1>4
  <2> QED BY <1>1, <1>4, <2>1, OperatedIs
<1>6. ApplyOps(<<a, b, c, d>>, form) = f4
  <2> DEFINE ops == <<a, b, c, d>>
  <2>1. Len(ops) = 4 /\ ops[1] = a /\ ops[2] = b /\ ops[3] = c /\ ops[4] = d
    OBVIOUS
  <2> HIDE DEF ops
  <2>2. ApplyOps(ops, form) = Operated(ops[4], Operated(ops[3], Operated(ops[2], Operated(ops[1], form))))
    BY <2>1, FourOps
  <2>3. ApplyOps(ops, form) = f4
    BY <1>1, <2>1, <2>2
  <2> QED BY <2>3 DEF ops
<1> QED BY <1>2, <1>3, <1>4, <1>5, <1>6

(* What the veteran modifier makes of a form, stat by stat.                  *)
LEMMA VeteranIs ==
  ASSUME NEW form \in Forms
  PROVE  \E g \in Forms :
           /\ ApplyOps(Shipped.modifiers["veteran"].ops, form) = g
           /\ g["PursueSpeed"] = (form["PursueSpeed"] * 115) \div 100
           /\ g["BeliefThreshold"] = form["BeliefThreshold"] - 600
           /\ g["SightCrouch"] = (form["SightCrouch"] * 115) \div 100
           /\ g["GiveupAgo"] = form["GiveupAgo"] + 140
           /\ \A s \in {"AssessSpeed", "GiveupDist", "PiDecay"} : g[s] = form[s]
<1>1. PICK a, b, c, d : /\ a = Op("PursueSpeed", "Mul", 115) /\ b = Op("BeliefThreshold", "Add", -600)
                        /\ c = Op("SightCrouch", "Mul", 115) /\ d = Op("GiveupAgo", "Add", 140)
  OBVIOUS
<1>2. Shipped.modifiers["veteran"].ops = <<a, b, c, d>>
  BY <1>1 DEF Shipped
<1>3. a.stat = "PursueSpeed" /\ b.stat = "BeliefThreshold" /\ c.stat = "SightCrouch" /\ d.stat = "GiveupAgo"
  BY <1>1 DEF Op
<1>4. \A v : /\ Value(a, v) = (v * 115) \div 100 /\ Value(b, v) = v + (-600)
            /\ Value(c, v) = (v * 115) \div 100 /\ Value(d, v) = v + 140
  BY <1>1 DEF Op, Value
<1>5. PICK i, j, k, l \in Int : i = form["PursueSpeed"] /\ j = form["BeliefThreshold"] /\ k = form["SightCrouch"] /\ l = form["GiveupAgo"]
  BY DEF Forms, StatIds, Speeds
<1>6. PICK p, q, x, y \in Int : p = (i * 115) \div 100 /\ q = j - 600 /\ x = (k * 115) \div 100 /\ y = l + 140
  OBVIOUS
<1>7. p = Value(a, form[a.stat]) /\ q = Value(b, form[b.stat]) /\ x = Value(c, form[c.stat]) /\ y = Value(d, form[d.stat])
  <2>1. q = j + (-600)
    BY <1>6
  <2> QED BY <1>3, <1>4, <1>5, <1>6, <2>1
<1>8. /\ a.stat \in StatIds /\ b.stat \in StatIds /\ c.stat \in StatIds /\ d.stat \in StatIds
      /\ a.stat # b.stat /\ a.stat # c.stat /\ a.stat # d.stat /\ b.stat # c.stat /\ b.stat # d.stat /\ c.stat # d.stat
  BY <1>3 DEF StatIds, Speeds
<1>9. PICK g \in Forms :
        /\ ApplyOps(<<a, b, c, d>>, form) = g
        /\ g[a.stat] = p /\ g[b.stat] = q /\ g[c.stat] = x /\ g[d.stat] = y
        /\ \A s \in StatIds : s \notin {a.stat, b.stat, c.stat, d.stat} => g[s] = form[s]
  BY <1>7, <1>8, ModifierIs
<1>10. \A s \in {"AssessSpeed", "GiveupDist", "PiDecay"} : s \in StatIds /\ s \notin {a.stat, b.stat, c.stat, d.stat}
  BY <1>3 DEF StatIds, Speeds
<1> QED BY <1>2, <1>3, <1>5, <1>6, <1>9, <1>10

(* What the skittish modifier makes of a form, stat by stat.                 *)
LEMMA SkittishIs ==
  ASSUME NEW form \in Forms
  PROVE  \E g \in Forms :
           /\ ApplyOps(Shipped.modifiers["skittish"].ops, form) = g
           /\ g["AssessSpeed"] = (form["AssessSpeed"] * 120) \div 100
           /\ g["BeliefThreshold"] = (form["BeliefThreshold"] * 50) \div 100
           /\ g["PiDecay"] = form["PiDecay"] + 45
           /\ g["GiveupDist"] = (form["GiveupDist"] * 150) \div 100
           /\ \A s \in {"PursueSpeed", "SightCrouch", "GiveupAgo"} : g[s] = form[s]
<1>1. PICK a, b, c, d : /\ a = Op("AssessSpeed", "Mul", 120) /\ b = Op("BeliefThreshold", "Mul", 50)
                        /\ c = Op("PiDecay", "Add", 45) /\ d = Op("GiveupDist", "Mul", 150)
  OBVIOUS
<1>2. Shipped.modifiers["skittish"].ops = <<a, b, c, d>>
  BY <1>1 DEF Shipped
<1>3. a.stat = "AssessSpeed" /\ b.stat = "BeliefThreshold" /\ c.stat = "PiDecay" /\ d.stat = "GiveupDist"
  BY <1>1 DEF Op
<1>4. \A v : /\ Value(a, v) = (v * 120) \div 100 /\ Value(b, v) = (v * 50) \div 100
            /\ Value(c, v) = v + 45 /\ Value(d, v) = (v * 150) \div 100
  BY <1>1 DEF Op, Value
<1>5. PICK i, j, k, l \in Int : i = form["AssessSpeed"] /\ j = form["BeliefThreshold"] /\ k = form["PiDecay"] /\ l = form["GiveupDist"]
  BY DEF Forms, StatIds, Speeds
<1>6. PICK p, q, x, y \in Int : p = (i * 120) \div 100 /\ q = (j * 50) \div 100 /\ x = k + 45 /\ y = (l * 150) \div 100
  OBVIOUS
<1>7. p = Value(a, form[a.stat]) /\ q = Value(b, form[b.stat]) /\ x = Value(c, form[c.stat]) /\ y = Value(d, form[d.stat])
  BY <1>3, <1>4, <1>5, <1>6
<1>8. /\ a.stat \in StatIds /\ b.stat \in StatIds /\ c.stat \in StatIds /\ d.stat \in StatIds
      /\ a.stat # b.stat /\ a.stat # c.stat /\ a.stat # d.stat /\ b.stat # c.stat /\ b.stat # d.stat /\ c.stat # d.stat
  BY <1>3 DEF StatIds, Speeds
<1>9. PICK g \in Forms :
        /\ ApplyOps(<<a, b, c, d>>, form) = g
        /\ g[a.stat] = p /\ g[b.stat] = q /\ g[c.stat] = x /\ g[d.stat] = y
        /\ \A s \in StatIds : s \notin {a.stat, b.stat, c.stat, d.stat} => g[s] = form[s]
  BY <1>7, <1>8, ModifierIs
<1>10. \A s \in {"PursueSpeed", "SightCrouch", "GiveupAgo"} : s \in StatIds /\ s \notin {a.stat, b.stat, c.stat, d.stat}
  BY <1>3 DEF StatIds, Speeds
<1> QED BY <1>2, <1>3, <1>5, <1>6, <1>9, <1>10

(* What the shipped archetype is after the modifiers applied, once each: only *)
(* the belief threshold depends on their order.                              *)
ShippedForm(form, v, s) ==
  /\ form \in Forms
  /\ form["AssessSpeed"] = (IF s THEN 66 ELSE 55) /\ form["PursueSpeed"] = (IF v THEN 138 ELSE 120)
  /\ form["SightCrouch"] = (IF v THEN 71 ELSE 62) /\ form["GiveupAgo"] = (IF v THEN 460 ELSE 320)
  /\ form["GiveupDist"] = (IF s THEN 3000 ELSE 2000) /\ form["PiDecay"] = (IF s THEN 135 ELSE 90)
  /\ form["BeliefThreshold"] \in (IF v THEN IF s THEN {1800, 2100} ELSE {4200} ELSE IF s THEN {2400} ELSE {4800})

(* No shipped statistic leaves this range. *)
Small == 0..10000

(* Each of the forms the shipped modifiers make is one the simulation        *)
(* trusts.                                                                   *)
LEMMA ShippedFormIsTrusted ==
  ASSUME NEW form, NEW v, NEW s, ShippedForm(form, v, s)
  PROVE  Trusted(form)
<1>1. \A i \in StatIds : i \in {"AssessSpeed", "PursueSpeed", "BeliefThreshold", "SightCrouch", "GiveupAgo", "GiveupDist", "PiDecay"}
  BY DEF StatIds, Speeds
<1>2. \A i \in StatIds : form[i] \in Small
  BY <1>1, SMT DEF ShippedForm, Small
<1>3. \A i \in StatIds : IsFinite(form[i])
  <2>1. \A x \in Small : IsFinite(x)
    BY SMT DEF IsFinite, Infinite, Small
  <2> QED BY <1>2, <2>1, Zenon
<1>4. \A i \in Speeds : form[i] >= 0
  BY DEF ShippedForm, Speeds
<1>5. form["BeliefThreshold"] > 0 /\ form["BeliefThreshold"] <= 10000
  BY DEF ShippedForm
<1> QED BY <1>3, <1>4, <1>5 DEF Trusted

Once == \A i, j \in DOMAIN applied : applied[i] = applied[j] => i = j
With(m) == \E i \in DOMAIN applied : applied[i] = m

RegistryInv ==
  /\ PackLoads(pack) /\ base \in DOMAIN pack.archetypes
  /\ applied \in Seq(DOMAIN pack.modifiers)
  /\ applied = <<>> => stats = pack.archetypes[base].stats
  /\ pack = Shipped /\ Once => ShippedForm(stats, With("veteran"), With("skittish"))

(* The shipped archetype as it is, before any modifier.                      *)
LEMMA RegistryInitInv == RegistryInit => RegistryInv
<1> SUFFICES ASSUME RegistryInit PROVE RegistryInv
  OBVIOUS
<1>1. ASSUME pack = Shipped PROVE ShippedForm(stats, With("veteran"), With("skittish"))
  <2>1. base = "billy" /\ stats = Billy.stats
    BY <1>1 DEF RegistryInit, Shipped
  <2>2. With("veteran") = FALSE /\ With("skittish") = FALSE
    BY DEF With, RegistryInit
  <2>3. Billy.stats = [AssessSpeed |-> 55, PursueSpeed |-> 120, BeliefThreshold |-> 4800,
              SightCrouch |-> 62, GiveupAgo |-> 320, GiveupDist |-> 2000, PiDecay |-> 90]
    BY DEF Billy
  <2>4. Billy.stats \in Forms
    BY <2>3 DEF Forms, StatIds, Speeds
  <2>5. ShippedForm(Billy.stats, FALSE, FALSE)
    BY <2>3, <2>4 DEF ShippedForm
  <2> QED BY <2>1, <2>2, <2>5
<1>2. applied \in Seq(DOMAIN pack.modifiers)
  BY DEF RegistryInit
<1> QED BY <1>1, <1>2 DEF RegistryInv, RegistryInit

(* A modifier applied once more turns one of the shipped forms into another. *)
LEMMA RegistryNextInv == RegistryInv /\ [RegistryNext]_registryVars => RegistryInv'
<1> SUFFICES ASSUME RegistryInv, [RegistryNext]_registryVars PROVE RegistryInv'
  OBVIOUS
<1>1. CASE UNCHANGED registryVars
  BY <1>1 DEF registryVars, RegistryInv, Once, With
<1>2. CASE RegistryNext
  <2>1. PICK m \in DOMAIN pack.modifiers : ApplyModifier(m)
    BY <1>2 DEF RegistryNext
  <2>2. /\ pack' = pack /\ base' = base /\ applied' = Append(applied, m)
        /\ stats' = ApplyOps(pack.modifiers[m].ops, stats)
        /\ applied \in Seq(DOMAIN pack.modifiers)
    BY <2>1 DEF ApplyModifier, RegistryInv
  <2>3. PICK n \in Nat : /\ n = Len(applied) /\ DOMAIN applied = 1..n /\ DOMAIN applied' = 1..(n + 1)
                         /\ (\A i \in 1..n : applied'[i] = applied[i]) /\ applied'[n + 1] = m
                         /\ applied' \in Seq(DOMAIN pack.modifiers) /\ applied' # <<>>
    BY <2>2
  <2>4. ASSUME pack' = Shipped, Once' PROVE ShippedForm(stats, With("veteran"), With("skittish"))'
    <3>1. Once /\ ~With(m)
      BY <2>3, <2>4 DEF Once, With
    <3>2. \A k : With(k)' <=> (With(k) \/ k = m)
      <4>1. ASSUME NEW k, With(k) PROVE With(k)'
        BY <2>3, <4>1 DEF With
      <4>2. ASSUME NEW k, k = m PROVE With(k)'
        BY <2>3, <4>2 DEF With
      <4>3. ASSUME NEW k, With(k)' PROVE With(k) \/ k = m
        <5>1. PICK i \in 1..(n + 1) : applied'[i] = k
          BY <2>3, <4>3 DEF With
        <5>2. i \in 1..n \/ i = n + 1
          BY <5>1
        <5> QED BY <2>3, <5>1, <5>2 DEF With
      <4> QED BY <4>1, <4>2, <4>3
    <3>3. m \in {"veteran", "skittish"} /\ pack = Shipped
      BY <2>2, <2>4 DEF Shipped
    <3>4. ShippedForm(stats, With("veteran"), With("skittish"))
      BY <3>1, <3>3 DEF RegistryInv
    <3>5. stats \in Forms
      BY <3>4 DEF ShippedForm
    <3>6. CASE m = "veteran"
      <4>1. PICK g \in Forms :
           /\ stats' = g
           /\ g["PursueSpeed"] = (stats["PursueSpeed"] * 115) \div 100
           /\ g["BeliefThreshold"] = stats["BeliefThreshold"] - 600
           /\ g["SightCrouch"] = (stats["SightCrouch"] * 115) \div 100
           /\ g["GiveupAgo"] = stats["GiveupAgo"] + 140
           /\ \A s \in {"AssessSpeed", "GiveupDist", "PiDecay"} : g[s] = stats[s]
        BY <2>2, <3>3, <3>5, <3>6, VeteranIs
      <4>2. ~With("veteran") /\ With("veteran")' /\ (With("skittish")' <=> With("skittish"))
        BY <3>1, <3>2, <3>6
      <4> QED BY <3>4, <4>1, <4>2 DEF ShippedForm
    <3>7. CASE m = "skittish"
      <4>1. PICK g \in Forms :
           /\ stats' = g
           /\ g["AssessSpeed"] = (stats["AssessSpeed"] * 120) \div 100
           /\ g["BeliefThreshold"] = (stats["BeliefThreshold"] * 50) \div 100
           /\ g["PiDecay"] = stats["PiDecay"] + 45
           /\ g["GiveupDist"] = (stats["GiveupDist"] * 150) \div 100
           /\ \A s \in {"PursueSpeed", "SightCrouch", "GiveupAgo"} : g[s] = stats[s]
        BY <2>2, <3>3, <3>5, <3>7, SkittishIs
      <4>2. ~With("skittish") /\ With("skittish")' /\ (With("veteran")' <=> With("veteran"))
        BY <3>1, <3>2, <3>7
      <4> QED BY <3>4, <4>1, <4>2 DEF ShippedForm
    <3> QED BY <3>3, <3>6, <3>7
  <2> QED BY <2>2, <2>3, <2>4 DEF RegistryInv
<1> QED BY <1>1, <1>2

(* Every archetype of a pack that loads can be trusted, whatever the pack, and *)
(* so can every form of the shipped one, whichever modifiers are applied, once *)
(* each and in any order.                                                   *)
THEOREM ShippedFormsTrusted == RegistrySpec => []ShippedFormsAreTrusted
<1>1. RegistryInv => ShippedFormsAreTrusted
  <2> SUFFICES ASSUME RegistryInv PROVE ShippedFormsAreTrusted
    OBVIOUS
  <2>1. ASSUME applied = <<>> PROVE Trusted(stats)
    BY <2>1 DEF RegistryInv, PackLoads, StatsPass, Trusted
  <2>2. ASSUME pack = Shipped, Once PROVE Trusted(stats)
    BY <2>2, ShippedFormIsTrusted DEF RegistryInv
  <2> QED BY <2>1, <2>2 DEF ShippedFormsAreTrusted, Once
<1> QED BY <1>1, RegistryInitInv, RegistryNextInv, PTL DEF RegistrySpec

===============================================================================
