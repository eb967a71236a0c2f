----------------------------- MODULE MoleDefinition -----------------------------
(***************************************************************************)
(* The companion's definition (companion/definition.rs), its checks, the     *)
(* coprocessor bay that climbs its ladders (coprocessors.rs), and the pull   *)
(* food has on a hungry mole (hunger.rs).                                   *)
(*                                                                         *)
(* Fractions are hundredths, the hunger multiplier thousandths; a force is   *)
(* rounded down.  The vibration ladder's four readings are 0 to 3.           *)
(***************************************************************************)
EXTENDS Integers, Sequences, FiniteSets

CONSTANTS
  Kits,    \* the definitions offered
  Meals    \* scenes: where the mole and the edibles are, and the hunger

Level == 0..3   \* Stock, Basic, Enhanced, Overclocked
EquipmentKinds ==
  {"skateboard", "glider", "ram", "beacon", "rucksack", "flash", "cutter"}

(* The slot whose level reads a ladder. *)
Ladders ==
  [audio_sound_count |-> "AudioSynthesiser", path_efficiency |-> "PathOptimiser",
   sensor_range |-> "SignalProcessor", vibration_quality |-> "VibrationAnalyser",
   eat_chance_multiplier |-> "StabilisationCore"]
Slots == {Ladders[l] : l \in DOMAIN Ladders}

(* What the deserialiser builds: four rungs to a ladder, numbers that are      *)
(* unsigned, scenes of numbers.                                             *)
ASSUME KitsAssumption ==
  /\ \A k \in Kits :
       /\ k.sounds \in Int
       /\ \A l \in DOMAIN Ladders : k.ladders[l] \in [1..4 -> Int]
  /\ \A m \in Meals :
       /\ m.x \in Int /\ m.y \in Int /\ m.hunger \in Nat
       /\ \A e \in m.edibles : e.x \in Int /\ e.y \in Int

Rung(k, ladder, level) == k.ladders[ladder][level + 1]

-------------------------------------------------------------------------------
(* CompanionDefinition::validate, a family of checks at a time. *)

EquipmentPasses(k) ==
  /\ Len(k.equipment) = Cardinality(EquipmentKinds)
  /\ \A i, j \in DOMAIN k.equipment : k.equipment[i].kind = k.equipment[j].kind => i = j
  /\ \A i \in DOMAIN k.equipment : k.equipment[i].name # ""

(* Read from `hunger`; the tick reads the thresholds of `tuning`. *)
ThresholdsPass(k) ==
  /\ 0 < k.hunger.hungry /\ k.hunger.hungry <= k.hunger.starving
  /\ k.hunger.starving < k.hunger.eat /\ k.hunger.eat <= 100

TuningPasses(k) ==
  /\ \A s \in DOMAIN k.tuning.speeds : k.tuning.speeds[s] > 0
  /\ k.tuning.eatChance \in 0..100
  /\ 1 <= k.tuning.capacity /\ k.tuning.capacity <= k.tuning.rucksack
  /\ 0 < k.tuning.surface /\ k.tuning.surface < k.tuning.dog /\ k.tuning.dog <= k.tuning.deepest

Climbs(s) == \A i \in 1..(Len(s) - 1) : s[i] <= s[i + 1]
Falls(s) == \A i \in 1..(Len(s) - 1) : s[i] >= s[i + 1]

(* Mutant of LaddersPass: only the top rung is compared with the sounds. *)
LaddersPassTop(k) ==
  /\ \A l \in DOMAIN Ladders \ {"audio_sound_count", "eat_chance_multiplier"} : Climbs(k.ladders[l])
  /\ Falls(k.ladders["eat_chance_multiplier"])
  /\ Rung(k, "audio_sound_count", 3) <= k.sounds

LaddersPass(k) ==
  /\ \A l \in DOMAIN Ladders \ {"eat_chance_multiplier"} : Climbs(k.ladders[l])
  /\ Falls(k.ladders["eat_chance_multiplier"])
  /\ Rung(k, "audio_sound_count", 3) <= k.sounds

MusicPasses(k) ==
  k.music.bpm > 0 /\ k.music.melody = k.music.pattern /\ k.music.bass = k.music.pattern

KitLoads(k) ==
  /\ k.format = "idaptik-moletaire/1"
  /\ EquipmentPasses(k) /\ ThresholdsPass(k) /\ TuningPasses(k) /\ LaddersPass(k) /\ MusicPasses(k)

(* moletaire() *)
Moletaire ==
  [format |-> "idaptik-moletaire/1",
   tuning |-> [speeds |-> [underground |-> 200, ground |-> 25, skateboard |-> 55, eat |-> 120, depth |-> 1],
               eatChance |-> 5, capacity |-> 1, rucksack |-> 3, surface |-> 5, dog |-> 30, deepest |-> 100],
   hunger |-> [hungry |-> 40, starving |-> 80, eat |-> 90],
   equipment |-> << [kind |-> "skateboard", name |-> "s"], [kind |-> "glider", name |-> "g"],
                    [kind |-> "ram", name |-> "r"], [kind |-> "beacon", name |-> "b"],
                    [kind |-> "rucksack", name |-> "k"], [kind |-> "flash", name |-> "f"],
                    [kind |-> "cutter", name |-> "c"] >>,
   ladders |-> [audio_sound_count |-> <<0, 3, 6, 10>>, path_efficiency |-> <<100, 115, 130, 150>>,
                sensor_range |-> <<1, 3, 5, 8>>, vibration_quality |-> <<0, 1, 2, 3>>,
                eat_chance_multiplier |-> <<100, 60, 20, 5>>],
   sounds |-> 10,
   music |-> [bpm |-> 72, pattern |-> 32, melody |-> 32, bass |-> 32]]

-------------------------------------------------------------------------------
(* hunger.rs *)

Peckish == 40
Starving == 80
WillEat == 90
MaxPull == 200

(* Mutant of HungerMultiplier: the last band starts from nothing. *)
HungerMultiplierSeam(h) ==
  CASE h < Peckish -> 5 * h
    [] h >= Peckish /\ h < Starving -> 200 + 20 * (h - Peckish)
    [] OTHER -> 100 * (h - Starving)

HungerMultiplier(h) ==
  CASE h < Peckish -> 5 * h
    [] h >= Peckish /\ h < Starving -> 200 + 20 * (h - Peckish)
    [] OTHER -> 1000 + 100 * (h - Starving)

Sign(n) == CASE n > 0 -> 1 [] n < 0 -> -1 [] OTHER -> 0
Square(dx, dy) == dx * dx + dy * dy

Strength(dx, dy, h) ==
  (5 * HungerMultiplier(h)) \div (IF Square(dx, dy) < 100 THEN 100 ELSE Square(dx, dy))

(* calculate_pull *)
Pull(dx, dy, h) ==
  Sign(dx) * (IF Strength(dx, dy, h) > MaxPull THEN MaxPull ELSE Strength(dx, dy, h))

(* The edibles of a scene still there, and calculate_total_pull's answers.   *)
Left(m) == {e \in m.edibles : ~e.consumed}
TotalPull(m) ==
  LET sum[S \in SUBSET Left(m)] ==
        IF S = {} THEN 0
        ELSE LET e == CHOOSE e \in S : TRUE
             IN Pull(e.x - m.x, e.y - m.y, m.hunger) + sum[S \ {e}]
  IN sum[Left(m)]
NearestFood(m) ==
  {e \in Left(m) : \A o \in Left(m) : Square(e.x - m.x, e.y - m.y) <= Square(o.x - m.x, o.y - m.y)}

Behaviour(h, near) ==
  CASE h > Starving /\ near -> "Devouring"
    [] h > Starving /\ ~near -> "Wandering"
    [] h > Peckish /\ h <= Starving -> "Resisting"
    [] OTHER -> "Cooperative"

-------------------------------------------------------------------------------
VARIABLES
  kit,   \* the definition loaded
  bay,   \* the level in each slot
  meal   \* a scene

kitVars == <<kit, bay, meal>>

KitInit ==
  /\ kit \in {k \in Kits : KitLoads(k)}
  /\ bay = [s \in Slots |-> 0]
  /\ meal \in Meals

(* CoprocessorBay::upgrade *)
Upgrade(s) ==
  /\ bay[s] < 3
  /\ bay' = [bay EXCEPT ![s] = @ + 1]
  /\ UNCHANGED <<kit, meal>>

KitNext == \E s \in Slots : Upgrade(s)
KitSpec == KitInit /\ [][KitNext]_kitVars

-------------------------------------------------------------------------------
(* Properties. *)

(* A sound is looked up by its index below the installed level's count: the  *)
(* checks compare only the top level's with the sounds there are, and that   *)
(* the ladder climbs is what makes every index on the way one of a sound.    *)
(* No upgrade makes the mole see less or eat more.                           *)
UpgradesHelp ==
  /\ Rung(kit, "audio_sound_count", bay["AudioSynthesiser"]) <= kit.sounds
  /\ \A s \in Slots : \A l \in DOMAIN Ladders : Ladders[l] = s =>
       IF l = "eat_chance_multiplier" THEN Rung(kit, l, bay[s]) <= Rung(kit, l, 0)
       ELSE Rung(kit, l, bay[s]) >= Rung(kit, l, 0)

(* Food never pulls harder than the cap, or the wrong way, whatever distance  *)
(* and hunger; a hungrier mole is pulled at least as hard, across the bands'  *)
(* seams; and a mole that merely wanders was pulled by nothing.              *)
PullIsTame ==
  /\ \A e \in Left(meal) :
       LET p(h) == Pull(e.x - meal.x, e.y - meal.y, h) IN
       /\ p(meal.hunger) * Sign(e.x - meal.x) \in 0..MaxPull
       /\ meal.hunger < 100 => p(meal.hunger) * Sign(e.x - meal.x) <= p(meal.hunger + 1) * Sign(e.x - meal.x)
  /\ Behaviour(meal.hunger, NearestFood(meal) # {}) = "Wandering" => TotalPull(meal) = 0

(* Both halves of a kit: its ladders help and its appetite behaves. *)
KitIsSound == UpgradesHelp /\ PullIsTame
===============================================================================
