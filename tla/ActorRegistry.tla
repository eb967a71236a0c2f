------------------------------ MODULE ActorRegistry ------------------------------
(***************************************************************************)
(* The actor registry (scenario/actor): archetypes, modifiers, the checks an *)
(* actor pack must pass, and the composition of an archetype with modifiers. *)
(*                                                                         *)
(* A stat is an integer, in hundredths where the code has a fraction; the    *)
(* stats the checks tell apart are a speed, the belief threshold and one     *)
(* more.  A modifier multiplies by hundredths.                               *)
(***************************************************************************)
EXTENDS Integers, Sequences

CONSTANTS
  Packs,    \* the payloads handed to load_actor_pack
  MaxForms  \* bound: modifiers applied to one actor

Speeds == {"AssessSpeed", "PursueSpeed"}
StatIds == Speeds \cup {"BeliefThreshold", "SightCrouch", "GiveupAgo", "GiveupDist", "PiDecay"}

Infinite == 1000000000
IsFinite(v) == v > -Infinite /\ v < Infinite

-------------------------------------------------------------------------------
(* ActorRegistry::validate *)

ArchetypesPass(r) ==
  /\ DOMAIN r.archetypes # {}
  /\ \A k \in DOMAIN r.archetypes : LET a == r.archetypes[k] IN
       /\ a.id = k
       /\ \A o \in DOMAIN a.interests : a.interests[o] \in 0..100

(* Mutant of StatsPass: the belief threshold has no upper end. *)
StatsPassUnbounded(r) ==
  \A k \in DOMAIN r.archetypes : LET stats == r.archetypes[k].stats IN
    /\ \A s \in StatIds : IsFinite(stats[s])
    /\ \A s \in Speeds : stats[s] >= 0
    /\ stats["BeliefThreshold"] > 0

StatsPass(r) ==
  \A k \in DOMAIN r.archetypes : LET stats == r.archetypes[k].stats IN
    /\ \A s \in StatIds : IsFinite(stats[s])
    /\ \A s \in Speeds : stats[s] >= 0
    /\ stats["BeliefThreshold"] > 0 /\ stats["BeliefThreshold"] <= 10000

ModifiersPass(r) ==
  \A k \in DOMAIN r.modifiers :
    /\ r.modifiers[k].id = k
    /\ \A i \in DOMAIN r.modifiers[k].ops : IsFinite(r.modifiers[k].ops[i].value)

PackLoads(r) ==
  r.format = "idaptik-actors/1" /\ ArchetypesPass(r) /\ StatsPass(r) /\ ModifiersPass(r)

-------------------------------------------------------------------------------
(* default_registry *)
Op(stat, op, value) == [stat |-> stat, op |-> op, value |-> value]

Billy ==
  [id |-> "billy", interests |-> [note |-> 90, usb |-> 75],
   stats |-> [AssessSpeed |-> 55, PursueSpeed |-> 120, BeliefThreshold |-> 4800,
              SightCrouch |-> 62, GiveupAgo |-> 320, GiveupDist |-> 2000, PiDecay |-> 90]]

Shipped ==
  [format |-> "idaptik-actors/1", archetypes |-> [billy |-> Billy],
   modifiers |->
     [veteran |-> [id |-> "veteran",
        ops |-> << Op("PursueSpeed", "Mul", 115), Op("BeliefThreshold", "Add", -600),
                   Op("SightCrouch", "Mul", 115), Op("GiveupAgo", "Add", 140) >>],
      skittish |-> [id |-> "skittish",
        ops |-> << Op("AssessSpeed", "Mul", 120), Op("BeliefThreshold", "Mul", 50),
                   Op("PiDecay", "Add", 45), Op("GiveupDist", "Mul", 150) >>]]]

-------------------------------------------------------------------------------
VARIABLES
  pack,     \* the registry loaded
  base,     \* the archetype composed
  applied,  \* the modifiers applied so far, in order
  stats     \* the composed stats

registryVars == <<pack, base, applied, stats>>

(* ActorRegistry::compose, from the archetype's own form. *)
RegistryInit ==
  /\ pack \in {r \in Packs : PackLoads(r)}
  /\ base \in DOMAIN pack.archetypes
  /\ applied = <<>>
  /\ stats = pack.archetypes[base].stats

(* Mutant of Value: an addition replaces. *)
ValueReplaces(op, v) == IF op.op = "Mul" THEN (v * op.value) \div 100 ELSE op.value

(* StatOp::apply *)
Value(op, v) ==
  CASE op.op = "Add" -> v + op.value
    [] op.op = "Mul" -> (v * op.value) \div 100
    [] op.op = "Set" -> op.value

(* The operations of a modifier apply in their listed order. *)
ApplyOps(ops, from) ==
  LET after[n \in 0..Len(ops)] ==
        IF n = 0 THEN from
        ELSE LET before == after[n - 1]
             IN [before EXCEPT ![ops[n].stat] = Value(ops[n], @)]
  IN after[Len(ops)]

ApplyModifier(m) ==
  /\ Len(applied) < MaxForms
  /\ stats' = ApplyOps(pack.modifiers[m].ops, stats)
  /\ applied' = Append(applied, m)
  /\ UNCHANGED <<pack, base>>

RegistryNext == \E m \in DOMAIN pack.modifiers : ApplyModifier(m)
RegistrySpec == RegistryInit /\ [][RegistryNext]_registryVars

-------------------------------------------------------------------------------
(* Properties. *)

Trusted(form) ==
  /\ \A s \in StatIds : IsFinite(form[s])
  /\ \A s \in Speeds : form[s] >= 0
  /\ form["BeliefThreshold"] > 0 /\ form["BeliefThreshold"] <= 10000

(* Every archetype of a pack that loads is one the actor machine can run,   *)
(* and so is every form of the shipped pack, whichever of its modifiers are  *)
(* applied, once each and in any order.                                      *)
ShippedFormsAreTrusted ==
  /\ applied = <<>> => Trusted(stats)
  /\ pack = Shipped /\ (\A i, j \in DOMAIN applied : applied[i] = applied[j] => i = j)
       => Trusted(stats)

(* load_actor_pack: "whatever comes through is a registry the simulation can *)
(* trust": every composed form of it passes the checks of a base form.       *)
ComposedFormsAreTrusted == Trusted(stats)
=============================================================================
