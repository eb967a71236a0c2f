------------------------------- MODULE PackageRun -------------------------------
(***************************************************************************)
(* A game package (crates/idaptik-core/src/package.rs): the checks of        *)
(* load_package, and run_package, which plays the schedule to its end with a *)
(* snapshot on the way, restores the snapshot, plays the rest again and      *)
(* refuses the package if the two ends differ.                              *)
(***************************************************************************)
EXTENDS Option, SimTick, FiniteSets

CONSTANT Packages   \* the payloads handed to load_package

ASSUME PackageAssumption ==
  /\ \A p \in Packages :
       /\ p.runTicks \in Nat /\ p.snapshotTick \in Nat
       /\ p.commands \in Seq([tick : Nat, command : Commands])
  /\ None # "ReplayMismatch" /\ None \notin [sim : Sims, held : BOOLEAN, events : Seq(TickEvents)]

TaxonomyTerms ==
  {"room", "traversal", "camera_device", "security_actor", "non_security_actor", "prop",
   "objective", "network_action", "physical_effect"}
Roles == {"security", "non_security"}

(* load_package, a family of checks at a time.  The identifiers and versions *)
(* of format, contract, game and profile are one "envelope".                *)
EnvelopePasses(p) ==
  /\ p.envelope = "supported"
  /\ p.scenarioId = p.scenario.id /\ p.scenario.format = "idaptik-ghost-lobby-v2"
  /\ p.scenario.valid

CastPasses(p) ==
  /\ TaxonomyTerms \subseteq p.taxonomy
  /\ \A role \in Roles : \E a \in p.actors : a.role = role
  /\ \E a \in p.actors : a.role = "security" /\ a.binding = "billy"

SchedulePasses(p) ==
  /\ p.runTicks >= 2
  /\ p.snapshotTick # 0 /\ p.snapshotTick < p.runTicks
  /\ \A i \in 1..(Len(p.commands) - 1) : p.commands[i].tick <= p.commands[i + 1].tick
  /\ \A i \in DOMAIN p.commands : p.commands[i].tick < p.runTicks

GuaranteesPass(p) ==
  /\ p.deterministic /\ p.snapshotFormat = "supported"
  /\ p.required # <<>> /\ IsInjective(p.required)

PackageLoads(p) ==
  EnvelopePasses(p) /\ CastPasses(p) /\ SchedulePasses(p) /\ GuaranteesPass(p)

-------------------------------------------------------------------------------
VARIABLES
  package,
  verdict,  \* None while it runs
  next,     \* the tick to play; in the replay, the tick to play again
  played, held, events,
  saved,    \* the snapshot: run, held buttons and how many events came before
  replay    \* played, held and events of the second playing, once it runs

packageVars == <<package, verdict, next, played, held, events, saved, replay>>

CommandsAt(p, tick) ==
  FoldLeft(LAMBDA cmds, c : IF c.tick = tick THEN Append(cmds, c.command) ELSE cmds, <<>>, p.commands)

PackageInit ==
  /\ package \in {p \in Packages : PackageLoads(p)}
  /\ verdict = None /\ next = 0
  /\ played = FreshSim /\ held = FALSE /\ events = <<>>
  /\ saved = None /\ replay = None

(* Mutant of Saved: the snapshot has no held buttons, as the simulation's. *)
SavedWithoutHeld(after, buttons, log) == [run |-> after.run, held |-> FALSE, count |-> Len(log)]

Saved(after, buttons, log) == [run |-> after.run, held |-> buttons, count |-> Len(log)]

(* One iteration of the main loop. *)
PlayTick ==
  /\ verdict = None /\ replay = None /\ next < package.runTicks
  /\ LET cmds == CommandsAt(package, next)
         after == Ticked(played, FoldCommands(cmds, held)) IN
     /\ played' = Drained(after)
     /\ held' = HeldAfter(cmds, held)
     /\ events' = events \o after.events
     /\ saved' = IF next + 1 = package.snapshotTick THEN Saved(after, held', events') ELSE saved
  /\ next' = next + 1
  /\ UNCHANGED <<package, verdict, replay>>

(* The schedule has been played: back to the snapshot. *)
StartReplay ==
  /\ verdict = None /\ replay = None /\ next = package.runTicks
  /\ next' = package.snapshotTick
  /\ replay' = [sim |-> Restored(saved.run), held |-> saved.held, events |-> <<>>]
  /\ UNCHANGED <<package, verdict, played, held, events, saved>>

ReplayTick ==
  /\ verdict = None /\ replay # None /\ next < package.runTicks
  /\ LET cmds == CommandsAt(package, next)
         after == Ticked(replay.sim, FoldCommands(cmds, replay.held)) IN
     replay' = [sim |-> Drained(after), held |-> HeldAfter(cmds, replay.held),
                events |-> replay.events \o after.events]
  /\ next' = next + 1
  /\ UNCHANGED <<package, verdict, played, held, events, saved>>

Equal == /\ replay.events = SubSeq(events, saved.count + 1, Len(events))
         /\ replay.sim.run = played.run

Judge ==
  /\ verdict = None /\ replay # None /\ next = package.runTicks
  /\ verdict' = CASE ~Equal -> "ReplayMismatch"
                  [] Equal /\ ~(ToSet(package.required) \subseteq ToSet(events)) -> "MissingRequiredEvent"
                  [] OTHER -> "accepted"
  /\ UNCHANGED <<package, next, played, held, events, saved, replay>>

PackageNext == PlayTick \/ StartReplay \/ ReplayTick \/ Judge
PackageSpec == PackageInit /\ [][PackageNext]_packageVars

-------------------------------------------------------------------------------
(* Properties. *)

(* What is carried over the snapshot is all a run depends on: whatever is    *)
(* scheduled on either side of it (held buttons, pauses, restarts, an end),   *)
(* the two playings agree and no package is refused for a mismatch.  At      *)
(* every tick of the replay it is where the first playing was.              *)
ReplayIsExact ==
  /\ verdict # "ReplayMismatch"
  /\ replay # None =>
       /\ \E rest \in 0..Len(events) :
            SubSeq(events, saved.count + 1, Len(events) - rest) = replay.events
       /\ next = package.runTicks => replay.held = held
===============================================================================
