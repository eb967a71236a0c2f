--------------------------------- MODULE SimTick ---------------------------------
(***************************************************************************)
(* The shell of a tick: a command stream is folded into an input           *)
(* (scenario/command.rs) and the simulation takes it (GhostLobbySim::tick,   *)
(* new, reset, snapshot and restore in scenario/sim/mod.rs).                *)
(*                                                                         *)
(* There is one button, one edge and one command of each group of            *)
(* immediates; the run a tick advances is four numbers: GhostLobby and its   *)
(* companions say what is in it.                                            *)
(***************************************************************************)
EXTENDS Integers, Sequences, SequencesExt

ButtonCommands == {"Down", "Up"}
EdgeCommands == {"Jump"}
Commands == ButtonCommands \cup EdgeCommands \cup {"Uplink", "ForceExtract", "Pause", "Resume", "Restart"}

(* fold, a command at a time. *)
FoldOne(input, c) ==
  CASE c \in ButtonCommands -> [input EXCEPT !.button = c = "Down"]
    [] c \in EdgeCommands -> [input EXCEPT !.edges = Append(@, c)]
    [] OTHER -> [input EXCEPT !.immediates = Append(@, c)]

FoldCommands(cmds, held) ==
  FoldLeft(FoldOne, [button |-> held, edges |-> <<>>, immediates |-> <<>>], cmds)

(* The button as the stream leaves it. *)
HeldAfter(cmds, held) == FoldCommands(cmds, held).button

-------------------------------------------------------------------------------
(* What a tick may tell, and a simulation. *)
TickEvents ==
  {"RunStarted", "SeedAnnounced", "Paused", "Resumed", "Restarted", "UplinkFired", "RunEnded", "Jumped"}
Sims ==
  [run : [tick : Nat, x : Nat, jumps : Nat, work : Nat, paused : BOOLEAN, ended : BOOLEAN],
   events : Seq(TickEvents)]

Start == <<"RunStarted", "SeedAnnounced">>
FreshRun == [tick |-> 0, x |-> 0, jumps |-> 0, work |-> 0, paused |-> FALSE, ended |-> FALSE]

(* GhostLobbySim::new: the run and the events that wait for the first tick. *)
FreshSim == [run |-> FreshRun, events |-> Start]

(* snapshot, then restore: the events on their way out are in neither. *)
Restored(run) == [run |-> run, events |-> <<>>]

(* The first pass over the immediates: pauses, and a restart that ends it. *)
SessionOne(acc, c) ==
  IF acc.over THEN acc
  ELSE CASE c = "Pause" /\ ~acc.run.paused ->
              [acc EXCEPT !.run.paused = TRUE, !.events = Append(@, "Paused")]
         [] c = "Resume" /\ acc.run.paused ->
              [acc EXCEPT !.run.paused = FALSE, !.events = Append(@, "Resumed")]
         [] c = "Restart" ->
              [run |-> FreshRun, events |-> acc.events \o <<"Restarted">> \o Start, over |-> TRUE]
         [] OTHER -> acc
SessionPass(s, immediates) ==
  FoldLeft(SessionOne, [run |-> s.run, events |-> s.events, over |-> FALSE], immediates)

(* The second pass: the work on the uplink, until something ends the run. *)
WorkOne(s, c) ==
  IF s.run.ended THEN s
  ELSE CASE c = "Uplink" -> [s EXCEPT !.run.work = @ + 1, !.events = Append(@, "UplinkFired")]
         [] c = "ForceExtract" -> [s EXCEPT !.run.ended = TRUE, !.events = Append(@, "RunEnded")]
         [] OTHER -> s
WorkPass(s, immediates) == FoldLeft(WorkOne, s, immediates)

(* update, one frame. *)
Updated(s, input) ==
  IF s.run.ended THEN s
  ELSE [s EXCEPT !.run.tick = @ + 1,
                 !.run.x = IF input.button THEN @ + 1 ELSE @,
                 !.run.jumps = @ + Len(input.edges),
                 !.events = IF input.edges = <<>> THEN @ ELSE Append(@, "Jumped")]

(* tick: the simulation after it; what it returns is in `events`. *)
Ticked(s, input) ==
  LET session == SessionPass(s, input.immediates)
      here == [run |-> session.run, events |-> session.events]
  IN IF session.over \/ here.run.paused THEN here
     ELSE Updated(WorkPass(here, input.immediates), input)

Drained(s) == [s EXCEPT !.events = <<>>]
================================================================================
