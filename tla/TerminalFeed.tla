------------------------------ MODULE TerminalFeed ------------------------------
(***************************************************************************)
(* Two people at two terminals of one live run: key events become intents    *)
(* (idaptik-tui/src/keymap.rs), intents become held buttons and queued       *)
(* commands (input.rs), and each sample becomes the commands the lockstep     *)
(* sends (commands_for of idaptik-net/src/interactive.rs).                   *)
(*                                                                         *)
(* What is sampled is executed at once: LockstepCore has the delay.  There   *)
(* is one button.  A terminal without release events repeats a press while   *)
(* the finger is down.                                                      *)
(***************************************************************************)
EXTENDS Envelope

CONSTANTS
  FallbackHold,   \* samples a press lasts without release events (24)
  MaxQueued       \* bound: commands queued between two samples

ASSUME TerminalAssumption == FallbackHold \in Nat \ {0}

VARIABLES
  enhanced,   \* [Role -> BOOLEAN]: does the terminal report releases
  finger,     \* [Role -> BOOLEAN]: the key is down
  input,      \* [Role -> InputState]: held, left (fallback_ticks), edges, immediates, paused
  sent,       \* [Role -> BOOLEAN]: last_sent, the base of the differences
  quiet,      \* history: samples since the last press event
  run,        \* the button held in the run, and whether it is paused
  orphaned    \* history: a process died with the button down, none pressed it since

feedVars == <<enhanced, finger, input, sent, quiet, run, orphaned>>

FreshInput == [held |-> FALSE, left |-> 0, edges |-> <<>>, immediates |-> <<>>, paused |-> FALSE]

FeedInit ==
  /\ enhanced \in [Role -> BOOLEAN]
  /\ finger = [r \in Role |-> FALSE]
  /\ input = [r \in Role |-> FreshInput]
  /\ sent = [r \in Role |-> FALSE] /\ quiet = [r \in Role |-> 0]
  /\ run = [held |-> FALSE, paused |-> FALSE]
  /\ orphaned = FALSE

(* Mutant of SetHeld: a repeated press does not renew the hold. *)
SetHeldOnce(i, full, down) ==
  [i EXCEPT !.held = down,
            !.left = CASE full -> @ [] ~full /\ down -> (IF @ = 0 THEN FallbackHold ELSE @) [] OTHER -> 0]

(* set_held; `full` is a terminal with releases. *)
SetHeld(i, full, down) ==
  [i EXCEPT !.held = down,
            !.left = CASE full -> @ [] ~full /\ down -> FallbackHold [] OTHER -> 0]

(* A press, or its repeat. *)
PressKey(r) ==
  /\ finger' = [finger EXCEPT ![r] = TRUE]
  /\ input' = [input EXCEPT ![r] = SetHeld(@, enhanced[r], TRUE)]
  /\ quiet' = [quiet EXCEPT ![r] = 0]
  /\ UNCHANGED <<enhanced, sent, run, orphaned>>

(* A release, told or not. *)
ReleaseKey(r) ==
  /\ finger[r]
  /\ finger' = [finger EXCEPT ![r] = FALSE]
  /\ input' = IF enhanced[r] THEN [input EXCEPT ![r] = SetHeld(@, TRUE, FALSE)] ELSE input
  /\ UNCHANGED <<enhanced, sent, quiet, run, orphaned>>

Queued(r) == Len(input[r].edges) + Len(input[r].immediates)

(* Intent::Edge: a jump is an edge, an uplink action an immediate. *)
TapKey(r, c) ==
  /\ Queued(r) < MaxQueued
  /\ input' = IF c = "Jump" THEN [input EXCEPT ![r].edges = Append(@, c)]
              ELSE [input EXCEPT ![r].immediates = Append(@, c)]
  /\ UNCHANGED <<enhanced, finger, sent, quiet, run, orphaned>>

(* Intent::TogglePause: the frontend's own latch. *)
TogglePause(r) ==
  /\ Queued(r) < MaxQueued
  /\ input' = [input EXCEPT ![r].paused = ~@,
                            ![r].immediates = Append(@, IF input[r].paused THEN "Resume" ELSE "Pause")]
  /\ UNCHANGED <<enhanced, finger, sent, quiet, run, orphaned>>

RestartKey(r) ==
  /\ Queued(r) < MaxQueued
  /\ input' = [input EXCEPT ![r].paused = FALSE, ![r].immediates = Append(@, "Restart")]
  /\ UNCHANGED <<enhanced, finger, sent, quiet, run, orphaned>>

(* Mutant of Decayed: the button outlives its count. *)
DecayedLate(i, full) ==
  IF full \/ i.left = 0 THEN [i EXCEPT !.held = full /\ @]
  ELSE [i EXCEPT !.left = @ - 1]

(* decay_fallback_holds *)
Decayed(i, full) ==
  IF full \/ i.left = 0 THEN i
  ELSE [i EXCEPT !.left = @ - 1, !.held = @ /\ i.left > 1]

(* sample, and the differences with the last. *)
Sampled(i, base) ==
  [out |-> (IF i.held = base THEN <<>> ELSE <<IF i.held THEN "Down" ELSE "Up">>)
             \o i.edges \o i.immediates,
   input |-> [i EXCEPT !.edges = <<>>, !.immediates = <<>>]]

(* The role filter. *)
Mine(r, cmds) ==
  FoldLeft(LAMBDA mine, c : IF r \in SeatFor(c) THEN Append(mine, c) ELSE mine, <<>>, cmds)

PausedAfter(cmds, paused) ==
  LET session == SelectSeq(cmds, LAMBDA c : c \in {"Pause", "Resume", "Restart"})
      stop == {i \in DOMAIN session : session[i] = "Restart"}
  IN CASE session = <<>> -> paused
       [] session # <<>> /\ stop # {} -> FALSE
       [] OTHER -> Last(session) = "Pause"

(* Mutant of BaseAfter: the base is what the keyboard had before the sample. *)
BaseAfterStale(r, base, held) == base

(* The base moves on only for the seat whose buttons were sent. *)
BaseAfter(r, base, held) == IF r = "infiltrator" THEN held ELSE base

(* commands_for, and the tick that executes what it returns. *)
CommandsFor(r) ==
  LET i == Decayed(input[r], enhanced[r])
      s == Sampled(i, sent[r])
      cmds == Mine(r, s.out) IN
  /\ input' = [input EXCEPT ![r] = s.input]
  /\ sent' = [sent EXCEPT ![r] = BaseAfter(r, @, i.held)]
  /\ run' = [held |-> HeldAfter(cmds, run.held), paused |-> PausedAfter(cmds, run.paused)]
  /\ quiet' = [quiet EXCEPT ![r] = IF @ < FallbackHold THEN @ + 1 ELSE @]
  /\ orphaned' = (orphaned /\ \A n \in DOMAIN cmds : cmds[n] \notin ButtonCommands)
  /\ UNCHANGED <<enhanced, finger>>

(* A seat's process dies and another rejoins: the run goes on with the       *)
(* buttons the dead one held (LockstepCore's resync carries them); the new    *)
(* terminal starts with nothing down and nothing sent.                      *)
RejoinTerminal(r) ==
  /\ finger' = [finger EXCEPT ![r] = FALSE]
  /\ input' = [input EXCEPT ![r] = FreshInput]
  /\ sent' = [sent EXCEPT ![r] = FALSE]
  /\ quiet' = [quiet EXCEPT ![r] = 0]
  /\ orphaned' = IF r = "infiltrator" THEN run.held ELSE orphaned
  /\ UNCHANGED <<enhanced, run>>

FeedNext ==
  \E r \in Role :
    \/ PressKey(r) \/ ReleaseKey(r) \/ TogglePause(r) \/ RestartKey(r)
    \/ \E c \in {"Jump", "Uplink"} : TapKey(r, c)
    \/ CommandsFor(r) \/ RejoinTerminal(r)

FeedSpec == FeedInit /\ [][FeedNext]_feedVars

-------------------------------------------------------------------------------
(* Properties. *)

(* The run's button is the infiltrator's, through any order of differences,   *)
(* samples, repeats and restarts, except that a button a process died with   *)
(* stays down until the next one presses and releases it.  The hacker's      *)
(* keyboard moves nobody and its differences do not pile up.                 *)
ButtonFollowsTheHand ==
  /\ run.held # sent["infiltrator"] => orphaned /\ run.held
  /\ ~sent["hacker"]

(* A terminal that tells of no release lets go once the presses stop, never   *)
(* while they repeat; one that does holds exactly while the finger is down.  *)
HoldsEnd ==
  \A r \in Role :
    /\ ~enhanced[r] /\ input[r].held => quiet[r] < FallbackHold
    /\ enhanced[r] => input[r].held = finger[r]
    /\ ~enhanced[r] /\ finger[r] /\ quiet[r] < FallbackHold => input[r].held

FeedIsFaithful == ButtonFollowsTheHand /\ HoldsEnd
==================================================================================
