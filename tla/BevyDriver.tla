------------------------------- MODULE BevyDriver -------------------------------
(***************************************************************************)
(* The windowed frontend over a local run (crates/idaptik-bevy): the key-     *)
(* board is decoded into a command queue (keymap.rs), each fixed step drains *)
(* it into a tick and records the picture (driver.rs), the frame is drawn     *)
(* between the last two ticks (idaptik-core/src/interp.rs), and B hands the   *)
(* keyboard from one seat to the other (seats.rs).                           *)
(*                                                                         *)
(* A frame is one step of one thread: decode, as many ticks as are due, then  *)
(* the rest of the frame.  There is one held button with two keys.           *)
(***************************************************************************)
EXTENDS SimTick, FiniteSets

CONSTANTS
  TapKeys,         \* the other keys pressed: a subset of W, 1, Tab, R, B
  TicksPerFrame,   \* how many ticks may fall due in a frame
  MaxTicks,        \* bound: ticks of a run
  MaxChord,        \* bound: keys that change in a frame
  MaxPending       \* bound: commands queued when a frame begins

ASSUME DriverAssumption == TicksPerFrame \in Nat

HoldKeys == {"A", "Left"}     \* the aliases of one button
Alphas == 0..2                \* halves of the interval between two ticks

VARIABLES
  pressed, justPressed, justReleased,   \* ButtonInput<KeyCode>
  view,      \* seats.view: Both, Floor, Van
  queue,     \* CommandQueue: pending, held, paused
  sim,       \* SimState.sim
  picture,   \* VisualBuffers: prev and curr of the drawn position
  trail,     \* history: the last two ticks' positions, one if the run is new
  handed     \* history: which hold keys were down when the keyboard went to the hacker

driverVars ==
  <<pressed, justPressed, justReleased, view, queue, sim, picture, trail, handed>>

Primed(x) == [prev |-> x, curr |-> x]

DriverInit ==
  /\ pressed = {} /\ justPressed = {} /\ justReleased = {}
  /\ view = "Both"
  /\ queue = [pending |-> <<>>, held |-> FALSE, paused |-> FALSE]
  /\ sim = Drained(FreshSim)
  /\ picture = Primed(0) /\ trail = <<0>>
  /\ handed = {}

-------------------------------------------------------------------------------
(* The keyboard. *)

Changing == Cardinality(justPressed \cup justReleased) < MaxChord

KeyDown(k) ==
  /\ k \notin pressed /\ Changing
  /\ pressed' = pressed \cup {k} /\ justPressed' = justPressed \cup {k}
  /\ UNCHANGED <<justReleased, view, queue, sim, picture, trail, handed>>

(* A key released in the frame that pressed it is the hazard below.          *)
KeyUp(k) ==
  /\ k \in pressed /\ (Changing \/ k \in justPressed)
  /\ pressed' = pressed \ {k} /\ justReleased' = justReleased \cup {k}
  /\ handed' = handed \ {k}
  /\ UNCHANGED <<justPressed, view, queue, sim, picture, trail>>

(* Mutant of SyncHold: an alias that is still down is not looked at. *)
SyncHoldAlone ==
  CASE HoldKeys \cap justPressed # {} -> <<"Down">>
    [] HoldKeys \cap justPressed = {} /\ HoldKeys \cap justReleased # {} -> <<"Up">>
    [] OTHER -> <<>>

(* sync_hold: pressing wins over releasing within a frame. *)
SyncHold ==
  CASE HoldKeys \cap justPressed # {} -> <<"Down">>
    [] HoldKeys \cap justPressed = {} /\ HoldKeys \cap justReleased # {} /\ HoldKeys \cap pressed = {} ->
         <<"Up">>
    [] OTHER -> <<>>

KeysDriveInfiltrator == view # "Van"

Tap(k, c) == IF k \in justPressed THEN <<c>> ELSE <<>>

(* decode_infiltrator, decode_hacker, decode_session, in this order. *)
Decoded(q) ==
  LET body == IF KeysDriveInfiltrator THEN SyncHold \o Tap("W", "Jump") ELSE <<>>
      latch == IF "Tab" \in justPressed THEN ~q.paused ELSE q.paused
      pause == IF "Tab" \in justPressed THEN <<IF latch THEN "Pause" ELSE "Resume">> ELSE <<>>
  IN [q EXCEPT !.pending = @ \o body \o Tap("1", "Uplink") \o pause \o Tap("R", "Restart"),
               !.paused = latch /\ "R" \notin justPressed]

-------------------------------------------------------------------------------
(* The fixed step. *)

(* Mutant of Committed: the jump of a restart is not forgotten. *)
CommittedOnly(p, x, restarted) == [prev |-> p.curr, curr |-> x]

(* VisualBuffers::commit: commit, and on a discontinuity snap. *)
Committed(p, x, restarted) == [prev |-> IF restarted THEN x ELSE p.curr, curr |-> x]

Restarted(events) == \E i \in DOMAIN events : events[i] = "Restarted"

(* step_sim, over what it touches. *)
Stepped(d) ==
  LET after == Ticked(d.sim, FoldCommands(d.queue.pending, d.queue.held))
      again == Restarted(after.events)
      x == after.run.x IN
  [queue |-> [d.queue EXCEPT !.pending = <<>>, !.held = HeldAfter(d.queue.pending, @)],
   sim |-> Drained(after),
   picture |-> Committed(d.picture, x, again),
   trail |-> IF again THEN <<x>> ELSE <<Last(d.trail), x>>]

(* lerp, in halves; exact at both ends. *)
Sample(p, alpha) == p.prev + ((p.curr - p.prev) * alpha) \div 2

-------------------------------------------------------------------------------
(* The rest of the frame: layout_seats. *)

NextView == CASE view = "Both" -> "Floor" [] view = "Floor" -> "Van" [] OTHER -> "Both"

(* Mutant of LetGo: the keyboard goes to the hacker as it is. *)
LetGoNever(q) == q

(* Handing the keyboard to the hacker lets go of everything held. *)
LetGo(q) == [q EXCEPT !.pending = Append(@, "Up")]

(* One frame with n ticks due. *)
DriverFrame(n) ==
  LET begun == [queue |-> Decoded(queue), sim |-> sim, picture |-> picture, trail |-> trail]
      d == FoldLeft(LAMBDA acc, i : Stepped(acc), begun, [i \in 1..n |-> i])
      handing == "B" \in justPressed /\ NextView = "Van" IN
  /\ d.sim.run.tick <= MaxTicks /\ Len(queue.pending) <= MaxPending
  /\ queue' = IF handing THEN LetGo(d.queue) ELSE d.queue
  /\ sim' = d.sim /\ picture' = d.picture /\ trail' = d.trail
  /\ view' = IF "B" \in justPressed THEN NextView ELSE view
  /\ handed' = CASE handing -> pressed \cap HoldKeys
                 [] ~handing /\ view = "Van" -> handed \cup (justPressed \cap HoldKeys \cap pressed)
                 [] OTHER -> handed
  /\ justPressed' = {} /\ justReleased' = {}
  /\ UNCHANGED pressed

DriverNext ==
  \/ \E k \in HoldKeys \cup TapKeys : KeyDown(k) \/ KeyUp(k)
  \/ \E n \in 0..TicksPerFrame : DriverFrame(n)

DriverSpec == DriverInit /\ [][DriverNext]_driverVars

-------------------------------------------------------------------------------
(* Properties. *)

HeldSoon == HeldAfter(queue.pending, queue.held)

(* A key that was down when its frame was decoded holds the button at the     *)
(* next tick, whichever alias went up meanwhile, unless the keyboard has     *)
(* been with the hacker since it went down.                                  *)
HeldKeysMove ==
  (HoldKeys \cap pressed) \ (handed \cup justPressed) # {} /\ HoldKeys \cap justPressed = {} => HeldSoon

(* While the keyboard is the hacker's nobody holds the infiltrator's button,  *)
(* whatever was down when it changed hands.                                  *)
VanHoldsNothing == view = "Van" => ~HeldSoon

(* What is drawn lies between the run's last two ticks and, across a          *)
(* restart, stands where the new run starts.                                *)
DrawnInBetween ==
  \A alpha \in Alphas :
    LET lo == trail[1]
        hi == Last(trail)
    IN lo <= Sample(picture, alpha) /\ Sample(picture, alpha) <= hi

DriverIsFaithful == HeldKeysMove /\ VanHoldsNothing /\ DrawnInBetween

(* keymap.rs: "Held movement becomes SetButton press/release pairs". *)
ReleasedKeysStop ==
  HoldKeys \cap (pressed \cup justPressed \cup justReleased) = {} => ~HeldSoon
================================================================================
