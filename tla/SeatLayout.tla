--------------------------------- MODULE SeatLayout ---------------------------------
(***************************************************************************)
(* How the windowed client shares its window between the two seats           *)
(* (layout_seats of crates/idaptik-bevy/src/seats.rs): what the frame is laid *)
(* out for, and what is on screen, which eases towards it.                    *)
(*                                                                         *)
(* The infiltrator's share is counted in steps of the window's, and what      *)
(* eases comes any distance nearer in a frame, at least a step: the length of *)
(* a frame decides.  Where a pane is, and the deck in it, follow from that.    *)
(***************************************************************************)
EXTENDS Integers, FiniteSets

CONSTANTS
  Whole,      \* the steps of the window
  Far,        \* bound: how far from the van the infiltrator goes
  FrameHolds, \* the distance one frame holds both at
  Hysteresis  \* MERGE_HYSTERESIS

ASSUME LayoutAssumption ==
  /\ Whole \in Nat /\ Whole % 2 = 0 /\ Whole >= 4
  /\ Far \in Nat /\ FrameHolds \in Nat /\ Hysteresis \in Nat

VARIABLES
  asked,    \* the view, the screens in use, whether and how far the infiltrator is outside
  seats,    \* arrangement and shown, the share asked for and on_screen, merged, deck_up
  settling  \* history: nothing has been asked for since

layoutVars == <<asked, seats, settling>>

Views == {"Both", "Floor", "Van"}
(* Indoors the distance from the van says nothing. *)
Asked ==
  {a \in [view : Views, screen : BOOLEAN, deck : BOOLEAN, outside : BOOLEAN, distance : 0..Far] :
     ~a.outside => a.distance = Far}

Middle == Whole \div 2
Shares == (Middle - 1)..(Middle + 1)

LayoutInit ==
  /\ asked = [view |-> "Both", screen |-> FALSE, deck |-> FALSE, outside |-> FALSE, distance |-> Far]
  /\ seats = [arrangement |-> "Stacked", shown |-> "Stacked", share |-> Middle,
              onScreen |-> Middle, merged |-> FALSE, deckUp |-> 0]
  /\ settling = FALSE

-------------------------------------------------------------------------------
(* arrangement_for *)
ArrangementFor(a) == IF a.screen \/ a.deck THEN "SideBySide" ELSE "Stacked"

(* one_frame_holds_both: it takes more to merge than to stay merged. *)
OneFrameHoldsBoth(a, merged) ==
  a.outside /\ a.distance + (IF merged THEN 0 ELSE Hysteresis) <= FrameHolds

(* share_for *)
ShareFor(view, share) ==
  CASE view = "Both" -> share [] view = "Floor" -> Whole [] OTHER -> 0

(* Where an eased quantity may be a frame later. *)
Eased(from, to) ==
  IF from = to THEN {to} ELSE IF from < to THEN (from + 1)..to ELSE to..(from - 1)

(* split: the panes there are. *)
HackerPane(onScreen) == onScreen < Whole

(* Mutant of AxisAfter: an arrangement is shown as soon as it is asked for. *)
AxisAfterAtOnce(a, arrangement, shown, arrived) ==
  IF a.view # "Floor" THEN arrangement ELSE shown

(* shown, after the frame's slide: a single view takes its arrangement at     *)
(* once, both views when the van's pane is shut.                             *)
AxisAfter(a, arrangement, shown, arrived) ==
  IF a.view # "Both" \/ arrived THEN arrangement ELSE shown

(* layout_seats, a frame that finds a asked for; the divider leans towards a   *)
(* busy hand and back (lean_for).                                           *)
LayoutFrame(a, lean) ==
  LET arrangement == ArrangementFor(a)
      merged == a.view = "Both" /\ ~a.deck /\ ~a.screen /\ OneFrameHoldsBoth(a, seats.merged)
      changing == a.view = "Both" /\ seats.shown # arrangement
  IN \E share \in Eased(seats.share, lean) :
       LET want == IF merged \/ changing THEN Whole ELSE ShareFor(a.view, share) IN
       \E onScreen \in Eased(seats.onScreen, want) :
         LET shown == AxisAfter(a, arrangement, seats.shown, onScreen = want)
             up == IF a.deck /\ shown = arrangement /\ HackerPane(onScreen) THEN 2 ELSE 0 IN
         \E deckUp \in Eased(seats.deckUp, up) :
           /\ asked' = a
           /\ seats' = [arrangement |-> arrangement, shown |-> shown, share |-> share,
                        onScreen |-> onScreen, merged |-> merged, deckUp |-> deckUp]

(* The frames before which at most one hand moved: a key or the body. *)
AskedAfter(a) ==
  {b \in Asked :
     Cardinality({f \in {"view", "screen", "deck"} : a[f] # b[f]})
       + (IF <<a.outside, a.distance>> = <<b.outside, b.distance>> THEN 0 ELSE 1) <= 1}

(* A frame in which something is asked for, and one in which nothing is. *)
Ask ==
  /\ ~settling /\ UNCHANGED settling
  /\ \E a \in AskedAfter(asked), lean \in Shares : LayoutFrame(a, lean)

LeaveAlone ==
  /\ settling' = TRUE
  /\ LayoutFrame(asked, Middle)

LayoutNext == Ask \/ LeaveAlone

(* The window is redrawn whatever happens. *)
LayoutSpec == LayoutInit /\ [][LayoutNext]_layoutVars /\ WF_layoutVars(LeaveAlone)

-------------------------------------------------------------------------------
(* Properties. *)

(* seats.rs: "Changing arrangement slides the van's pane shut, swaps the       *)
(* divider's axis": with both seats in view the axis turns when nothing of the *)
(* van is on screen.                                                        *)
AxisTurnsUnseen ==
  [][seats'.shown # seats.shown => asked'.view # "Both" \/ ~HackerPane(seats'.onScreen)]_layoutVars

(* What panes() says of it. *)
Settled ==
  LET want == IF seats.merged THEN Whole ELSE ShareFor(asked.view, Middle) IN
  /\ seats.shown = ArrangementFor(asked)
  /\ seats.onScreen = want
  /\ seats.deckUp = IF asked.deck /\ HackerPane(want) THEN 2 ELSE 0

(* Left alone, the window comes to rest where panes() puts it: no slide waits  *)
(* for one that waits for it, and no merge opens what opens it.              *)
LayoutSettles == [](settling => <>[]Settled)

(* Both: a change of the layout is never seen to jump, and ends. *)
LayoutIsSeamless == AxisTurnsUnseen /\ LayoutSettles
====================================================================================
