------------------------------- MODULE BevyScreens -------------------------------
(***************************************************************************)
(* The windowed client's screens and gestures over a local run               *)
(* (crates/idaptik-bevy): a console's screen and the deck (screen.rs), the    *)
(* wiring drawn on them (wiring.rs), the deck's card (deck.rs), Net View      *)
(* (net_view.rs) and which of them the keys and the mouse belong to           *)
(* (seats.rs, scene.rs), in the order lib.rs runs them.                      *)
(*                                                                         *)
(* One action is a frame, every system in turn: a key at most, whatever the   *)
(* simulation and the camera have come to, or an event of the mouse.  A spot  *)
(* of the mouse is a pane and what of its screen is under the cursor.        *)
(***************************************************************************)
EXTENDS Option

CONSTANT Spots   \* where the mouse goes on the floor and the van: a pane and what is there

Seats == {"Infiltrator", "Hacker"}
Keys == {"N", "B", "H", "E", "C", "Esc"}

(* The infiltrator's screen fills the pane; the deck leaves street round it. *)
OnPanes ==
  {[pane |-> p, on |-> o] : p \in Seats, o \in {"out", "in", "relay", "wire", "bare"}}
    \cup {[pane |-> "Hacker", on |-> o] : o \in {"device", "verb", "street"}}
    \cup {[pane |-> None, on |-> "outside"]}
ASSUME SpotsAreOnPanes == Spots \subseteq OnPanes
MapSpots == {[pane |-> "Infiltrator", on |-> o] : o \in {"node", "bare"}}

Clicks ==
  [kind : {"press", "release", "far"}, spot : Spots]
    \cup [kind : {"right", "ctrl_right"}, spot : {o \in Spots : o.on = "wire"}]
MapClicks == [kind : {"press", "release", "far", "right"}, spot : MapSpots]

VARIABLES
  ui,      \* the resources: mode and the one asked for, view, screens, wiring, selection, pan
  using,   \* the simulation has the infiltrator at a console
  left,    \* the left button is down
  press    \* history: the last press: its mode, the output port it was on if any,
           \* whether the mouse went far with it and whether the mode changed under it

screensVars == <<ui, using, left, press>>

NoPress == [mode |-> "GhostLobby", port |-> None, far |-> FALSE, across |-> FALSE]

(* What a frame finds in the hacker's session: no hop, the selection in reach. *)
Sessions == [cold : BOOLEAN, reach : BOOLEAN]

ScreensInit ==
  /\ ui = [mode |-> "GhostLobby", next |-> "GhostLobby", view |-> "Both", phase |-> "Closed",
           deck |-> FALSE, shown |-> FALSE, drag |-> None, seat |-> "Infiltrator",
           selection |-> None, origin |-> FALSE, dragging |-> FALSE, sent |-> {}]
  /\ using = FALSE
  /\ left = FALSE /\ press = NoPress

Send(u, c) == [u EXCEPT !.sent = @ \cup {c}]

-------------------------------------------------------------------------------
(* The floor and the van. *)

KeysDriveBody(u) == u.view # "Van"

(* screen_keys: the infiltrator's screen follows the simulation, the deck is  *)
(* the hacker's to open.                                                    *)
ScreenKeys(u, k, seated, cold) ==
  LET stands == KeysDriveBody(u) /\ seated /\ u.phase = "On" /\ k = "Esc"
      toggle == k = "H" \/ (~KeysDriveBody(u) /\ (k = "E" \/ (u.deck /\ k = "Esc")))
      phase == CASE seated /\ u.phase = "Closed" -> "DivingIn"
                 [] ~seated /\ u.phase \in {"DivingIn", "On"} -> "PullingOut"
                 [] OTHER -> u.phase
      sends == {c \in {"Interact", "PivotBridge"} :
                  IF c = "Interact" THEN stands ELSE toggle /\ ~u.deck /\ cold}
  IN [u EXCEPT !.phase = phase,
               !.deck = IF toggle THEN ~@ ELSE @,
               !.sent = @ \cup {[op |-> c, by |-> None] : c \in sends}]

(* wiring_seats: the screens that are on; both can wire. *)
WiringSeats(u) ==
  {s \in Seats : IF s = "Infiltrator" THEN u.phase = "On" ELSE u.deck}

(* Mutant of WiringKeys: closing the last screen leaves the wiring as it is. *)
WiringKeysKeep(u, k) ==
  IF k = "C" /\ WiringSeats(u) # {} THEN [u EXCEPT !.shown = ~@, !.drag = None] ELSE u

WiringKeys(u, k) ==
  CASE WiringSeats(u) = {} -> [u EXCEPT !.shown = FALSE, !.drag = None]
    [] WiringSeats(u) # {} /\ k = "C" -> [u EXCEPT !.shown = ~@, !.drag = None]
    [] OTHER -> u

PaneShown(u, s) == IF s = "Infiltrator" THEN u.view # "Van" ELSE u.view # "Floor"

(* Cursor::on_screen *)
OnScreen(u, spot) ==
  spot.pane \in WiringSeats(u) /\ PaneShown(u, spot.pane) /\ spot.on # "street"

(* wiring_mouse *)
WiringMouse(u, m) ==
  LET by == m.spot.pane
      send(op) == Send(u, [op |-> op, by |-> by]) IN
  IF ~(u.shown /\ OnScreen(u, m.spot)) THEN u
  ELSE CASE m.kind = "press" /\ m.spot.on = "out" -> [u EXCEPT !.drag = by]
         [] m.kind = "press" /\ m.spot.on = "relay" -> send("Reprogram")
         [] m.kind = "release" ->
              [(IF u.drag = by /\ m.spot.on = "in" THEN send("Wire") ELSE u) EXCEPT !.drag = None]
         [] m.kind = "right" /\ m.spot.on = "wire" -> send("Cut")
         [] m.kind = "ctrl_right" /\ m.spot.on = "wire" -> send("Invert")
         [] OTHER -> u

(* deck_click; the controls under the schematic are buttons. *)
DeckClick(u, m) ==
  IF m.kind # "press" \/ (u.shown /\ u.seat = "Hacker") THEN u
  ELSE CASE ~u.deck -> [u EXCEPT !.selection = None]
         [] u.deck /\ PaneShown(u, "Hacker") /\ m.spot.pane = "Hacker"
            /\ m.spot.on \notin {"street", "verb"} ->
              [u EXCEPT !.selection = IF m.spot.on = "device" THEN "device" ELSE None]
         [] OTHER -> u

(* card_press *)
CardPress(u, m, reach) ==
  IF m.kind = "press" /\ m.spot.on = "verb" /\ u.deck /\ PaneShown(u, "Hacker")
     /\ u.selection # None /\ reach
  THEN Send(u, [op |-> "NetHack", by |-> "Hacker"]) ELSE u

NextOf(view) == CASE view = "Both" -> "Floor" [] view = "Floor" -> "Van" [] OTHER -> "Both"

(* layout_seats, as far as the hands are concerned. *)
HandsOver(u, k, m) ==
  LET looking == IF k = "B" THEN NextOf(u.view) ELSE u.view
      under == IF m.spot.pane = None THEN u.seat ELSE m.spot.pane
  IN [u EXCEPT !.view = looking,
               !.seat = CASE looking = "Floor" -> "Infiltrator" [] looking = "Van" -> "Hacker"
                          [] OTHER -> under]

(* follow_camera: the camera is in the CRT, or out of it. *)
FollowCamera(u, arrived) ==
  CASE arrived /\ u.phase = "DivingIn" -> [u EXCEPT !.phase = "On"]
    [] arrived /\ u.phase = "PullingOut" -> [u EXCEPT !.phase = "Closed"]
    [] OTHER -> u

-------------------------------------------------------------------------------
(* Net View. *)

(* Mutant of PanNetView: the next press finds the last one's latch. *)
PanNetViewLatched(u, m) ==
  CASE m.kind = "press" -> [u EXCEPT !.origin = TRUE]
    [] m.kind = "release" -> [u EXCEPT !.origin = FALSE, !.dragging = FALSE]
    [] m.kind = "far" /\ left /\ u.origin -> [u EXCEPT !.dragging = TRUE]
    [] OTHER -> u

(* pan_net_view: whether the press has become a drag. *)
PanNetView(u, m) ==
  CASE m.kind = "press" -> [u EXCEPT !.origin = TRUE, !.dragging = FALSE]
    [] m.kind = "release" -> [u EXCEPT !.origin = FALSE]
    [] m.kind = "far" /\ left /\ u.origin -> [u EXCEPT !.dragging = TRUE]
    [] OTHER -> u

(* net_view_click *)
NetViewClick(u, m) ==
  CASE m.kind = "release" /\ ~u.dragging /\ m.spot.on = "node" ->
         Send(u, [op |-> "NetSsh", by |-> "Hacker"])
    [] m.kind = "right" /\ m.spot.on = "node" -> Send(u, [op |-> "NetHack", by |-> "Hacker"])
    [] OTHER -> u

-------------------------------------------------------------------------------
(* A frame. *)

(* Only the deck's key asks for a hop, only its card for the reach. *)
SessionsFor(k, m) ==
  {s \in Sessions : (s.cold => k \in {"H", "E"}) /\ (s.reach => m.spot.on = "verb")}

Idle == [kind |-> "none", spot |-> [pane |-> None, on |-> "outside"]]

(* N asks for the other mode, which the next frame starts in. *)
Begun(k) ==
  LET u == [ui EXCEPT !.mode = ui.next, !.sent = {}]
  IN IF k = "N" THEN [u EXCEPT !.next = IF u.mode = "GhostLobby" THEN "NetView" ELSE "GhostLobby"]
     ELSE u

InLobby(u, k, m, seated, arrived, session) ==
  LET screens == WiringKeys(ScreenKeys(u, k, seated, session.cold), k)
      clicked == CardPress(DeckClick(WiringMouse(screens, m), m), m, session.reach)
  IN FollowCamera(HandsOver(clicked, k, m), arrived)

(* The button's own history: where the press was, and what came between. *)
Pressed(mode, m) ==
  CASE m.kind = "press" ->
         [mode |-> mode, port |-> IF m.spot.on = "out" THEN m.spot.pane ELSE None,
          far |-> FALSE, across |-> FALSE]
    [] m.kind # "press" /\ left ->
         [press EXCEPT !.far = @ \/ m.kind = "far", !.across = @ \/ mode # press.mode]
    [] OTHER -> press

ScreenFrame(k, m, seated, arrived) ==
  LET u == Begun(k) IN
  /\ m.kind = "press" => ~left
  /\ m.kind = "release" => left
  /\ \E session \in SessionsFor(k, m) :
       ui' = IF u.mode = "GhostLobby" THEN InLobby(u, k, m, seated, arrived, session)
             ELSE NetViewClick(PanNetView(u, m), m)
  /\ using' = seated
  /\ left' = CASE m.kind = "press" -> TRUE [] m.kind = "release" -> FALSE [] OTHER -> left
  /\ press' = Pressed(u.mode, m)

ScreensNext ==
  \/ \E k \in Keys \cup {None}, seated, arrived \in BOOLEAN :
       ScreenFrame(k, Idle, seated, arrived)
  \/ \E m \in IF ui.next = "GhostLobby" THEN Clicks ELSE MapClicks :
       ScreenFrame(None, m, using, FALSE)

ScreensSpec == ScreensInit /\ [][ScreensNext]_screensVars

-------------------------------------------------------------------------------
(* Properties. *)

(* The screen on the infiltrator's pane is the one the simulation has them at, *)
(* whatever happened while Net View was up.                                  *)
ScreenFollowsSim == ui.mode = "GhostLobby" /\ ui.phase \in {"DivingIn", "On"} => using

(* The wiring is up only on a screen that is on, and so is a drag: neither     *)
(* outlives the last screen, however it closed.                             *)
WiringIsOnAScreen ==
  ui.mode = "GhostLobby" =>
    /\ ui.shown => WiringSeats(ui) # {}
    /\ ui.drag # None => ui.shown

(* A press on the map pans it or pivots, never both, and a click pivots        *)
(* whatever the one before it did.                                          *)
PanOrPivot ==
  LET pivots == [op |-> "NetSsh", by |-> "Hacker"] \in ui.sent IN
  /\ pivots /\ ~press.across => ~press.far
  /\ ui.mode = "NetView" /\ left /\ ~press.across /\ press.mode = "NetView" =>
       ui.dragging = press.far

ScreensAgree == ScreenFollowsSim /\ WiringIsOnAScreen /\ PanOrPivot

(* wiring.rs: "Drag from an output port (right of a device) to an input port   *)
(* (left of a device) to lay a wire": the press that ends on the input port    *)
(* began on an output port.                                                 *)
WiresAreDrawn ==
  \A by \in Seats :
    [op |-> "Wire", by |-> by] \in ui.sent => press.port = by
==================================================================================
