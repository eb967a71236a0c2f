-------------------------------- MODULE MCFrontends --------------------------------
(***************************************************************************)
(* What drives the simulation or shows it, side by side: a behaviour picks    *)
(* one front and runs it alone, with the variables of the others at a fixed   *)
(* start.  They share the simulation's tick (SimTick), each with its own.     *)
(***************************************************************************)
EXTENDS BatchSeat, TerminalFeed, BevyDriver, PackageRun, Handle, MoleDefinition,
        BevyScreens, Debrief

CONSTANT Fronts

VARIABLE front

-------------------------------------------------------------------------------
(* Scripts: two lines of one tick or two, then the hacker's last word. *)

Line(t, h, p, x) == [at |-> t, hold |-> h, press |-> p, test |-> x]
AllScripts ==
  {[lines |-> <<Line(0, h, p, x), Line(t, TRUE, q, None),
                Line(2, FALSE, <<"Resume", "Uplink">>, None)>>, maxTicks |-> 3] :
     h \in {None, TRUE}, p \in {<<"Uplink">>, <<"Jump", "Uplink">>, <<"Uplink", "Pause">>},
     q \in {<<>>, <<"Uplink">>}, x \in {None, "ForceExtract"}, t \in {0, 1}}

(* A script without commands, for the fronts that do not play one. *)
Silence == [lines |-> <<>>, maxTicks |-> 1]
FrontScripts == AllScripts \cup {Silence}

-------------------------------------------------------------------------------
(* Packages: every short schedule, and one that asks for an event that a run  *)
(* may not have.                                                            *)

Play(cs, snap, asked_for) ==
  [envelope |-> "supported", scenarioId |-> "ghost_lobby",
   scenario |-> [id |-> "ghost_lobby", format |-> "idaptik-ghost-lobby-v2", valid |-> TRUE],
   taxonomy |-> TaxonomyTerms,
   actors |-> {[role |-> "security", binding |-> "billy"], [role |-> "non_security", binding |-> None]},
   runTicks |-> 3, snapshotTick |-> snap, commands |-> cs, deterministic |-> TRUE,
   snapshotFormat |-> "supported", required |-> asked_for]

Scheduled == [tick : 0..2, command : Commands]
AllPackages ==
  {Play(cs, snap, asked_for) :
     cs \in {<<>>} \cup {<<c>> : c \in Scheduled} \cup (Scheduled \X Scheduled),
     snap \in 0..3, asked_for \in {<<"Jumped">>, <<"RunStarted">>}}

CallStreams == {<<>>, <<"Down">>, <<"Up">>, <<"Jump">>, <<"Down", "Jump">>, <<"Pause">>}

-------------------------------------------------------------------------------
(* Kits: Moletaire's with a ladder or a tuning out of place; scenes of a mole *)
(* and its food.                                                            *)

AllKits ==
  {[Moletaire EXCEPT !.ladders.audio_sound_count = a, !.ladders.eat_chance_multiplier = e,
                     !.sounds = n, !.tuning.capacity = c, !.hunger.starving = st] :
     a \in {<<0, 3, 6, 10>>, <<0, 12, 6, 10>>}, e \in {<<100, 60, 20, 5>>, <<5, 20, 60, 100>>},
     n \in {9, 10}, c \in {1, 4}, st \in {80, 95}}
Food(x, y, c) == [x |-> x, y |-> y, consumed |-> c]
AllMeals ==
  {[x |-> 0, hunger |-> h, y |-> 0, edibles |-> es] :
     h \in {39, 40, 79, 80},
     es \in {{}, {Food(0, 0, FALSE)}, {Food(3, 0, FALSE), Food(-20, 4, FALSE)}, {Food(5, 0, TRUE)},
             {Food(-1, 0, FALSE)}}}

-------------------------------------------------------------------------------
(* The mouse on the street outside a screen, on an input port of the floor's  *)
(* screen, on a device of the deck and on a verb of its card.                *)

On(p, o) == [pane |-> p, on |-> o]
MouseSpots == {On("Infiltrator", "out"), On("Infiltrator", "in"), On("Hacker", "device"), On("Hacker", "verb")}

AllEndings ==
  [note : {"body", "floor", "billy"}, hasUsb : BOOLEAN, drawn : BOOLEAN,
   reported : {None, "Usb", "Note", "Intruder"}, called : BOOLEAN, cameras : {0, 2}, frayed : {TRUE},
   method : {"ServiceExit"}, usbTrace : {TRUE}, rescue : {TRUE}, tenths : {600, 1500},
   alert : {20}, maxAlert : {20, 70}, failed : {1}, mult : {85, 125}]

-------------------------------------------------------------------------------
FrontsInit ==
  /\ front \in Fronts
  /\ front # "batch" => script = Silence /\ doom = [r \in Role |-> None]
  /\ front # "terminal" => enhanced = [r \in Role |-> TRUE]
  /\ front # "package" => package = Play(<<>>, 1, <<"RunStarted">>)
  /\ front # "kit" => kit = Moletaire /\ meal = [x |-> 0, hunger |-> 39, y |-> 0, edibles |-> {}]
  /\ front # "debrief" => facts = CHOOSE f \in AllEndings : Possible(f)
  /\ BatchInit /\ FeedInit /\ DriverInit /\ PackageInit /\ HandleInit
  /\ KitInit /\ ScreensInit /\ DebriefInit

FrontsNext ==
  /\ IF front = "batch" THEN BatchNext ELSE UNCHANGED batchVars
  /\ IF front = "terminal" THEN FeedNext ELSE UNCHANGED feedVars
  /\ IF front = "driver" THEN DriverNext ELSE UNCHANGED driverVars
  /\ IF front = "package" THEN PackageNext ELSE UNCHANGED packageVars
  /\ IF front = "handle" THEN HandleNext ELSE UNCHANGED handleVars
  /\ IF front = "kit" THEN KitNext ELSE UNCHANGED kitVars
  /\ IF front = "screens" THEN ScreensNext ELSE UNCHANGED screensVars
  /\ IF front = "debrief" THEN DebriefNext ELSE UNCHANGED debriefVars
  /\ UNCHANGED front

frontsVars ==
  <<front, batchVars, feedVars, driverVars, packageVars, handleVars, kitVars, screensVars,
    debriefVars>>

FrontView ==
  <<front,
    CASE front = "batch" -> batchVars [] front = "terminal" -> feedVars
      [] front = "driver" -> driverVars [] front = "package" -> packageVars
      [] front = "handle" -> handleVars [] front = "kit" -> kitVars
      [] front = "screens" -> screensVars
      [] OTHER -> debriefVars>>

FrontsSpec == FrontsInit /\ [][FrontsNext]_frontsVars
====================================================================================
