------------------------------ MODULE GhostLobby ------------------------------
(***************************************************************************)
(* One run of the Ghost Lobby simulation (crates/idaptik-core/src/         *)
(* scenario/sim), tick by tick: the immediates, then the pipeline of       *)
(* systems, whose order is load-bearing.  A tick is one call; "at" is      *)
(* where it stands.                                                        *)
(*                                                                         *)
(* Kept: phase and endings, who holds what, Billy's modes, his target and  *)
(* theory, the alert and the traces where they end the run.  Left to       *)
(* chance: where bodies are (reach, sight, hiding, being caught), how long *)
(* a hold, a timer or the arrival clock takes, what the vacuum is at,       *)
(* meters between their thresholds.  A floor without an outside, wires or  *)
(* consoles.                                                               *)
(***************************************************************************)
EXTENDS Naturals

CONSTANTS
  Rescue,         \* the difficulty preset grants a rescue
  None

Object == {"note", "usb"}
Failure == {"Caught", "Partition", "Lockdown", "Traced"}

ASSUME LobbyAssumption ==
  /\ Rescue \in BOOLEAN
  /\ None \notin Object \cup Failure \cup {"intruder", "Extracted"}

VARIABLES
  at,        \* the system that runs next; "idle" between ticks
  paused,
  run,       \* phase, outcome, announced exit
  floor,     \* alert, lights, traces, chute, rescue
  player, note, usb,
  billy,
  interest   \* 0 below belief, 1 enough to believe, 2 past the misdirect threshold

items == <<player, note, usb>>
mind == <<billy, interest>>
vars == <<at, paused, run, floor, items, mind>>

NewRun == [phase |-> "Quiet", outcome |-> None, exit |-> "Locked"]
NewFloor == [alert |-> "low", flicker |-> FALSE, traced |-> FALSE, chute |-> FALSE,
             rescue_used |-> FALSE]
NewPlayer == [has_note |-> FALSE, has_usb |-> FALSE]
NewNote == [held |-> FALSE, billy_has |-> FALSE, exposed |-> FALSE]
NewUsb == [held |-> FALSE, billy_has |-> FALSE, thrown |-> FALSE, wiped |-> FALSE]
NewBilly == [mode |-> "Offsite", target |-> None, belief |-> None, reported |-> None,
             called |-> FALSE, has_note |-> FALSE, has_usb |-> FALSE, stun |-> FALSE]
NewInterest == [note |-> 0, usb |-> 0]

Init ==
  /\ at = "idle" /\ paused = FALSE
  /\ run = NewRun /\ floor = NewFloor
  /\ player = NewPlayer /\ note = NewNote /\ usb = NewUsb
  /\ billy = NewBilly /\ interest = NewInterest

-------------------------------------------------------------------------------
(* Shared helpers. *)

InCrisis == run.phase = "Crisis"
Ended == run.outcome # None
Busy == {"Secure", "Guard", "CallBoss"}

(* Mutant of Finish: the tick runs on after the end. *)
FinishGoesOn(o) ==
  /\ run' = [run EXCEPT !.outcome = o, !.phase = "Result"]
  /\ at' = "objectives"

(* extract and fail_mission: what is left of the tick is skipped. *)
Finish(o) ==
  /\ run' = [run EXCEPT !.outcome = o, !.phase = "Result"]
  /\ at' = "idle"

(* Mutant of Entered: Billy is not told to come in. *)
EnteredNot(b) == b

(* begin_crisis, from Quiet only: what it does to Billy, and to the run. *)
Entered(b) == [b EXCEPT !.mode = "Entering"]
Crisis == [run EXCEPT !.phase = "Crisis"]

(* The alert after a gain: it may have reached the threshold. *)
Gained == {floor.alert, "full"}
Raised == \E a \in Gained : floor' = [floor EXCEPT !.alert = a]

(* can_billy_see_player, the answers its guards leave open. *)
Sight ==
  IF InCrisis /\ billy.mode # "Offsite" /\ ~floor.flicker /\ ~billy.stun
  THEN BOOLEAN ELSE {FALSE}

(* Mutant of Rise: the meter is not clamped. *)
RiseUnclamped(n, top) == {n, n + 1}

(* A meter a little later: watched, or left alone. *)
Rise(n, top) == {n} \cup ({n + 1} \cap 0 .. top)
Fall(n) == {n} \cup ({n - 1} \cap Nat)

(* Mutant of NoteFree: Billy may hold it already. *)
NoteUnheld == ~note.held

(* The guards of secure_note and take_usb, and of Billy's own grabs. *)
NoteFree == ~note.held /\ ~note.billy_has
UsbFree == ~usb.held /\ ~usb.billy_has

(* Mutant of Robbed: Billy goes on with what he was doing. *)
RobbedUnnoticed(b) == [b EXCEPT !.has_note = FALSE]

(* What losing the note in the dark does to Billy. *)
Robbed(b) == [b EXCEPT !.has_note = FALSE, !.mode = "Pursue"]

(* misled: Billy ended believing the USB mattered. *)
Misled == billy.has_usb \/ billy.reported = "usb" \/ interest.usb = 2

-------------------------------------------------------------------------------
(* Before the update: pause and restart, then the other immediates. *)

Begin ==
  /\ at = "idle"
  /\ paused' \in BOOLEAN
  /\ at' = IF paused' \/ Ended THEN "idle" ELSE "immediates"
  /\ UNCHANGED <<run, floor, items, mind>>

Restart ==
  /\ at = "idle"
  /\ paused' = FALSE
  /\ run' = NewRun /\ floor' = NewFloor
  /\ player' = NewPlayer /\ note' = NewNote /\ usb' = NewUsb
  /\ billy' = NewBilly /\ interest' = NewInterest
  /\ UNCHANGED at

(* pivot and net_ssh: an ssh may run the trace to its threshold. *)
TouchNetwork ==
  /\ at = "immediates"
  /\ floor' = [floor EXCEPT !.traced = TRUE]
  /\ UNCHANGED <<at, paused, run, items, mind>>

(* perform_action and net_hack: the trace, then what the effect does to
   the floor, then the alert; cutting the substation raises none. *)
Hack ==
  /\ at = "immediates"
  /\ \E kind \in {"plain", "lights", "substation"}, t \in {floor.traced, TRUE}, a \in Gained,
        dark \in BOOLEAN :
       /\ kind = "lights" => dark
       /\ dark => kind \in {"lights", "substation"}
       /\ floor' = [floor EXCEPT
            !.traced = t,
            !.alert = IF kind = "substation" THEN @ ELSE a,
            !.flicker = @ \/ dark]
       /\ billy' = [billy EXCEPT !.stun = @ \/ dark]
  /\ UNCHANGED <<at, paused, run, items, interest>>

ForceCrisis ==
  /\ at = "immediates" /\ run.phase = "Quiet"
  /\ run' = Crisis
  /\ billy' = Entered(billy)
  /\ UNCHANGED <<at, paused, floor, items, interest>>

ForceEnd ==
  /\ at = "immediates"
  /\ \E o \in Failure \cup {"Extracted"} : Finish(o)
  /\ UNCHANGED <<paused, floor, items, mind>>

(* system_timers: the alert decays, the lights may come back. *)
Advance ==
  /\ at = "immediates" /\ at' = "interactions"
  /\ \E dark \in BOOLEAN : floor' = [floor EXCEPT !.alert = "low", !.flicker = @ /\ dark]
  /\ UNCHANGED <<paused, run, items, mind>>

-------------------------------------------------------------------------------
(* Interactions: one thing in reach at most, then the way out or a throw. *)

PeelNote ==
  /\ at = "interactions" /\ NoteFree
  /\ \E seen \in Sight, secured \in BOOLEAN :
       /\ note' = [note EXCEPT !.held = secured, !.exposed = @ \/ seen]
       /\ player' = [player EXCEPT !.has_note = secured]
       /\ interest' \in
            IF seen THEN {[interest EXCEPT !.note = n] : n \in IF secured THEN {1} ELSE Rise(interest.note, 1)}
            ELSE {interest}
  /\ at' = "throw"
  /\ UNCHANGED <<paused, run, floor, usb, billy>>

(* take_usb: in Quiet it is what starts the crisis. *)
TakeUsb ==
  /\ at = "interactions" /\ UsbFree
  /\ usb' = [usb EXCEPT !.held = TRUE]
  /\ player' = [player EXCEPT !.has_usb = TRUE]
  /\ \E seen \in Sight, n \in interest.usb .. 2 :
       /\ seen => n = 2
       /\ interest' = [interest EXCEPT !.usb = n]
  /\ IF run.phase = "Quiet" THEN run' = Crisis /\ billy' = Entered(billy)
                            ELSE UNCHANGED <<run, billy>>
  /\ at' = "throw"
  /\ UNCHANGED <<paused, floor, note>>

EnterChute ==
  /\ at = "interactions" /\ floor.chute
  /\ Finish("Extracted")
  /\ UNCHANGED <<paused, floor, items, mind>>

SearchChute ==
  /\ at = "interactions" /\ ~floor.chute
  /\ floor' = [floor EXCEPT !.chute = TRUE]
  /\ at' = "throw"
  /\ UNCHANGED <<paused, run, items, mind>>

Pickpocket ==
  /\ at = "interactions" /\ note.billy_has /\ floor.flicker
  /\ note' = [note EXCEPT !.billy_has = FALSE, !.held = TRUE]
  /\ player' = [player EXCEPT !.has_note = TRUE]
  /\ billy' = Robbed(billy)
  /\ at' = "leave"
  /\ UNCHANGED <<paused, run, floor, usb, interest>>

NothingInReach ==
  /\ at = "interactions" /\ at' = "leave"
  /\ UNCHANGED <<paused, run, floor, items, mind>>

ServiceExit ==
  /\ at = "leave"
  /\ Finish("Extracted")
  /\ UNCHANGED <<paused, floor, items, mind>>

(* throw_usb: the decoy takes Billy's attention wherever he is not already
   on the phone or on the player. *)
ThrowUsb ==
  /\ at \in {"leave", "throw"} /\ player.has_usb
  /\ player' = [player EXCEPT !.has_usb = FALSE]
  /\ usb' = [usb EXCEPT !.held = FALSE, !.thrown = TRUE, !.billy_has = FALSE]
  /\ interest' = [interest EXCEPT !.usb = 2]
  /\ billy' = [billy EXCEPT !.target = "usb", !.belief = "usb",
                            !.mode = IF @ \in {"CallBoss", "Pursue"} THEN @ ELSE "Secure"]
  /\ Raised
  /\ at' = "usb"
  /\ UNCHANGED <<paused, run, note>>

KeepUsb ==
  /\ at \in {"leave", "throw"} /\ at' = "usb"
  /\ UNCHANGED <<paused, run, floor, items, mind>>

-------------------------------------------------------------------------------
(* The systems that follow, in order. *)

(* system_usb: a drive that left its dock wipes itself when its time is up,
   unless Billy has it. *)
RunUsb ==
  /\ at = "usb" /\ at' = "vacuum"
  /\ \/ UNCHANGED <<usb, floor>>
     \/ /\ usb.held \/ usb.thrown
        /\ ~usb.wiped /\ ~usb.billy_has
        /\ usb' = [usb EXCEPT !.wiped = TRUE]
        /\ Raised
  /\ UNCHANGED <<paused, run, player, note, mind>>

(* system_vacuum: running close by, it draws a Billy with no theory; its
   fall shows where the chute is. *)
RunVacuum ==
  /\ at = "vacuum" /\ at' = "cameras"
  /\ \E shown \in {floor.chute, TRUE} : floor' = [floor EXCEPT !.chute = shown]
  /\ \/ UNCHANGED billy
     \/ /\ InCrisis /\ billy.belief = None
        /\ billy.mode \notin Busy \cup {"Pursue"}
        /\ billy' = [billy EXCEPT !.mode = "Investigate"]
  /\ UNCHANGED <<paused, run, items, interest>>

(* system_cameras: a flag raises the alert and sends Billy to look. *)
RunCameras ==
  /\ at = "cameras" /\ at' = "support"
  /\ \/ UNCHANGED <<floor, billy>>
     \/ /\ ~floor.flicker
        /\ Raised
        /\ billy' = [billy EXCEPT !.mode = IF InCrisis /\ @ \notin Busy THEN "Investigate" ELSE @]
  /\ UNCHANGED <<paused, run, items, interest>>

(* system_support: alone for too long, the player is cut off. *)
RunSupport ==
  /\ at = "support"
  /\ \/ at' = "behaviour" /\ UNCHANGED run
     \/ InCrisis /\ Finish("Partition")
  /\ UNCHANGED <<paused, floor, items, mind>>

(* Mutant of Pinned: a thrown drive is forgotten like any other. *)
PinnedCarried(o) == IF o = "note" THEN note.exposed \/ player.has_note ELSE player.has_usb

(* What Billy does not forget while he cannot see it. *)
Pinned(o) == IF o = "note" THEN note.exposed \/ player.has_note ELSE usb.thrown \/ player.has_usb

(* The highest meter that crosses the threshold; two that do are told apart
   below what is kept of them. *)
Beliefs(i) == IF \E o \in Object : i[o] > 0 THEN {o \in Object : i[o] > 0} ELSE {None}

(* system_behaviour *)
RunBehaviour ==
  /\ at = "behaviour" /\ at' = "billy"
  /\ IF InCrisis /\ billy.mode # "Offsite"
     THEN \E sees \in Sight :
            \E n \in IF sees THEN Rise(interest.note, 1) ELSE IF Pinned("note") THEN {interest.note} ELSE Fall(interest.note),
               u \in IF sees THEN Rise(interest.usb, 2) ELSE IF Pinned("usb") THEN {interest.usb} ELSE Fall(interest.usb) :
              /\ interest' = [note |-> n, usb |-> u]
              /\ \E b \in Beliefs(interest') : billy' = [billy EXCEPT !.belief = b]
     ELSE UNCHANGED mind
  /\ UNCHANGED <<paused, run, floor, items>>

-------------------------------------------------------------------------------
(* Billy's own step. *)

Move(b, mode) == [b EXCEPT !.mode = mode]
Carrying(b) == b.has_note \/ b.has_usb

(* A theory sends him after its object, unless he is busy with one. *)
Heed(b) ==
  IF b.belief # None /\ ~Carrying(b) /\ b.mode \notin Busy
  THEN [b EXCEPT !.target = b.belief, !.mode = "Secure"] ELSE b

(* The player close and in sight beats everything but guarding and calling. *)
Chase(b, close) == IF close /\ b.mode \notin {"Guard", "CallBoss"} THEN Move(b, "Pursue") ELSE b

(* The modes that touch nothing but Billy. *)
Wander(b, sees) ==
  CASE b.mode = "Assess" ->
         IF b.belief # None THEN {[Move(b, "Secure") EXCEPT !.target = b.belief]}
         ELSE IF sees THEN {Move(b, "Pursue")} ELSE {b, Move(b, "Investigate")}
    [] b.mode = "Investigate" -> IF sees THEN {Move(b, "Pursue")} ELSE {b, Move(b, "Assess")}
    [] b.mode = "Guard" ->
         (IF sees THEN {Move(b, "Pursue")} ELSE {})
         \cup (IF b.called THEN {Move(b, "Pursue")} ELSE {b, Move(b, "CallBoss")})
    [] b.mode = "Pursue" ->
         IF sees THEN {b} ELSE {b, Move(b, IF b.belief # None THEN "Secure" ELSE "Assess")}
    [] OTHER -> {}

Wanted(b) == IF b.target # None THEN b.target ELSE b.belief

(* billy_secure: he goes for what he wants and grabs it if it lies free. *)
Secure(b) ==
  /\ b.mode = "Secure"
  /\ LET want == Wanted(b)
         players == (want = "note" /\ player.has_note) \/ (want = "usb" /\ player.has_usb)
     IN \/ players /\ billy' = Move(b, "Pursue") /\ UNCHANGED <<note, usb>>
        \/ ~players /\ billy' = b /\ UNCHANGED <<note, usb>>
        \/ /\ ~players /\ want = "note" /\ NoteFree
           /\ note' = [note EXCEPT !.billy_has = TRUE]
           /\ billy' = [Move(b, "Guard") EXCEPT !.has_note = TRUE, !.reported = "note"]
           /\ UNCHANGED usb
        \/ /\ ~players /\ want = "usb" /\ UsbFree
           /\ usb' = [usb EXCEPT !.billy_has = TRUE, !.thrown = FALSE]
           /\ billy' = [Move(b, "Guard") EXCEPT !.has_usb = TRUE, !.reported = "usb"]
           /\ UNCHANGED note
        \/ /\ ~players
           /\ ~(want = "note" /\ NoteFree) /\ ~(want = "usb" /\ UsbFree)
           /\ billy' = Move(b, "Pursue") /\ UNCHANGED <<note, usb>>
  /\ UNCHANGED floor

(* What he tells the boss, if nothing he grabbed told it already. *)
Report(b) == IF b.reported # None THEN b.reported ELSE IF b.belief # None THEN b.belief ELSE "intruder"

(* billy_call_boss *)
CallBoss(b, sees) ==
  /\ b.mode = "CallBoss"
  /\ \/ sees /\ billy' = Move(b, "Pursue") /\ UNCHANGED floor
     \/ billy' = b /\ UNCHANGED floor
     \/ /\ billy' = [Move(b, "Pursue") EXCEPT !.called = TRUE, !.reported = Report(b)]
        /\ Raised
  /\ UNCHANGED <<note, usb>>

(* system_billy *)
RunBilly ==
  /\ at = "billy" /\ at' = "collisions"
  /\ UNCHANGED <<paused, run, player, interest>>
  /\ \/ ~InCrisis /\ UNCHANGED <<floor, note, usb, billy>>
     \/ /\ InCrisis /\ billy.stun
        /\ \E s \in BOOLEAN : billy' = [billy EXCEPT !.stun = s]
        /\ UNCHANGED <<floor, note, usb>>
     \/ /\ InCrisis /\ ~billy.stun /\ billy.mode \in {"Entering", "Shock"}
        /\ billy' \in {billy, Move(billy, IF billy.mode = "Entering" THEN "Shock" ELSE "Assess")}
        /\ UNCHANGED <<floor, note, usb>>
     \/ /\ InCrisis /\ ~billy.stun /\ billy.mode \notin {"Entering", "Shock"}
        /\ \E sees \in Sight, close \in BOOLEAN :
             LET b == Chase(Heed(billy), sees /\ close) IN
             \/ billy' \in Wander(b, sees) /\ UNCHANGED <<floor, note, usb>>
             \/ Secure(b)
             \/ CallBoss(b, sees /\ close)

-------------------------------------------------------------------------------
(* The end of the tick. *)

(* system_collisions: within Billy's reach the rescue is spent, or the run. *)
RunCollisions ==
  /\ at = "collisions"
  /\ \/ at' = "objectives" /\ UNCHANGED <<run, floor, billy>>
     \/ /\ InCrisis /\ ~floor.flicker /\ ~billy.stun
        /\ \/ /\ Rescue /\ ~floor.rescue_used
              /\ floor' = [floor EXCEPT !.rescue_used = TRUE]
              /\ billy' = [billy EXCEPT !.stun = TRUE]
              /\ at' = "objectives" /\ UNCHANGED run
           \/ Finish("Caught") /\ UNCHANGED <<floor, billy>>
  /\ UNCHANGED <<paused, items, interest>>

(* The exit as system_objectives announces it. *)
ExitStatus == IF run.outcome = "Extracted" THEN "Done" ELSE IF InCrisis THEN "Available" ELSE "Locked"

(* Mutant of Verdict: a trace is acted on only in the crisis. *)
VerdictInCrisis ==
  IF floor.alert = "full" THEN "Lockdown" ELSE IF floor.traced /\ InCrisis THEN "Traced" ELSE None

(* The lockdown is looked at before the traces. *)
Verdict == IF floor.alert = "full" THEN "Lockdown" ELSE IF floor.traced THEN "Traced" ELSE None

(* system_objectives and what update does after it: Billy comes by himself
   when the arrival clock is out, then the two endings that wait for the end of the tick. *)
Settle ==
  /\ at = "objectives" /\ at' = "idle"
  /\ \E arrives \in IF run.phase = "Quiet" THEN BOOLEAN ELSE {FALSE} :
       /\ run' = [run EXCEPT !.exit = ExitStatus, !.outcome = Verdict,
                             !.phase = IF Verdict # None THEN "Result" ELSE IF arrives THEN "Crisis" ELSE @]
       /\ billy' = IF arrives THEN Entered(billy) ELSE billy
  /\ UNCHANGED <<paused, floor, items, interest>>

Next ==
  \/ Begin \/ Restart
  \/ TouchNetwork \/ Hack \/ ForceCrisis \/ ForceEnd \/ Advance
  \/ PeelNote \/ TakeUsb \/ EnterChute \/ SearchChute \/ Pickpocket \/ NothingInReach
  \/ ServiceExit \/ ThrowUsb \/ KeepUsb
  \/ RunUsb \/ RunVacuum \/ RunCameras \/ RunSupport \/ RunBehaviour \/ RunBilly
  \/ RunCollisions \/ Settle

Spec == Init /\ [][Next]_vars

-------------------------------------------------------------------------------
(* Properties. *)

Place == {"idle", "immediates", "interactions", "leave", "throw", "usb", "vacuum", "cameras",
          "support", "behaviour", "billy", "collisions", "objectives"}
Run == [phase : {"Quiet", "Crisis", "Result"}, outcome : Failure \cup {None, "Extracted"},
        exit : {"Locked", "Available", "Done"}]
Floor == [alert : {"low", "full"}, flicker : BOOLEAN, traced : BOOLEAN, chute : BOOLEAN,
          rescue_used : BOOLEAN]
Player == [has_note : BOOLEAN, has_usb : BOOLEAN]
Note == [held : BOOLEAN, billy_has : BOOLEAN, exposed : BOOLEAN]
Usb == [held : BOOLEAN, billy_has : BOOLEAN, thrown : BOOLEAN, wiped : BOOLEAN]
Mode == {"Offsite", "Entering", "Shock", "Assess", "Investigate", "Secure", "Guard", "CallBoss", "Pursue"}
Billy == [mode : Mode, target : Object \cup {None}, belief : Object \cup {None},
          reported : Object \cup {None, "intruder"}, called : BOOLEAN,
          has_note : BOOLEAN, has_usb : BOOLEAN, stun : BOOLEAN]
Interest == [note : 0 .. 1, usb : 0 .. 2]

(* Every field keeps its type, the meters their range. *)
TypeOK ==
  /\ at \in Place /\ paused \in BOOLEAN
  /\ run \in Run /\ floor \in Floor
  /\ player \in Player /\ note \in Note /\ usb \in Usb
  /\ billy \in Billy /\ interest \in Interest

(* The four flags that say who has an object agree, and one at most has it:
   peeling, pickpocketing, throwing and grabbing never make two of it, nor
   leave one side believing in an object it lost. *)
Custody ==
  /\ player.has_note = note.held /\ billy.has_note = note.billy_has
  /\ player.has_usb = usb.held /\ billy.has_usb = usb.billy_has
  /\ ~(note.held /\ note.billy_has) /\ ~(usb.held /\ usb.billy_has)

(* Before the crisis Billy is away and nothing that wakes him has happened;
   from the crisis on he is in the building. *)
OffsiteIsQuiet ==
  /\ run.phase = "Quiet" => /\ billy.mode = "Offsite" /\ billy.belief = None /\ ~Carrying(billy)
                            /\ ~usb.held /\ ~usb.thrown
  /\ run.phase = "Crisis" => billy.mode # "Offsite"

(* Billy guards and calls only over something he really carries and has a
   story about, and he calls once: a pickpocket, a decoy thrown at him or a
   flag on a camera takes him out of it. *)
GuardCarries ==
  /\ billy.mode \in {"Guard", "CallBoss"} => Carrying(billy) /\ billy.reported # None
  /\ billy.mode = "CallBoss" => ~billy.called
  /\ billy.called => billy.reported # None

(* The decoy works: while the thrown drive is out, or once Billy has it, the
   misdirect is on, whatever he sees or forgets ("in which case the actor
   does not forget", actor/belief.rs). *)
DecoySticks == usb.thrown \/ usb.billy_has => Misled

(* An end is the end: until a restart nothing but the pause changes, in the
   tick that ended the run too. *)
EndIsFinal == [][Ended => UNCHANGED <<at, run, floor, items, mind>> \/ run' = NewRun]_vars

(* No tick leaves the alert at its limit or an agent traced with the run
   still on. *)
TickSettles == at = "idle" /\ (floor.alert = "full" \/ floor.traced) => Ended

(* The four together: what Billy does, what he carries and what the run has
   come to never fall out with each other, and no tick leaves them undecided. *)
LobbyIsSafe == TypeOK /\ Custody /\ OffsiteIsQuiet /\ GuardCarries /\ TickSettles

(* "derive the note / misdirect / exit ledger" (docs/scenarios/ghost-lobby.md):
   an extracted run announces its exit as done. *)
ExtractionIsDone == run.outcome = "Extracted" => run.exit = "Done"
===============================================================================
