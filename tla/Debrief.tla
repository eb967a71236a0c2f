---------------------------------- MODULE Debrief ----------------------------------
(***************************************************************************)
(* The end of a run told and scored (extract, fail_mission and finish of     *)
(* scenario/sim/mod.rs, the selectors of scenario/outcome.rs, the numbers of  *)
(* ghost_lobby.rs and constants.rs): what is true of a run when it ends, and   *)
(* the debrief made of it.                                                  *)
(*                                                                         *)
(* Points are tenths, the difficulty's multiplier hundredths.                *)
(***************************************************************************)
EXTENDS Option, Integers, FiniteSets

CONSTANT Endings   \* the facts runs are offered to end with

VARIABLES
  facts,     \* the state extract and fail_mission read
  debrief    \* what they make of it, or None

debriefVars == <<facts, debrief>>

Outcomes == {"Extracted", "Caught", "Partition", "Lockdown", "Traced"}

Facts ==
  [note : {"body", "floor", "billy"}, hasUsb : BOOLEAN, drawn : BOOLEAN,
   reported : {None, "Usb", "Note", "Intruder"}, called : BOOLEAN, cameras : Nat, frayed : BOOLEAN,
   method : {"ServiceExit", "LaundryChute"}, usbTrace : BOOLEAN, rescue : BOOLEAN,
   tenths : Nat, alert : 0..100, maxAlert : 0..100, failed : Nat, mult : {85, 100, 125}]

ASSUME EndingsAssumption == Endings \subseteq Facts

(* A guard who took an object, or called, has reported something. *)
Possible(f) ==
  /\ f.hasUsb \/ f.note = "billy" \/ f.called => f.reported # None
  /\ f.alert <= f.maxAlert

-------------------------------------------------------------------------------
(* The state's own conclusions: drawn is an interest past the threshold of    *)
(* misdirection, frayed an isolation past the share of the support limit.    *)
Misled(f) == f.hasUsb \/ f.reported = "Usb" \/ f.drawn

(* Mutant of NoteTerm: the lead lost and the lead left change places. *)
NoteTermSwapped(f) ==
  CASE f.note = "body" -> 6500 [] f.note = "floor" -> -2600 [] OTHER -> -800

NoteTerm(f) ==
  CASE f.note = "body" -> 6500 [] f.note = "billy" -> -2600 [] OTHER -> -800

MisdirectTerm(f) ==
  CASE Misled(f) -> 3300 [] ~Misled(f) /\ f.reported = "Note" -> -1800 [] OTHER -> 0

AtLeast(n, low) == IF n < low THEN low ELSE n

(* ScoreBreakdown, the points of extract. *)
Extracted(f) ==
  [base |-> 7000, note |-> NoteTerm(f), misdirect |-> MisdirectTerm(f),
   boss |-> IF f.called THEN -1400 ELSE 1500,
   camera |-> IF f.cameras = 0 THEN 1200 ELSE -650 * f.cameras,
   isolation |-> IF f.frayed THEN -900 ELSE 1000,
   chute |-> IF f.method = "LaundryChute" THEN 1100 ELSE 0,
   usb_trace |-> IF f.usbTrace THEN -1700 ELSE 0,
   rescue |-> IF f.rescue THEN -800 ELSE 0,
   time_bonus |-> AtLeast(2200 - (17 * f.tenths) \div 10, 0),
   alert_penalty |-> -27 * f.maxAlert,
   failed_actions_penalty |-> -280 * f.failed]

(* ScoreBreakdown::default *)
NoPoints ==
  [base |-> 0, note |-> 0, misdirect |-> 0, boss |-> 0, camera |-> 0, isolation |-> 0, chute |-> 0,
   usb_trace |-> 0, rescue |-> 0, time_bonus |-> 0, alert_penalty |-> 0, failed_actions_penalty |-> 0]

(* The points of fail_mission: a drive in Billy's hands adds nothing, and the  *)
(* alert is the one of the moment.                                          *)
Failed(f) ==
  [NoPoints EXCEPT !.note = IF f.note = "body" THEN 4200 ELSE 1200,
                   !.misdirect = IF f.drawn THEN 1800 ELSE 0,
                   !.alert_penalty = -20 * f.alert]

Raw(p) ==
  p.base + p.note + p.misdirect + p.boss + p.camera + p.isolation + p.chute + p.usb_trace
    + p.rescue + p.time_bonus + p.alert_penalty + p.failed_actions_penalty
JsRound(thousandths) == (thousandths + 500) \div 1000
FinalScore(points, mult) == AtLeast(JsRound(Raw(points) * mult), 0)

(* grade_for *)
GradeFor(score, success) ==
  IF ~success THEN IF score >= 500 THEN "C" ELSE "D"
  ELSE CASE score >= 1850 -> "S"
         [] score \in 1450..1849 -> "A"
         [] score \in 1050..1449 -> "B"
         [] score \in 700..1049 -> "C"
         [] OTHER -> "D"

(* The tags that name what Billy made of it. *)
Theory(f) ==
  CASE Misled(f) -> "Decoy success"
    [] ~Misled(f) /\ f.reported = "Note" -> "Behavioural leak"
    [] OTHER -> "Billy remained uncertain"

(* debrief_text: the paragraph of an extraction asks less than the tag. *)
Paragraph(f, outcome) ==
  CASE outcome # "Extracted" -> outcome
    [] outcome = "Extracted" /\ f.note = "body" /\ (f.hasUsb \/ f.reported = "Usb") -> "errors directed"
    [] outcome = "Extracted" /\ f.note = "body" /\ ~(f.hasUsb \/ f.reported = "Usb") -> "not controlled"
    [] OTHER -> "not solved"

Points(f, outcome) == IF outcome = "Extracted" THEN Extracted(f) ELSE Failed(f)
Multiplier(f, outcome) == IF outcome = "Extracted" THEN f.mult ELSE 100
Score(f, outcome) == FinalScore(Points(f, outcome), Multiplier(f, outcome))

Told(f, outcome) ==
  [reason |-> outcome, points |-> Points(f, outcome), score |-> Score(f, outcome),
   grade |-> GradeFor(Score(f, outcome), outcome = "Extracted"),
   theory |-> IF outcome = "Extracted" THEN Theory(f) ELSE None,
   text |-> Paragraph(f, outcome)]

-------------------------------------------------------------------------------
DebriefInit == facts \in {f \in Endings : Possible(f)} /\ debrief = None

(* extract and fail_mission return at once when the run has ended. *)
End(outcome) ==
  /\ debrief = None
  /\ debrief' = Told(facts, outcome)
  /\ UNCHANGED facts

DebriefNext == \E outcome \in Outcomes : End(outcome)
DebriefSpec == DebriefInit /\ [][DebriefNext]_debriefVars

-------------------------------------------------------------------------------
(* Properties. *)

(* A run like f but better in one respect. *)
Better(f) ==
  LET lead == IF f.note = "billy" THEN "floor" ELSE "body" IN
  {[f EXCEPT !.note = lead], [f EXCEPT !.hasUsb = TRUE], [f EXCEPT !.drawn = TRUE],
   [f EXCEPT !.called = FALSE], [f EXCEPT !.cameras = AtLeast(@ - 1, 0)],
   [f EXCEPT !.frayed = FALSE], [f EXCEPT !.method = "LaundryChute"],
   [f EXCEPT !.usbTrace = FALSE], [f EXCEPT !.rescue = FALSE],
   [f EXCEPT !.tenths = AtLeast(@ - 300, 0)], [f EXCEPT !.alert = AtLeast(@ - 30, 0)],
   [f EXCEPT !.maxAlert = AtLeast(@ - 30, f.alert)], [f EXCEPT !.failed = AtLeast(@ - 1, 0)]}
    \cup {[f EXCEPT !.reported = r] : r \in IF f.reported = "Note" THEN {None, "Usb"} ELSE {"Usb"}}

Rank(grade) == CASE grade = "S" -> 4 [] grade = "A" -> 3 [] grade = "B" -> 2
                 [] grade = "C" -> 1 [] OTHER -> 0

(* No term of the score works against the player, in any company: a run that  *)
(* went better in one respect never scores less nor grades lower, whichever   *)
(* way it ended; a failure is never graded above C; and the paragraph that     *)
(* praises a misled Billy comes only with the tag that says he was.           *)
DebriefIsFair ==
  debrief # None =>
    /\ \A g \in Better(facts) :
         LET better == Told(g, debrief.reason)
         IN better.score >= debrief.score /\ Rank(better.grade) >= Rank(debrief.grade)
    /\ debrief.reason # "Extracted" => debrief.grade \in {"C", "D"}
    /\ debrief.text = "errors directed" => debrief.theory = "Decoy success"
====================================================================================
