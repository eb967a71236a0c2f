----------------------------- MODULE FrontendProofs -----------------------------
(***************************************************************************)
(* What a run is shown and told with, for every value of the constants: the  *)
(* debrief, for any facts a run may end with; the companion's kit and its     *)
(* appetite, for any definition that loads and any scene; the screens and     *)
(* gestures of the windowed client, for any spots of the mouse; the window's   *)
(* split, for any size; a foreign handle, for any streams; the two playings   *)
(* of a package, for any schedule; the terminals' button, for any keys; the   *)
(* windowed client's keyboard and picture, for any frames; and the two batch  *)
(* seats, for any scripts, joins and deaths.                                *)
(***************************************************************************)
EXTENDS Debrief, MoleDefinition, BevyScreens, SeatLayout, PackageRun, Handle, TerminalFeed, BevyDriver,
        BatchSeat, SequenceTheorems, NaturalsInduction, WellFoundedInduction, TLAPS

-------------------------------------------------------------------------------
(* The debrief. *)

TimeTerm(f) == AtLeast(2200 - (17 * f.tenths) \div 10, 0)
CameraTerm(f) == IF f.cameras = 0 THEN 1200 ELSE -650 * f.cameras
RestTerm(f) ==
  7000 + (IF f.called THEN -1400 ELSE 1500) + (IF f.frayed THEN -900 ELSE 1000)
    + (IF f.method = "LaundryChute" THEN 1100 ELSE 0)
    + (IF f.usbTrace THEN -1700 ELSE 0) + (IF f.rescue THEN -800 ELSE 0)

(* What an extraction and a failure add up to. *)
LEMMA RawIs ==
  ASSUME NEW f \in Facts
  PROVE  /\ NoteTerm(f) \in Int /\ MisdirectTerm(f) \in Int /\ TimeTerm(f) \in Int /\ CameraTerm(f) \in Int
         /\ RestTerm(f) \in Int /\ f.maxAlert \in Int /\ f.alert \in Int /\ f.failed \in Int
         /\ Raw(Extracted(f)) =
              RestTerm(f) + NoteTerm(f) + MisdirectTerm(f) + CameraTerm(f) + TimeTerm(f)
                - 27 * f.maxAlert - 280 * f.failed
         /\ Raw(Failed(f)) =
              (IF f.note = "body" THEN 4200 ELSE 1200) + (IF f.drawn THEN 1800 ELSE 0) - 20 * f.alert
<1>1. f.cameras \in Nat /\ f.tenths \in Nat /\ f.maxAlert \in Int /\ f.alert \in Int /\ f.failed \in Int
  BY DEF Facts
<1>2. NoteTerm(f) \in Int /\ MisdirectTerm(f) \in Int /\ RestTerm(f) \in Int
  BY DEF NoteTerm, MisdirectTerm, RestTerm
<1>3. TimeTerm(f) \in Int /\ CameraTerm(f) \in Int
  BY <1>1 DEF TimeTerm, CameraTerm, AtLeast
<1>4. Raw(Failed(f)) =
        (IF f.note = "body" THEN 4200 ELSE 1200) + (IF f.drawn THEN 1800 ELSE 0) - 20 * f.alert
  BY <1>1 DEF Raw, Failed, NoPoints
<1>5. /\ Extracted(f).note = NoteTerm(f) /\ Extracted(f).misdirect = MisdirectTerm(f)
      /\ Extracted(f).camera = CameraTerm(f) /\ Extracted(f).time_bonus = TimeTerm(f)
      /\ Extracted(f).alert_penalty = -27 * f.maxAlert
      /\ Extracted(f).failed_actions_penalty = -280 * f.failed
  BY DEF Extracted, CameraTerm, TimeTerm
<1>6. LET p == Extracted(f) IN
        p.base + p.boss + p.isolation + p.chute + p.usb_trace + p.rescue = RestTerm(f)
  BY DEF Extracted, RestTerm
<1>7. LET p == Extracted(f) IN
        {p.base, p.boss, p.isolation, p.chute, p.usb_trace, p.rescue} \subseteq Int
  BY DEF Extracted
<1>8. Raw(Extracted(f)) =
        RestTerm(f) + NoteTerm(f) + MisdirectTerm(f) + CameraTerm(f) + TimeTerm(f)
          - 27 * f.maxAlert - 280 * f.failed
  BY <1>1, <1>2, <1>3, <1>5, <1>6, <1>7 DEF Raw
<1> QED BY <1>1, <1>2, <1>3, <1>4, <1>8

(* f with one term no worse, the others as they are. *)
NoWorse(f, g) ==
  /\ NoteTerm(f) <= NoteTerm(g) /\ (f.note = "body" => g.note = "body")
  /\ MisdirectTerm(f) <= MisdirectTerm(g) /\ (f.drawn => g.drawn)
  /\ g.called => f.called
  /\ g.cameras <= f.cameras
  /\ g.frayed => f.frayed
  /\ f.method = "LaundryChute" => g.method = "LaundryChute"
  /\ g.usbTrace => f.usbTrace
  /\ g.rescue => f.rescue
  /\ g.tenths <= f.tenths
  /\ g.alert <= f.alert /\ g.maxAlert <= f.maxAlert
  /\ g.failed <= f.failed
  /\ g.mult = f.mult

(* Each respect in which a run is better is a term. *)
LEMMA BetterIs ==
  ASSUME NEW f \in Facts, f.alert <= f.maxAlert, NEW g \in Better(f)
  PROVE  /\ g \in Facts /\ g.mult = f.mult
         /\ g.note = f.note \/ g.note = (IF f.note = "billy" THEN "floor" ELSE "body")
         /\ f.hasUsb => g.hasUsb
         /\ f.drawn => g.drawn
         /\ \/ g.reported = f.reported
            \/ g.reported = "Usb" \/ (f.reported = "Note" /\ g.reported = None)
         /\ g.called => f.called
         /\ g.cameras <= f.cameras
         /\ g.frayed => f.frayed
         /\ g.method = f.method \/ g.method = "LaundryChute"
         /\ g.usbTrace => f.usbTrace
         /\ g.rescue => f.rescue
         /\ g.tenths <= f.tenths /\ g.alert <= f.alert /\ g.maxAlert <= f.maxAlert /\ g.failed <= f.failed
<1>1. /\ f.cameras \in Nat /\ f.tenths \in Nat /\ f.maxAlert \in 0..100 /\ f.alert \in 0..100 /\ f.failed \in Nat
      /\ f.note \in {"body", "floor", "billy"}
  BY DEF Facts
<1>2. CASE g = [f EXCEPT !.note = IF f.note = "billy" THEN "floor" ELSE "body"]
  BY <1>1, <1>2 DEF Facts
<1>3. CASE g = [f EXCEPT !.hasUsb = TRUE]
  <2>1. PICK v \in BOOLEAN : v = TRUE
    OBVIOUS
  <2>2. g = [f EXCEPT !.hasUsb = v]
    BY <1>3, <2>1
  <2>3. g.hasUsb
    BY <1>3 DEF Facts
  <2>4. g \in Facts
    BY <2>2 DEF Facts
  <2> QED BY <1>1, <1>3, <2>3, <2>4 DEF Facts
<1>4. CASE g = [f EXCEPT !.drawn = TRUE]
  <2>1. PICK v \in BOOLEAN : v = TRUE
    OBVIOUS
  <2>2. g = [f EXCEPT !.drawn = v]
    BY <1>4, <2>1
  <2>3. g.drawn
    BY <1>4 DEF Facts
  <2>4. g \in Facts
    BY <2>2 DEF Facts
  <2> QED BY <1>1, <1>4, <2>3, <2>4 DEF Facts
<1>5. CASE g = [f EXCEPT !.called = FALSE]
  <2>1. PICK v \in BOOLEAN : v = FALSE
    OBVIOUS
  <2>2. g = [f EXCEPT !.called = v]
    BY <1>5, <2>1
  <2> QED BY <1>1, <2>1, <2>2 DEF Facts
<1>6. CASE g = [f EXCEPT !.frayed = FALSE]
  <2>1. PICK v \in BOOLEAN : v = FALSE
    OBVIOUS
  <2>2. g = [f EXCEPT !.frayed = v]
    BY <1>6, <2>1
  <2> QED BY <1>1, <2>1, <2>2 DEF Facts
<1>7. CASE g = [f EXCEPT !.usbTrace = FALSE]
  <2>1. PICK v \in BOOLEAN : v = FALSE
    OBVIOUS
  <2>2. g = [f EXCEPT !.usbTrace = v]
    BY <1>7, <2>1
  <2> QED BY <1>1, <2>1, <2>2 DEF Facts
<1>8. CASE g = [f EXCEPT !.rescue = FALSE]
  <2>1. PICK v \in BOOLEAN : v = FALSE
    OBVIOUS
  <2>2. g = [f EXCEPT !.rescue = v]
    BY <1>8, <2>1
  <2> QED BY <1>1, <2>1, <2>2 DEF Facts
<1>9. CASE g = [f EXCEPT !.method = "LaundryChute"]
  BY <1>1, <1>9 DEF Facts
<1>10. CASE \/ g = [f EXCEPT !.cameras = AtLeast(@ - 1, 0)] \/ g = [f EXCEPT !.tenths = AtLeast(@ - 300, 0)]
           \/ g = [f EXCEPT !.failed = AtLeast(@ - 1, 0)]
  BY <1>1, <1>10 DEF Facts, AtLeast
<1>11. CASE \/ g = [f EXCEPT !.alert = AtLeast(@ - 30, 0)]
           \/ g = [f EXCEPT !.maxAlert = AtLeast(@ - 30, f.alert)]
  BY <1>1, <1>11 DEF Facts, AtLeast
<1>12. CASE \E r \in IF f.reported = "Note" THEN {None, "Usb"} ELSE {"Usb"} : g = [f EXCEPT !.reported = r]
  BY <1>1, <1>12 DEF Facts
<1> QED BY <1>2, <1>3, <1>4, <1>5, <1>6, <1>7, <1>8, <1>9, <1>10, <1>11, <1>12 DEF Better

(* No term works against the player. *)
LEMMA BetterIsNoWorse ==
  ASSUME NEW f \in Facts, f.alert <= f.maxAlert, NEW g \in Better(f)
  PROVE  g \in Facts /\ NoWorse(f, g)
<1>1. NoteTerm(f) <= NoteTerm(g) /\ (f.note = "body" => g.note = "body")
  BY BetterIs DEF NoteTerm, Facts
<1>2. Misled(f) => Misled(g)
  BY BetterIs DEF Misled, Facts
<1>3. ~Misled(f) /\ f.reported # "Note" => Misled(g) \/ g.reported # "Note"
  BY BetterIs DEF Misled
<1>4. MisdirectTerm(f) <= MisdirectTerm(g)
  BY <1>2, <1>3 DEF MisdirectTerm
<1> QED BY <1>1, <1>4, BetterIs DEF NoWorse, Facts

(* And so no sum of them does. *)
LEMMA NoWorseScoresMore ==
  ASSUME NEW f \in Facts, NEW g \in Facts, NoWorse(f, g), NEW outcome
  PROVE  /\ Raw(Points(f, outcome)) \in Int /\ Raw(Points(g, outcome)) \in Int
         /\ Raw(Points(f, outcome)) <= Raw(Points(g, outcome))
<1>1. f.cameras \in Nat /\ f.tenths \in Nat /\ g.cameras \in Nat /\ g.tenths \in Nat
  BY DEF Facts
<1>2. TimeTerm(f) <= TimeTerm(g) /\ CameraTerm(f) <= CameraTerm(g)
  BY <1>1 DEF AtLeast, NoWorse, TimeTerm, CameraTerm
<1>3. RestTerm(f) <= RestTerm(g)
  BY DEF RestTerm, NoWorse
<1>4. /\ NoteTerm(f) <= NoteTerm(g) /\ MisdirectTerm(f) <= MisdirectTerm(g)
      /\ g.maxAlert <= f.maxAlert /\ g.alert <= f.alert /\ g.failed <= f.failed
      /\ (f.note = "body" => g.note = "body") /\ (f.drawn => g.drawn)
  BY DEF NoWorse
<1>5. /\ Raw(Extracted(f)) \in Int /\ Raw(Extracted(g)) \in Int
      /\ Raw(Extracted(f)) <= Raw(Extracted(g))
  BY <1>2, <1>3, <1>4, RawIs
<1>6. /\ Raw(Failed(f)) \in Int /\ Raw(Failed(g)) \in Int
      /\ Raw(Failed(f)) <= Raw(Failed(g))
  BY <1>4, RawIs
<1> QED BY <1>5, <1>6 DEF Points

(* What a mission won, and one lost, are graded. *)
Won(x) == Rank(GradeFor(x, TRUE))
Lost(x) == Rank(GradeFor(x, FALSE))

(* The band of a score, when the mission was won. *)
LEMMA WonGrades ==
  ASSUME NEW x \in Nat
  PROVE  /\ x >= 1850 => Won(x) = 4
         /\ 1450 <= x /\ x <= 1849 => Won(x) = 3
         /\ 1050 <= x /\ x <= 1449 => Won(x) = 2
         /\ 700 <= x /\ x <= 1049 => Won(x) = 1
         /\ x <= 699 => Won(x) = 0
<1>1. ASSUME x >= 1850
      PROVE  Won(x) = 4
  <2>1. PICK g : g = GradeFor(x, TRUE)
    OBVIOUS
  <2>2. g = "S"
    BY <1>1, <2>1 DEF GradeFor
  <2>3. Rank(g) = 4
    BY <2>2 DEF Rank
  <2> QED BY <2>1, <2>3, Zenon DEF Won
<1>2. ASSUME 1450 <= x, x <= 1849
      PROVE  Won(x) = 3
  <2>1. PICK g : g = GradeFor(x, TRUE)
    OBVIOUS
  <2>2. g = "A"
    BY <1>2, <2>1 DEF GradeFor
  <2>3. Rank(g) = 3
    BY <2>2 DEF Rank
  <2> QED BY <2>1, <2>3, Zenon DEF Won
<1>3. ASSUME 1050 <= x, x <= 1449
      PROVE  Won(x) = 2
  <2>1. PICK g : g = GradeFor(x, TRUE)
    OBVIOUS
  <2>2. g = "B"
    BY <1>3, <2>1 DEF GradeFor
  <2>3. Rank(g) = 2
    BY <2>2 DEF Rank
  <2> QED BY <2>1, <2>3, Zenon DEF Won
<1>4. ASSUME 700 <= x, x <= 1049
      PROVE  Won(x) = 1
  <2>1. PICK g : g = GradeFor(x, TRUE)
    OBVIOUS
  <2>2. g = "C"
    BY <1>4, <2>1 DEF GradeFor
  <2>3. Rank(g) = 1
    BY <2>2 DEF Rank
  <2> QED BY <2>1, <2>3, Zenon DEF Won
<1>5. ASSUME x <= 699
      PROVE  Won(x) = 0
  <2>1. PICK g : g = GradeFor(x, TRUE)
    OBVIOUS
  <2>2. g = "D"
    BY <1>5, <2>1 DEF GradeFor
  <2>3. Rank(g) = 0
    BY <2>2 DEF Rank
  <2> QED BY <2>1, <2>3, Zenon DEF Won
<1> QED BY <1>1, <1>2, <1>3, <1>4, <1>5

(* The bands of a mission won climb with the score. *)
LEMMA WonRanks ==
  \A x, y \in Nat : x <= y => Won(x) <= Won(y)
<1> SUFFICES ASSUME NEW x \in Nat, NEW y \in Nat, x <= y
             PROVE  Won(x) <= Won(y)
  OBVIOUS
<1>1. Won(x) \in 0..4 /\ Won(y) \in 0..4
  BY WonGrades
<1>2. CASE y >= 1850
  BY <1>1, <1>2, WonGrades
<1>3. CASE 1450 <= y /\ y <= 1849
  BY <1>3, WonGrades
<1>4. CASE 1050 <= y /\ y <= 1449
  BY <1>4, WonGrades
<1>5. CASE 700 <= y /\ y <= 1049
  BY <1>5, WonGrades
<1>6. CASE y <= 699
  BY <1>6, WonGrades
<1> QED BY <1>2, <1>3, <1>4, <1>5, <1>6

(* And those of a mission lost. *)
LEMMA LostRanks ==
  \A x, y \in Nat : x <= y => Lost(x) <= Lost(y)
BY DEF Lost, Rank, GradeFor

(* A sum of points, with the difficulty's multiplier. *)
Scored(raw, mult) == AtLeast(JsRound(raw * mult), 0)

(* Rounding and the floor at zero keep the order. *)
LEMMA ScoresKeepOrder ==
  ASSUME NEW mult \in Nat, NEW a \in Int, NEW b \in Int, a <= b
  PROVE  Scored(a, mult) \in Nat /\ Scored(b, mult) \in Nat /\ Scored(a, mult) <= Scored(b, mult)
<1>1. a * mult \in Int /\ b * mult \in Int /\ a * mult <= b * mult
  BY SMT
<1>2. \A x, y \in Int : x <= y => /\ AtLeast(JsRound(x), 0) \in Nat
                                  /\ AtLeast(JsRound(x), 0) <= AtLeast(JsRound(y), 0)
  BY DEF AtLeast, JsRound
<1> QED BY <1>1, <1>2 DEF Scored

(* A debrief written by Told is fair. *)
LEMMA ToldFairly ==
  ASSUME NEW f \in Facts, f.alert <= f.maxAlert, NEW outcome \in Outcomes
  PROVE  /\ \A g \in Better(f) :
              /\ Told(g, outcome).score >= Told(f, outcome).score
              /\ Rank(Told(g, outcome).grade) >= Rank(Told(f, outcome).grade)
         /\ outcome # "Extracted" => Told(f, outcome).grade \in {"C", "D"}
         /\ Told(f, outcome).text = "errors directed" => Told(f, outcome).theory = "Decoy success"
<1>1. ASSUME NEW g \in Better(f)
      PROVE  /\ Told(g, outcome).score >= Told(f, outcome).score
             /\ Rank(Told(g, outcome).grade) >= Rank(Told(f, outcome).grade)
  <2>1. g \in Facts /\ NoWorse(f, g)
    BY BetterIsNoWorse
  <2>2. PICK a \in Int : a = Raw(Points(f, outcome))
    BY <2>1, NoWorseScoresMore
  <2>3. PICK b \in Int : b = Raw(Points(g, outcome))
    BY <2>1, NoWorseScoresMore
  <2>4. a <= b
    BY <2>1, <2>2, <2>3, NoWorseScoresMore
  <2>5. PICK mult \in {85, 100, 125} : mult = Multiplier(f, outcome)
    BY DEF Multiplier, Facts
  <2>6. mult = Multiplier(g, outcome)
    BY <2>1, <2>5 DEF Multiplier, NoWorse
  <2>7. Score(f, outcome) = Scored(a, mult) /\ Score(g, outcome) = Scored(b, mult)
    BY <2>2, <2>3, <2>5, <2>6 DEF Score, FinalScore, Scored
  <2>8. Scored(a, mult) \in Nat /\ Scored(b, mult) \in Nat /\ Scored(a, mult) <= Scored(b, mult)
    BY <2>4, ScoresKeepOrder
  <2>9. PICK sf \in Nat : sf = Score(f, outcome)
    BY <2>7, <2>8
  <2>10. PICK sg \in Nat : sg = Score(g, outcome)
    BY <2>7, <2>8
  <2>11. sf <= sg
    BY <2>7, <2>8, <2>9, <2>10
  <2>12. Won(sf) <= Won(sg) /\ Lost(sf) <= Lost(sg)
    BY <2>11, WonRanks, LostRanks
  <2>13. Told(f, outcome).score = sf /\ Told(g, outcome).score = sg
    BY <2>9, <2>10 DEF Told
  <2>14. /\ Rank(Told(f, outcome).grade) = IF outcome = "Extracted" THEN Won(sf) ELSE Lost(sf)
         /\ Rank(Told(g, outcome).grade) = IF outcome = "Extracted" THEN Won(sg) ELSE Lost(sg)
    BY <2>9, <2>10 DEF Told, Won, Lost
  <2> QED BY <2>11, <2>12, <2>13, <2>14
<1>2. ASSUME outcome # "Extracted"
      PROVE  Told(f, outcome).grade \in {"C", "D"}
  <2>1. Told(f, outcome).grade = GradeFor(Score(f, outcome), outcome = "Extracted")
    BY DEF Told
  <2> QED BY <1>2, <2>1 DEF GradeFor
<1>3. ASSUME Told(f, outcome).text = "errors directed"
      PROVE  Told(f, outcome).theory = "Decoy success"
  <2>1. Told(f, outcome).text = Paragraph(f, outcome)
    BY DEF Told
  <2>2. outcome = "Extracted" /\ (f.hasUsb \/ f.reported = "Usb")
    BY <1>3, <2>1 DEF Paragraph, Outcomes
  <2>3. Theory(f) = "Decoy success"
    BY <2>2 DEF Theory, Misled
  <2> QED BY <2>2, <2>3 DEF Told
<1> QED BY <1>1, <1>2, <1>3

(* The debrief is what the code makes of facts a run may end with. *)
DebriefInv ==
  /\ facts \in Facts /\ Possible(facts)
  /\ debrief # None => \E outcome \in Outcomes : debrief = Told(facts, outcome)

(* Every debrief is written from the facts the run ended with, and stays. *)
THEOREM DebriefInvariant == DebriefSpec => []DebriefInv
<1>1. DebriefInit => DebriefInv
  BY EndingsAssumption DEF DebriefInit, DebriefInv
<1>2. DebriefInv /\ [DebriefNext]_debriefVars => DebriefInv'
  BY DEF DebriefInv, DebriefNext, End, debriefVars
<1> QED BY <1>1, <1>2, PTL DEF DebriefSpec

(* The score is fair for every ending whose facts have the state's types and   *)
(* hang together, not only for those a run offers: nothing done better, one    *)
(* thing at a time, costs points or a grade.                                *)
THEOREM DebriefFair == DebriefSpec => []DebriefIsFair
<1>1. DebriefInv => DebriefIsFair
  <2> SUFFICES ASSUME DebriefInv, debrief # None
               PROVE  DebriefIsFair
    BY DEF DebriefIsFair
  <2>1. PICK outcome \in Outcomes : debrief = Told(facts, outcome)
    BY DEF DebriefInv
  <2>2. debrief.reason = outcome
    BY <2>1 DEF Told
  <2>3. facts \in Facts /\ facts.alert <= facts.maxAlert
    BY DEF DebriefInv, Possible
  <2> HIDE DEF DebriefInv
  <2> QED BY <2>1, <2>2, <2>3, ToldFairly DEF DebriefIsFair
<1> QED BY <1>1, DebriefInvariant, PTL

-------------------------------------------------------------------------------
(* The kit and the appetite. *)

(* A ladder that climbs, or falls, at each step does so between any two rungs. *)
LEMMA LadderKeepsOrder ==
  ASSUME NEW s \in [1..4 -> Int], NEW n \in 0..3
  PROVE  /\ Climbs(s) => s[n + 1] <= s[4] /\ s[1] <= s[n + 1]
         /\ Falls(s) => s[n + 1] <= s[1]
<1>1. Len(s) = 4
  OBVIOUS
<1>2. 1 \in 1..(Len(s) - 1) /\ 2 \in 1..(Len(s) - 1) /\ 3 \in 1..(Len(s) - 1)
  BY <1>1
<1>3. s[1] \in Int /\ s[2] \in Int /\ s[3] \in Int /\ s[4] \in Int
  OBVIOUS
<1>4. Climbs(s) => s[1] <= s[1 + 1] /\ s[2] <= s[2 + 1] /\ s[3] <= s[3 + 1]
  BY <1>2 DEF Climbs
<1>5. Falls(s) => s[1] >= s[1 + 1] /\ s[2] >= s[2 + 1] /\ s[3] >= s[3 + 1]
  BY <1>2 DEF Falls
<1>6. n = 0 \/ n = 1 \/ n = 2 \/ n = 3
  OBVIOUS
<1>7. 1 + 1 = 2 /\ 2 + 1 = 3 /\ 3 + 1 = 4
  OBVIOUS
<1> QED BY <1>3, <1>4, <1>5, <1>6, <1>7

(* The bands of hunger meet at their seams. *)
LEMMA MultiplierClimbs ==
  ASSUME NEW h \in Nat
  PROVE  HungerMultiplier(h) \in Nat /\ HungerMultiplier(h) <= HungerMultiplier(h + 1)
BY DEF HungerMultiplier, Peckish, Starving

(* So does the strength of a pull, at any distance. *)
LEMMA StrengthClimbs ==
  ASSUME NEW dx \in Int, NEW dy \in Int, NEW h \in Nat
  PROVE  /\ Strength(dx, dy, h) \in Nat /\ Strength(dx, dy, h + 1) \in Nat
         /\ Strength(dx, dy, h) <= Strength(dx, dy, h + 1)
<1> DEFINE d == IF Square(dx, dy) < 100 THEN 100 ELSE Square(dx, dy)
<1>1. Square(dx, dy) \in Nat
  BY DEF Square
<1>2. d \in Nat /\ d >= 100
  BY <1>1
<1>3. h + 1 \in Nat
  OBVIOUS
<1>4. \A x, y \in Nat : x <= y => x \div d \in Nat /\ y \div d \in Nat /\ x \div d <= y \div d
  BY <1>2
<1>5. /\ 5 * HungerMultiplier(h) \in Nat /\ 5 * HungerMultiplier(h + 1) \in Nat
      /\ 5 * HungerMultiplier(h) <= 5 * HungerMultiplier(h + 1)
  BY <1>3, MultiplierClimbs
<1> QED BY <1>4, <1>5 DEF Strength

(* The pull towards the food, that is with the sign of its direction. *)
LEMMA PullTowards ==
  ASSUME NEW dx \in Int, NEW dy \in Int, NEW h \in Nat
  PROVE  /\ Pull(dx, dy, h) * Sign(dx) \in 0..MaxPull
         /\ Pull(dx, dy, h) * Sign(dx) <= Pull(dx, dy, h + 1) * Sign(dx)
<1> DEFINE capped(n) == IF n > MaxPull THEN MaxPull ELSE n
<1>1. /\ Strength(dx, dy, h) \in Nat /\ Strength(dx, dy, h + 1) \in Nat
      /\ Strength(dx, dy, h) <= Strength(dx, dy, h + 1)
  BY StrengthClimbs
<1>2. /\ capped(Strength(dx, dy, h)) \in 0..MaxPull /\ capped(Strength(dx, dy, h + 1)) \in 0..MaxPull
      /\ capped(Strength(dx, dy, h)) <= capped(Strength(dx, dy, h + 1))
  BY <1>1 DEF MaxPull
<1>3. /\ Pull(dx, dy, h) = Sign(dx) * capped(Strength(dx, dy, h))
      /\ Pull(dx, dy, h + 1) = Sign(dx) * capped(Strength(dx, dy, h + 1))
  BY DEF Pull
<1>4. \A p \in 0..MaxPull : Sign(dx) * p * Sign(dx) \in {0, p}
  BY DEF Sign, MaxPull
<1>5. Sign(dx) \in {-1, 0, 1}
  BY DEF Sign
<1> HIDE DEF capped
<1>6. \A p \in 0..MaxPull : Sign(dx) * p * Sign(dx) = IF Sign(dx) = 0 THEN 0 ELSE p
  BY <1>5 DEF MaxPull
<1> QED BY <1>2, <1>3, <1>6 DEF MaxPull

(* Where there is food there is some that is nearest. *)
LEMMA SomeFoodIsNearest ==
  ASSUME NEW m \in Meals, NearestFood(m) = {}
  PROVE  Left(m) = {}
<1> SUFFICES ASSUME Left(m) # {} PROVE FALSE
  OBVIOUS
<1> DEFINE far(e) == Square(e.x - m.x, e.y - m.y)
           D == {n \in Nat : \E e \in Left(m) : far(e) = n}
<1>0. \A x, y \in Int : Square(x, y) \in Nat
  BY DEF Square
<1>1. ASSUME NEW e \in Left(m)
      PROVE  far(e) \in Nat
  <2>1. m.x \in Int /\ e.x \in Int /\ e.y \in Int
    BY KitsAssumption DEF Left
  <2>2. m.y \in Int
    BY KitsAssumption
  <2>3. e.x - m.x \in Int /\ e.y - m.y \in Int
    BY <2>1, <2>2
  <2> QED BY <1>0, <2>3
<1>2. D # {} /\ D \subseteq Nat
  BY <1>1
<1>3. PICK n \in D : \A i \in D : ~ (<<i, n>> \in OpToRel(<, Nat))
  BY <1>2, NatLessThanWellFounded, WFMin
<1>4. PICK e \in Left(m) : far(e) = n
  BY <1>3
<1>5. \A o \in Left(m) : far(o) \in D
  BY <1>1
<1> HIDE DEF D
<1>6. \A i \in D : ~(i < n)
  BY <1>2, <1>3 DEF OpToRel
<1>7. n \in Nat /\ \A i \in D : n <= i
  <2>1. n \in Nat /\ D \subseteq Nat
    BY <1>2, <1>3
  <2>2. ASSUME NEW i \in D
        PROVE  n <= i
    <3>1. i \in Nat
      BY <2>1
    <3>2. ~(i < n)
      BY <1>6
    <3> QED BY <2>1, <3>1, <3>2
  <2> QED BY <2>1, <2>2
<1> HIDE DEF far
<1>8. \A o \in Left(m) : far(e) <= far(o)
  BY <1>4, <1>5, <1>7
<1>9. e \in NearestFood(m)
  BY <1>4, <1>8 DEF NearestFood, far
<1> QED BY <1>9

(* A definition that loaded, a scene of the data, levels there are. *)
KitInv ==
  /\ kit \in Kits /\ KitLoads(kit)
  /\ bay \in [Slots -> 0..3]
  /\ meal \in Meals

(* The definition in play is one that loaded, whatever is upgraded. *)
THEOREM KitInvariant == KitSpec => []KitInv
<1>1. KitInit => KitInv
  BY DEF KitInit, KitInv
<1>2. KitInv /\ [KitNext]_kitVars => KitInv'
  <2> SUFFICES ASSUME KitInv, [KitNext]_kitVars
               PROVE  KitInv'
    OBVIOUS
  <2>1. ASSUME NEW s \in Slots, Upgrade(s)
        PROVE  KitInv'
    <3>1. bay[s] + 1 \in 0..3
      BY <2>1 DEF Upgrade, KitInv
    <3> QED BY <2>1, <3>1 DEF Upgrade, KitInv
  <2>2. CASE UNCHANGED kitVars
    BY <2>2 DEF KitInv, kitVars
  <2> QED BY <2>1, <2>2 DEF KitNext
<1> QED BY <1>1, <1>2, PTL DEF KitSpec

(* With a kit that loaded, the checks that compare only the top of a ladder     *)
(* hold at every level; the pull of food is tame at every distance and hunger. *)
THEOREM KitSound == KitSpec => []KitIsSound
<1>1. KitInv => UpgradesHelp
  <2> SUFFICES ASSUME KitInv
               PROVE  UpgradesHelp
    OBVIOUS
  <2>1. \A l \in DOMAIN Ladders : kit.ladders[l] \in [1..4 -> Int] /\ Ladders[l] \in Slots
    BY KitsAssumption DEF KitInv, Slots
  <2>2. /\ "audio_sound_count" \in DOMAIN Ladders \ {"eat_chance_multiplier"}
        /\ Ladders["audio_sound_count"] = "AudioSynthesiser"
    BY DEF Ladders
  <2>3. "eat_chance_multiplier" \in DOMAIN Ladders
    BY DEF Ladders
  <2>4. LaddersPass(kit) /\ kit.sounds \in Int
    BY KitsAssumption DEF KitInv, KitLoads
  <2>5. \A s \in Slots : bay[s] \in 0..3
    BY DEF KitInv
  <2> HIDE DEF KitInv
  <2>6. Rung(kit, "audio_sound_count", bay["AudioSynthesiser"]) <= kit.sounds
    <3>1. PICK n \in 0..3 : n = bay["AudioSynthesiser"]
      BY <2>1, <2>2, <2>5
    <3>2. PICK ladder \in [1..4 -> Int] : ladder = kit.ladders["audio_sound_count"]
      BY <2>1, <2>2
    <3>3. Climbs(ladder) /\ ladder[4] <= kit.sounds
      BY <2>2, <2>4, <3>2 DEF LaddersPass, Rung
    <3>4. ladder[n + 1] <= ladder[4]
      BY <3>3, LadderKeepsOrder
    <3>5. ladder[n + 1] \in Int /\ ladder[4] \in Int
      OBVIOUS
    <3> QED BY <2>4, <3>1, <3>2, <3>3, <3>4, <3>5 DEF Rung
  <2>7. ASSUME NEW s \in Slots, NEW l \in DOMAIN Ladders
        PROVE  IF l = "eat_chance_multiplier" THEN Rung(kit, l, bay[s]) <= Rung(kit, l, 0)
               ELSE Rung(kit, l, bay[s]) >= Rung(kit, l, 0)
    <3>1. PICK n \in 0..3 : n = bay[s]
      BY <2>5
    <3>2. PICK ladder \in [1..4 -> Int] : ladder = kit.ladders[l]
      BY <2>1
    <3>3. IF l = "eat_chance_multiplier" THEN Falls(ladder) ELSE Climbs(ladder)
      BY <2>4, <3>2 DEF LaddersPass
    <3>4. /\ Climbs(ladder) => ladder[1] <= ladder[n + 1]
          /\ Falls(ladder) => ladder[n + 1] <= ladder[1]
      BY LadderKeepsOrder
    <3>5. ladder[n + 1] \in Int /\ ladder[1] \in Int /\ 0 + 1 = 1
      OBVIOUS
    <3> QED BY <3>1, <3>2, <3>3, <3>4, <3>5 DEF Rung
  <2> QED BY <2>6, <2>7 DEF UpgradesHelp
<1>2. KitInv => PullIsTame
  <2> SUFFICES ASSUME KitInv
               PROVE  PullIsTame
    OBVIOUS
  <2>1. ASSUME NEW e \in Left(meal)
        PROVE  e.x - meal.x \in Int /\ e.y - meal.y \in Int /\ meal.hunger \in Nat
    <3>1. meal.x \in Int /\ meal.y \in Int /\ meal.hunger \in Nat
      BY KitsAssumption DEF KitInv
    <3>2. e.x \in Int /\ e.y \in Int
      BY KitsAssumption DEF KitInv, Left
    <3> QED BY <3>1, <3>2
  <2>2. ASSUME Behaviour(meal.hunger, NearestFood(meal) # {}) = "Wandering"
        PROVE  TotalPull(meal) = 0
    <3>1. NearestFood(meal) = {}
      BY <2>2 DEF Behaviour
    <3>2. Left(meal) = {}
      BY <3>1, SomeFoodIsNearest DEF KitInv
    <3> QED BY <3>2 DEF TotalPull
  <2> QED BY <2>1, <2>2, PullTowards DEF PullIsTame
<1> QED BY <1>1, <1>2, KitInvariant, PTL DEF KitIsSound

-------------------------------------------------------------------------------
(* The screens. *)

Modes == {"GhostLobby", "NetView"}
Someone == Seats \cup {None}
Sendings ==
  [op : {"Interact", "PivotBridge", "Reprogram", "Wire", "Cut", "Invert", "NetSsh", "NetHack"}, by : Someone]
Pivot == [op |-> "NetSsh", by |-> "Hacker"]

Uis ==
  [mode : Modes, next : Modes, view : {"Both", "Floor", "Van"},
   phase : {"Closed", "DivingIn", "On", "PullingOut"}, deck : BOOLEAN, shown : BOOLEAN, drag : Someone,
   seat : Seats, selection : {None, "device"}, origin : BOOLEAN, dragging : BOOLEAN,
   sent : SUBSET Sendings]

(* What the floor's systems leave to Net View, and the other way round. *)
SameMap(u, v) ==
  /\ v.mode = u.mode /\ v.next = u.next /\ v.origin = u.origin /\ v.dragging = u.dragging
  /\ Pivot \notin u.sent => Pivot \notin v.sent
SameScreens(u, v) == v.phase = u.phase /\ v.deck = u.deck
SameWiring(u, v) == v.shown = u.shown /\ v.drag = u.drag

(* The deck's key and the simulation move the screens, and nothing else. *)
LEMMA ScreenKeysDo ==
  ASSUME NEW u \in Uis, NEW k, NEW seated \in BOOLEAN, NEW cold \in BOOLEAN,
         NEW v, v = ScreenKeys(u, k, seated, cold)
  PROVE  /\ v \in Uis /\ SameMap(u, v) /\ SameWiring(u, v)
         /\ v.phase \in {"DivingIn", "On"} => seated
<1> DEFINE stands == KeysDriveBody(u) /\ seated /\ u.phase = "On" /\ k = "Esc"
           toggle == k = "H" \/ (~KeysDriveBody(u) /\ (k = "E" \/ (u.deck /\ k = "Esc")))
           phase == CASE seated /\ u.phase = "Closed" -> "DivingIn"
                      [] ~seated /\ u.phase \in {"DivingIn", "On"} -> "PullingOut"
                      [] OTHER -> u.phase
           sends == {c \in {"Interact", "PivotBridge"} :
                       IF c = "Interact" THEN stands ELSE toggle /\ ~u.deck /\ cold}
           told == u.sent \cup {[op |-> c, by |-> None] : c \in sends}
<1>1. PICK deck \in BOOLEAN : deck = IF toggle THEN ~u.deck ELSE u.deck
  BY DEF Uis
<1>2. phase \in {"Closed", "DivingIn", "On", "PullingOut"} /\ (phase \in {"DivingIn", "On"} => seated)
  BY DEF Uis
<1>3. told \in SUBSET Sendings /\ (Pivot \notin u.sent => Pivot \notin told)
  <2>1. sends \subseteq {"Interact", "PivotBridge"}
    OBVIOUS
  <2> HIDE DEF sends
  <2>2. \A c \in sends : /\ [op |-> c, by |-> None] \in Sendings
                         /\ [op |-> c, by |-> None] # Pivot
    BY <2>1 DEF Sendings, Someone, Pivot
  <2>3. u.sent \in SUBSET Sendings
    BY DEF Uis
  <2> HIDE DEF Sendings, Pivot
  <2> QED BY <2>2, <2>3
<1>4. v = [u EXCEPT !.phase = phase, !.deck = deck, !.sent = told]
  BY <1>1 DEF ScreenKeys
<1> HIDE DEF phase, told
<1> QED BY <1>2, <1>3, <1>4 DEF Uis, SameMap, SameWiring

(* What holds of the wiring in every mode, and on the floor. *)
Wired(u) ==
  /\ u.shown => WiringSeats(u) # {}
  /\ u.drag # None => u.shown

(* The wiring's key shows it on a screen that is on, and drops it with the last. *)
LEMMA WiringKeysDo ==
  ASSUME NEW u \in Uis, u.drag # None => u.shown, NEW k, NEW v, v = WiringKeys(u, k)
  PROVE  v \in Uis /\ SameMap(u, v) /\ SameScreens(u, v) /\ Wired(v)
<1>1. CASE WiringSeats(u) = {}
  <2>1. PICK shown \in BOOLEAN : shown = FALSE
    OBVIOUS
  <2>2. v = [u EXCEPT !.shown = shown, !.drag = None]
    BY <1>1, <2>1 DEF WiringKeys
  <2> QED BY <2>1, <2>2 DEF Uis, Someone, SameMap, SameScreens, Wired
<1>2. CASE WiringSeats(u) # {} /\ k = "C"
  <2>1. PICK shown \in BOOLEAN : shown = ~u.shown
    OBVIOUS
  <2>2. v = [u EXCEPT !.shown = shown, !.drag = None]
    BY <1>2, <2>1 DEF WiringKeys
  <2>3. v \in Uis /\ SameMap(u, v) /\ SameScreens(u, v) /\ v.drag = None
    BY <2>2 DEF Uis, Someone, SameMap, SameScreens
  <2>4. WiringSeats(v) = WiringSeats(u)
    BY <2>3 DEF WiringSeats, SameScreens
  <2> QED BY <1>2, <2>3, <2>4 DEF Wired
<1>3. CASE WiringSeats(u) # {} /\ k # "C"
  <2>1. v = u
    BY <1>3 DEF WiringKeys
  <2> QED BY <1>3, <2>1 DEF SameMap, SameScreens, Wired
<1> QED BY <1>1, <1>2, <1>3

(* A command that is not a pivot leaves everything else. *)
LEMMA SendDo ==
  ASSUME NEW u \in Uis, NEW c \in Sendings, c # Pivot, NEW v, v = Send(u, c)
  PROVE  v \in Uis /\ SameMap(u, v) /\ SameScreens(u, v) /\ SameWiring(u, v)
<1>1. u.sent \cup {c} \in SUBSET Sendings
  BY DEF Uis
<1>2. PICK told \in SUBSET Sendings : told = u.sent \cup {c}
  BY <1>1
<1>3. v = [u EXCEPT !.sent = told]
  BY <1>2 DEF Send
<1>4. Pivot \notin u.sent => Pivot \notin told
  BY <1>2
<1> HIDE DEF Sendings, Pivot
<1> QED BY <1>3, <1>4 DEF Uis, SameMap, SameScreens, SameWiring

(* The mouse draws on the wiring when it is up, on a screen that is on. *)
LEMMA WiringMouseDo ==
  ASSUME NEW u \in Uis, NEW m, NEW v, v = WiringMouse(u, m)
  PROVE  /\ v \in Uis /\ SameMap(u, v) /\ SameScreens(u, v) /\ v.shown = u.shown
         /\ (u.drag # None => u.shown) => (v.drag # None => v.shown)
<1> DEFINE by == m.spot.pane
           op(name) == [op |-> name, by |-> by]
<1>1. CASE ~(u.shown /\ OnScreen(u, m.spot))
  <2>1. v = u
    BY <1>1 DEF WiringMouse
  <2> QED BY <2>1 DEF SameMap, SameScreens
<1>2. CASE u.shown /\ OnScreen(u, m.spot)
  <2>1. by \in Seats
    BY <1>2 DEF OnScreen, WiringSeats
  <2>2. \A name \in {"Reprogram", "Wire", "Cut", "Invert"} :
          op(name) \in Sendings /\ op(name) # Pivot
    BY <2>1 DEF Sendings, Someone, Pivot
  <2>3. ASSUME NEW name \in {"Reprogram", "Wire", "Cut", "Invert"}, NEW w, w = Send(u, op(name))
        PROVE  w \in Uis /\ SameMap(u, w) /\ SameScreens(u, w) /\ SameWiring(u, w)
    BY <2>2, <2>3, SendDo
  <2>4. CASE m.kind = "press" /\ m.spot.on = "out"
    <3>1. v = [u EXCEPT !.drag = by]
      BY <1>2, <2>4 DEF WiringMouse
    <3> QED BY <1>2, <2>1, <3>1 DEF Uis, Someone, SameMap, SameScreens
  <2>5. CASE m.kind = "press" /\ m.spot.on = "relay"
    <3>1. v = Send(u, op("Reprogram"))
      BY <1>2, <2>5 DEF WiringMouse
    <3> QED BY <2>3, <3>1 DEF SameWiring
  <2>6. CASE m.kind = "right" /\ m.spot.on = "wire"
    <3>1. v = Send(u, op("Cut"))
      BY <1>2, <2>6 DEF WiringMouse
    <3> QED BY <2>3, <3>1 DEF SameWiring
  <2>7. CASE m.kind = "ctrl_right" /\ m.spot.on = "wire"
    <3>1. v = Send(u, op("Invert"))
      BY <1>2, <2>7 DEF WiringMouse
    <3> QED BY <2>3, <3>1 DEF SameWiring
  <2>8. CASE m.kind = "release"
    <3>1. PICK w : w = IF u.drag = by /\ m.spot.on = "in" THEN Send(u, op("Wire")) ELSE u
      OBVIOUS
    <3>2. v = [w EXCEPT !.drag = None]
      BY <1>2, <2>8, <3>1 DEF WiringMouse
    <3>3. w \in Uis /\ SameMap(u, w) /\ SameScreens(u, w) /\ SameWiring(u, w)
      <4>1. CASE w = u
        BY <4>1 DEF SameMap, SameScreens, SameWiring
      <4>2. CASE w = Send(u, op("Wire"))
        BY <2>3, <4>2
      <4> QED BY <3>1, <4>1, <4>2
    <3> QED BY <3>2, <3>3 DEF Uis, Someone, SameMap, SameScreens, SameWiring
  <2>9. CASE /\ ~(m.kind = "press" /\ m.spot.on = "out") /\ ~(m.kind = "press" /\ m.spot.on = "relay")
             /\ ~(m.kind = "right" /\ m.spot.on = "wire") /\ ~(m.kind = "ctrl_right" /\ m.spot.on = "wire")
             /\ m.kind # "release"
    <3>1. v = u
      BY <1>2, <2>9 DEF WiringMouse
    <3> QED BY <3>1 DEF SameMap, SameScreens
  <2> QED BY <2>4, <2>5, <2>6, <2>7, <2>8, <2>9
<1> QED BY <1>1, <1>2

(* The deck's selection is the deck's. *)
LEMMA DeckClickDo ==
  ASSUME NEW u \in Uis, NEW m, NEW v, v = DeckClick(u, m)
  PROVE  v \in Uis /\ SameMap(u, v) /\ SameScreens(u, v) /\ SameWiring(u, v)
<1>1. v = u \/ \E selection \in {None, "device"} : v = [u EXCEPT !.selection = selection]
  BY DEF DeckClick
<1> QED BY <1>1 DEF Uis, SameMap, SameScreens, SameWiring

(* The card sends a hack, or nothing. *)
LEMMA CardPressDo ==
  ASSUME NEW u \in Uis, NEW m, NEW reach, NEW v, v = CardPress(u, m, reach)
  PROVE  v \in Uis /\ SameMap(u, v) /\ SameScreens(u, v) /\ SameWiring(u, v)
<1> DEFINE hack == [op |-> "NetHack", by |-> "Hacker"]
<1>1. hack \in Sendings /\ hack # Pivot
  BY DEF Sendings, Someone, Seats, Pivot
<1>2. CASE v = u
  BY <1>2 DEF SameMap, SameScreens, SameWiring
<1>3. CASE v = Send(u, hack)
  BY <1>1, <1>3, SendDo
<1> QED BY <1>2, <1>3 DEF CardPress

(* The view and the seat under the mouse are nobody else's. *)
LEMMA HandsOverDo ==
  ASSUME NEW u \in Uis, NEW k, NEW m, m.spot.pane \in Someone, NEW v, v = HandsOver(u, k, m)
  PROVE  v \in Uis /\ SameMap(u, v) /\ SameScreens(u, v) /\ SameWiring(u, v)
<1> DEFINE looking == IF k = "B" THEN NextOf(u.view) ELSE u.view
           under == IF m.spot.pane = None THEN u.seat ELSE m.spot.pane
           split == CASE looking = "Floor" -> "Infiltrator" [] looking = "Van" -> "Hacker" [] OTHER -> under
<1>1. looking \in {"Both", "Floor", "Van"}
  BY DEF NextOf, Uis
<1>2. under \in Seats
  BY DEF Uis, Someone
<1>3. split \in Seats
  BY <1>2 DEF Seats
<1>4. v = [u EXCEPT !.view = looking, !.seat = split]
  BY DEF HandsOver
<1> HIDE DEF looking, split
<1> QED BY <1>1, <1>3, <1>4 DEF Uis, SameMap, SameScreens, SameWiring

(* A camera that arrives can only put a screen on. *)
LEMMA FollowCameraDo ==
  ASSUME NEW u \in Uis, NEW arrived \in BOOLEAN, NEW v, v = FollowCamera(u, arrived)
  PROVE  /\ v \in Uis /\ SameMap(u, v) /\ SameWiring(u, v)
         /\ v.phase \in {"DivingIn", "On"} => u.phase \in {"DivingIn", "On"}
         /\ WiringSeats(u) \subseteq WiringSeats(v)
<1>1. \/ v = u
      \/ arrived /\ u.phase = "DivingIn" /\ v = [u EXCEPT !.phase = "On"]
      \/ arrived /\ u.phase = "PullingOut" /\ v = [u EXCEPT !.phase = "Closed"]
  BY DEF FollowCamera
<1>2. /\ v \in Uis /\ SameMap(u, v) /\ SameWiring(u, v) /\ v.deck = u.deck
      /\ \/ v.phase = u.phase
         \/ u.phase = "DivingIn" /\ v.phase = "On"
         \/ u.phase = "PullingOut" /\ v.phase = "Closed"
  BY <1>1 DEF Uis, SameMap, SameWiring
<1>3. WiringSeats(u) \subseteq WiringSeats(v)
  BY <1>2 DEF WiringSeats
<1> QED BY <1>2, <1>3

(* A frame of the floor and the van. *)
LEMMA InLobbyDo ==
  ASSUME NEW u \in Uis, u.drag # None => u.shown, NEW k, NEW m, m.spot.pane \in Someone,
         NEW seated \in BOOLEAN, NEW arrived \in BOOLEAN, NEW session \in Sessions,
         NEW v, v = InLobby(u, k, m, seated, arrived, session)
  PROVE  /\ v \in Uis /\ SameMap(u, v) /\ Wired(v)
         /\ v.phase \in {"DivingIn", "On"} => seated
<1>0. session.cold \in BOOLEAN
  BY DEF Sessions
<1>1. PICK a : a = ScreenKeys(u, k, seated, session.cold)
  OBVIOUS
<1>2. PICK b : b = WiringKeys(a, k)
  OBVIOUS
<1>3. PICK c : c = WiringMouse(b, m)
  OBVIOUS
<1>4. PICK d : d = DeckClick(c, m)
  OBVIOUS
<1>5. PICK e : e = CardPress(d, m, session.reach)
  OBVIOUS
<1>6. PICK f : f = HandsOver(e, k, m)
  OBVIOUS
<1>7. v = FollowCamera(f, arrived)
  BY <1>1, <1>2, <1>3, <1>4, <1>5, <1>6, Zenon DEF InLobby
<1>11. /\ a \in Uis /\ SameMap(u, a) /\ SameWiring(u, a)
       /\ a.phase \in {"DivingIn", "On"} => seated
  BY <1>0, <1>1, ScreenKeysDo
<1>12. b \in Uis /\ SameMap(a, b) /\ SameScreens(a, b) /\ Wired(b)
  <2>1. a.drag # None => a.shown
    BY <1>11 DEF SameWiring
  <2> QED BY <1>2, <1>11, <2>1, WiringKeysDo
<1>13. /\ c \in Uis /\ SameMap(b, c) /\ SameScreens(b, c) /\ c.shown = b.shown
       /\ (b.drag # None => b.shown) => (c.drag # None => c.shown)
  BY <1>3, <1>12, WiringMouseDo
<1>14. d \in Uis /\ SameMap(c, d) /\ SameScreens(c, d) /\ SameWiring(c, d)
  BY <1>4, <1>13, DeckClickDo
<1>15. e \in Uis /\ SameMap(d, e) /\ SameScreens(d, e) /\ SameWiring(d, e)
  BY <1>5, <1>14, CardPressDo
<1>16. f \in Uis /\ SameMap(e, f) /\ SameScreens(e, f) /\ SameWiring(e, f)
  BY <1>6, <1>15, HandsOverDo
<1>17. /\ v \in Uis /\ SameMap(f, v) /\ SameWiring(f, v)
       /\ v.phase \in {"DivingIn", "On"} => f.phase \in {"DivingIn", "On"}
       /\ WiringSeats(f) \subseteq WiringSeats(v)
  BY <1>7, <1>16, FollowCameraDo
<1>18. SameMap(u, v)
  BY <1>11, <1>12, <1>13, <1>14, <1>15, <1>16, <1>17 DEF SameMap
<1>19. f.phase = a.phase /\ f.phase = b.phase /\ f.deck = b.deck
  BY <1>12, <1>13, <1>14, <1>15, <1>16 DEF SameScreens
<1>20. v.phase \in {"DivingIn", "On"} => seated
  BY <1>11, <1>17, <1>19
<1>21. v.shown = b.shown /\ (v.drag # None => v.shown)
  BY <1>12, <1>13, <1>14, <1>15, <1>16, <1>17 DEF SameWiring, Wired
<1>22. WiringSeats(f) = WiringSeats(b)
  BY <1>19 DEF WiringSeats
<1>23. Wired(v)
  BY <1>12, <1>17, <1>21, <1>22 DEF Wired
<1> QED BY <1>17, <1>18, <1>20, <1>23

(* What becomes of a press on the map, and who pivots. *)
Panned(u, m, v) ==
  /\ m.kind = "press" => v.origin /\ ~v.dragging
  /\ m.kind = "far" /\ left /\ u.origin => v.origin /\ v.dragging
  /\ m.kind # "press" /\ m.kind # "far" => v.dragging = u.dragging
  /\ m.kind # "press" /\ m.kind # "release" => v.origin = u.origin
  /\ Pivot \in v.sent => m.kind = "release" /\ ~u.dragging

(* A frame of Net View. *)
LEMMA InNetViewDo ==
  ASSUME NEW u \in Uis, Pivot \notin u.sent, NEW m, NEW v, v = NetViewClick(PanNetView(u, m), m)
  PROVE  v \in Uis /\ v.mode = u.mode /\ SameWiring(u, v) /\ Panned(u, m, v)
<1>1. PICK w : w = PanNetView(u, m)
  OBVIOUS
<1>2. /\ w \in Uis /\ w.mode = u.mode /\ w.sent = u.sent /\ SameWiring(u, w)
      /\ m.kind = "press" => w.origin /\ ~w.dragging
      /\ m.kind = "far" /\ left /\ u.origin => w.origin /\ w.dragging
      /\ m.kind # "press" /\ m.kind # "far" => w.dragging = u.dragging
      /\ m.kind # "press" /\ m.kind # "release" => w.origin = u.origin
  <2>1. PICK t \in BOOLEAN : t = TRUE
    OBVIOUS
  <2>2. PICK f \in BOOLEAN : f = FALSE
    OBVIOUS
  <2>3. CASE m.kind = "press"
    <3>1. w = [u EXCEPT !.origin = t, !.dragging = f]
      BY <1>1, <2>1, <2>2, <2>3 DEF PanNetView
    <3> QED BY <2>1, <2>2, <2>3, <3>1 DEF Uis, SameWiring
  <2>4. CASE m.kind = "release"
    <3>1. w = [u EXCEPT !.origin = f]
      BY <1>1, <2>2, <2>4 DEF PanNetView
    <3> QED BY <2>2, <2>4, <3>1 DEF Uis, SameWiring
  <2>5. CASE m.kind = "far" /\ left /\ u.origin
    <3>1. w = [u EXCEPT !.dragging = t]
      BY <1>1, <2>1, <2>5 DEF PanNetView
    <3> QED BY <2>1, <2>5, <3>1 DEF Uis, SameWiring
  <2>6. CASE m.kind # "press" /\ m.kind # "release" /\ ~(m.kind = "far" /\ left /\ u.origin)
    <3>1. w = u
      BY <1>1, <2>6 DEF PanNetView
    <3> QED BY <2>6, <3>1 DEF SameWiring
  <2> QED BY <2>3, <2>4, <2>5, <2>6
<1>3. /\ v \in Uis /\ v.mode = w.mode /\ SameWiring(w, v)
      /\ v.origin = w.origin /\ v.dragging = w.dragging
      /\ Pivot \in v.sent => m.kind = "release" /\ ~w.dragging
  <2>1. CASE m.kind = "release" /\ ~w.dragging /\ m.spot.on = "node"
    <3>1. Pivot \in Sendings
      BY DEF Pivot, Sendings, Someone, Seats
    <3>2. PICK told \in SUBSET Sendings : told = w.sent \cup {Pivot}
      BY <1>2, <3>1 DEF Uis
    <3>3. v = [w EXCEPT !.sent = told]
      BY <1>1, <2>1, <3>2 DEF NetViewClick, Send, Pivot
    <3> QED BY <1>2, <2>1, <3>3 DEF Uis, SameWiring
  <2>2. CASE m.kind = "right" /\ m.spot.on = "node"
    <3> DEFINE hack == [op |-> "NetHack", by |-> "Hacker"]
    <3>1. hack \in Sendings /\ hack # Pivot
      BY DEF Pivot, Sendings, Someone, Seats
    <3>2. v = Send(w, hack)
      BY <1>1, <2>2 DEF NetViewClick
    <3> QED BY <1>2, <3>1, <3>2, SendDo DEF SameMap
  <2>3. CASE ~(m.kind = "release" /\ ~w.dragging /\ m.spot.on = "node") /\ ~(m.kind = "right" /\ m.spot.on = "node")
    <3>1. v = w
      BY <1>1, <2>3 DEF NetViewClick
    <3> QED BY <1>2, <3>1 DEF SameWiring
  <2> QED BY <2>1, <2>2, <2>3
<1> QED BY <1>2, <1>3 DEF SameWiring, Panned

Presses == [mode : Modes, port : Someone, far : BOOLEAN, across : BOOLEAN]

(* The screens agree, a drag never outlives the wiring it is drawn on, and a    *)
(* press that has stayed in its mode is the one that mode is following.        *)
ScreensInv ==
  /\ ui \in Uis /\ using \in BOOLEAN /\ left \in BOOLEAN /\ press \in Presses
  /\ ui.drag # None => ui.shown
  /\ left /\ ~press.across => ui.mode = press.mode /\ (press.mode = "NetView" => ui.origin)
  /\ ScreensAgree

(* What the button's history is, a frame later. *)
LEMMA PressedIs ==
  ASSUME press \in Presses, left \in BOOLEAN, NEW mode \in Modes, NEW m, m.spot.pane \in Someone,
         NEW p, p = Pressed(mode, m)
  PROVE  /\ p \in Presses
         /\ m.kind = "press" => p.mode = mode /\ ~p.far /\ ~p.across
         /\ m.kind # "press" /\ left =>
              /\ p.mode = press.mode
              /\ p.far <=> press.far \/ m.kind = "far"
              /\ p.across <=> press.across \/ mode # press.mode
         /\ m.kind # "press" /\ ~left => p = press
<1>1. CASE m.kind = "press"
  <2>1. PICK f \in BOOLEAN : f = FALSE
    OBVIOUS
  <2>2. PICK port \in Someone : port = IF m.spot.on = "out" THEN m.spot.pane ELSE None
    BY DEF Someone
  <2>3. p = [mode |-> mode, port |-> port, far |-> f, across |-> f]
    BY <1>1, <2>1, <2>2 DEF Pressed
  <2> QED BY <1>1, <2>1, <2>3 DEF Presses
<1>2. CASE m.kind # "press" /\ left
  <2>1. PICK far \in BOOLEAN : far = (press.far \/ m.kind = "far")
    OBVIOUS
  <2>2. PICK across \in BOOLEAN : across = (press.across \/ mode # press.mode)
    OBVIOUS
  <2>3. p = [press EXCEPT !.far = far, !.across = across]
    BY <1>2, <2>1, <2>2 DEF Pressed, Presses
  <2> QED BY <1>2, <2>1, <2>2, <2>3 DEF Presses
<1>3. CASE m.kind # "press" /\ ~left
  BY <1>3 DEF Pressed
<1> QED BY <1>1, <1>2, <1>3

(* A frame keeps the invariant. *)
LEMMA FrameKeepsScreens ==
  ASSUME ScreensInv, NEW k, NEW m, m.spot.pane \in Someone, NEW seated \in BOOLEAN,
         NEW arrived \in BOOLEAN, ScreenFrame(k, m, seated, arrived)
  PROVE  ScreensInv'
<1>1. PICK u : u = Begun(k)
  OBVIOUS
<1>2. /\ u \in Uis /\ SameWiring(ui, u) /\ Pivot \notin u.sent
      /\ u.origin = ui.origin /\ u.dragging = ui.dragging
  <2>1. {} \in SUBSET Sendings /\ Pivot \notin {}
    OBVIOUS
  <2> HIDE DEF Sendings, Pivot
  <2>2. [ui EXCEPT !.mode = ui.next, !.sent = {}] \in Uis
    BY <2>1 DEF ScreensInv, Uis
  <2>3. PICK w \in Uis : w = [ui EXCEPT !.mode = ui.next, !.sent = {}]
    BY <2>2
  <2>4. PICK sought \in Modes : sought = IF w.mode = "GhostLobby" THEN "NetView" ELSE "GhostLobby"
    BY DEF Modes
  <2>5. u = w \/ u = [w EXCEPT !.next = sought]
    BY <1>1, <2>3, <2>4 DEF Begun
  <2>6. SameWiring(ui, w) /\ w.origin = ui.origin /\ w.dragging = ui.dragging /\ w.sent = {}
    BY <2>3 DEF ScreensInv, Uis, SameWiring
  <2> QED BY <2>1, <2>5, <2>6 DEF Uis, SameWiring
<1>3. u.mode \in Modes /\ (u.mode = "GhostLobby" \/ u.mode = "NetView")
  BY <1>2 DEF Uis, Modes
<1>4. /\ m.kind = "press" => ~left
      /\ m.kind = "release" => left
      /\ using' = seated
      /\ left' = CASE m.kind = "press" -> TRUE [] m.kind = "release" -> FALSE [] OTHER -> left
      /\ press' = Pressed(u.mode, m)
  BY <1>1 DEF ScreenFrame
<1>5. press \in Presses /\ left \in BOOLEAN /\ ui \in Uis
  BY DEF ScreensInv
<1>6. /\ press' \in Presses
      /\ m.kind = "press" => press'.mode = u.mode /\ ~press'.far /\ ~press'.across
      /\ m.kind # "press" /\ left =>
           /\ press'.mode = press.mode
           /\ press'.far <=> press.far \/ m.kind = "far"
           /\ press'.across <=> press.across \/ u.mode # press.mode
      /\ m.kind # "press" /\ ~left => press' = press
  BY <1>3, <1>4, <1>5, PressedIs
<1>7. /\ left' \in BOOLEAN
      /\ m.kind = "press" => left'
      /\ m.kind = "release" => ~left'
      /\ m.kind # "press" /\ m.kind # "release" => left' = left
  BY <1>4, <1>5
<1>8. u.drag # None => u.shown
  BY <1>2 DEF ScreensInv, SameWiring
<1>9. CASE u.mode = "GhostLobby"
  <2>1. PICK session \in Sessions : ui' = InLobby(u, k, m, seated, arrived, session)
    BY <1>1, <1>9 DEF ScreenFrame, SessionsFor
  <2>2. PICK v : v = ui'
    OBVIOUS
  <2>3. /\ v \in Uis /\ SameMap(u, v) /\ Wired(v)
        /\ v.phase \in {"DivingIn", "On"} => seated
    BY <1>2, <1>8, <2>1, <2>2, InLobbyDo
  <2>4. v.mode = "GhostLobby" /\ Pivot \notin v.sent
    BY <1>2, <1>9, <2>3 DEF SameMap
  <2>5. ScreenFollowsSim' /\ WiringIsOnAScreen'
    BY <1>4, <2>2, <2>3 DEF ScreenFollowsSim, WiringIsOnAScreen, Wired
  <2>6. PanOrPivot'
    BY <2>2, <2>4 DEF PanOrPivot, Pivot
  <2>7. left' /\ ~press'.across => press'.mode = "GhostLobby"
    BY <1>6, <1>7, <1>9, <1>5
  <2> QED BY <1>4, <1>6, <1>7, <2>2, <2>3, <2>4, <2>5, <2>6, <2>7 DEF ScreensInv, ScreensAgree, Wired
<1>10. CASE u.mode = "NetView"
  <2>1. PICK v : v = ui' /\ v = NetViewClick(PanNetView(u, m), m)
    BY <1>1, <1>10 DEF ScreenFrame
  <2>2. /\ v \in Uis /\ v.mode = "NetView" /\ SameWiring(u, v)
        /\ m.kind = "press" => v.origin /\ ~v.dragging
        /\ m.kind = "far" /\ left /\ u.origin => v.origin /\ v.dragging
        /\ m.kind # "press" /\ m.kind # "far" => v.dragging = u.dragging
        /\ m.kind # "press" /\ m.kind # "release" => v.origin = u.origin
        /\ Pivot \in v.sent => m.kind = "release" /\ ~u.dragging
    <3>1. u \in Uis /\ Pivot \notin u.sent
      BY <1>2
    <3>2. v = NetViewClick(PanNetView(u, m), m)
      BY <2>1
    <3>3. v \in Uis /\ v.mode = u.mode /\ SameWiring(u, v) /\ Panned(u, m, v)
      BY <3>1, <3>2, InNetViewDo
    <3> QED BY <1>10, <3>3 DEF Panned
  <2>3. left /\ ~press.across /\ press.mode = "NetView" => ui.origin /\ ui.dragging = press.far
    BY DEF ScreensInv, ScreensAgree, PanOrPivot
  <2>4. left /\ m.kind # "press" /\ ~press'.across => ~press.across /\ press.mode = "NetView"
    BY <1>6, <1>10
  <2>5. PICK p \in Presses : p = press'
    BY <1>6
  <2>6. p.far \in BOOLEAN /\ press.far \in BOOLEAN /\ v.dragging \in BOOLEAN
    BY <1>5, <2>2, <2>5 DEF Presses, Uis
  <2>7. left' /\ ~p.across => p.mode = "NetView" /\ v.origin /\ v.dragging = p.far
    <3>1. CASE m.kind = "press"
      BY <1>6, <1>10, <2>2, <2>5, <2>6, <3>1
    <3>2. CASE m.kind = "release"
      BY <1>7, <3>2
    <3>3. CASE m.kind = "far" /\ left
      BY <1>2, <1>6, <2>2, <2>3, <2>4, <2>5, <2>6, <3>3
    <3>4. CASE m.kind # "press" /\ m.kind # "release" /\ m.kind # "far" /\ left
      BY <1>2, <1>6, <2>2, <2>3, <2>4, <2>5, <2>6, <3>4
    <3>5. CASE m.kind # "press" /\ m.kind # "release" /\ ~left
      BY <1>7, <3>5
    <3> QED BY <3>1, <3>2, <3>3, <3>4, <3>5
  <2>8. Pivot \in v.sent /\ ~p.across => ~p.far
    BY <1>2, <1>4, <1>6, <2>2, <2>3, <2>4, <2>5, <2>6
  <2>9. ScreenFollowsSim' /\ WiringIsOnAScreen'
    BY <2>1, <2>2 DEF ScreenFollowsSim, WiringIsOnAScreen
  <2>10. PanOrPivot'
    BY <2>1, <2>5, <2>7, <2>8 DEF PanOrPivot, Pivot
  <2>11. v.drag # None => v.shown
    BY <1>8, <2>2 DEF SameWiring
  <2> QED BY <1>4, <1>6, <1>7, <2>1, <2>2, <2>5, <2>7, <2>9, <2>10, <2>11 DEF ScreensInv, ScreensAgree
<1> QED BY <1>3, <1>9, <1>10

(* Whatever the mouse finds and the simulation does, in any order of frames. *)
THEOREM ScreensInvariant == ScreensSpec => []ScreensInv
<1>1. ScreensInit => ScreensInv
  <2> SUFFICES ASSUME ScreensInit
               PROVE  ScreensInv
    OBVIOUS
  <2>1. PICK f \in BOOLEAN : f = FALSE
    OBVIOUS
  <2>2. {} \in SUBSET Sendings
    OBVIOUS
  <2> HIDE DEF Sendings
  <2>3. ui = [mode |-> "GhostLobby", next |-> "GhostLobby", view |-> "Both", phase |-> "Closed",
              deck |-> f, shown |-> f, drag |-> None, seat |-> "Infiltrator",
              selection |-> None, origin |-> f, dragging |-> f, sent |-> {}]
    BY <2>1 DEF ScreensInit
  <2>4. press = [mode |-> "GhostLobby", port |-> None, far |-> f, across |-> f]
    BY <2>1 DEF ScreensInit, NoPress
  <2>5. ui \in Uis
    BY <2>2, <2>3 DEF Uis, Modes, Someone, Seats
  <2>6. press \in Presses
    BY <2>4 DEF Presses, Modes, Someone
  <2>7. ui.drag = None /\ ~ui.shown /\ ui.mode = "GhostLobby" /\ ui.phase = "Closed" /\ ui.sent = {} /\ ~left
    BY <2>1, <2>3 DEF ScreensInit
  <2>8. ScreensAgree
    BY <2>7 DEF ScreensAgree, ScreenFollowsSim, WiringIsOnAScreen, PanOrPivot
  <2> QED BY <2>5, <2>6, <2>7, <2>8 DEF ScreensInv, ScreensInit
<1>2. ScreensInv /\ [ScreensNext]_screensVars => ScreensInv'
  <2> SUFFICES ASSUME ScreensInv, [ScreensNext]_screensVars
               PROVE  ScreensInv'
    OBVIOUS
  <2>1. ASSUME NEW k \in Keys \cup {None}, NEW seated \in BOOLEAN, NEW arrived \in BOOLEAN,
               ScreenFrame(k, Idle, seated, arrived)
        PROVE  ScreensInv'
    <3>1. Idle.spot.pane \in Someone
      BY DEF Idle, Someone
    <3> QED BY <2>1, <3>1, FrameKeepsScreens
  <2>2. ASSUME NEW m \in Clicks \cup MapClicks, ScreenFrame(None, m, using, FALSE)
        PROVE  ScreensInv'
    <3>1. m.spot.pane \in Someone
      BY SpotsAreOnPanes DEF Clicks, MapClicks, MapSpots, OnPanes, Someone, Seats
    <3>2. using \in BOOLEAN
      BY DEF ScreensInv
    <3> QED BY <2>2, <3>1, <3>2, FrameKeepsScreens
  <2>3. CASE UNCHANGED screensVars
    BY <2>3 DEF screensVars, ScreensInv, ScreensAgree, ScreenFollowsSim, WiringIsOnAScreen, PanOrPivot,
                WiringSeats
  <2> QED BY <2>1, <2>2, <2>3 DEF ScreensNext
<1> QED BY <1>1, <1>2, PTL DEF ScreensSpec

(* The screens agree for any spots of the mouse. *)
THEOREM ScreensInAgreement == ScreensSpec => []ScreensAgree
<1>1. ScreensInv => ScreensAgree
  BY DEF ScreensInv
<1> QED BY <1>1, ScreensInvariant, PTL

-------------------------------------------------------------------------------
(* The window. *)

(* Whatever the size of the window, the pace of the slides and what is asked   *)
(* for when, the divider's axis turns with nothing of the van on screen.      *)
THEOREM AxisUnseen == LayoutSpec => AxisTurnsUnseen
<1> DEFINE Unseen == seats'.shown # seats.shown => asked'.view # "Both" \/ ~HackerPane(seats'.onScreen)
<1>1. ASSUME NEW a, NEW lean, LayoutFrame(a, lean)
      PROVE  Unseen
  <2>1. SUFFICES ASSUME a.view = "Both", seats'.shown # seats.shown
                 PROVE  ~HackerPane(seats'.onScreen)
    BY <1>1 DEF LayoutFrame
  <2> DEFINE arrangement == ArrangementFor(a)
             merged == a.view = "Both" /\ ~a.deck /\ ~a.screen /\ OneFrameHoldsBoth(a, seats.merged)
             changing == a.view = "Both" /\ seats.shown # arrangement
             want(share) == IF merged \/ changing THEN Whole ELSE ShareFor(a.view, share)
  <2>2. PICK share, onScreen :
           /\ seats'.shown = AxisAfter(a, arrangement, seats.shown, onScreen = want(share))
           /\ seats'.onScreen = onScreen
    BY <1>1 DEF LayoutFrame
  <2>3. onScreen = want(share) /\ seats'.shown = arrangement
    BY <2>1, <2>2 DEF AxisAfter
  <2>4. changing
    BY <2>1, <2>3
  <2>5. onScreen = Whole
    BY <2>3, <2>4
  <2> QED BY <2>2, <2>5, LayoutAssumption DEF HackerPane
<1>2. [LayoutNext]_layoutVars => Unseen
  <2>1. CASE UNCHANGED layoutVars
    BY <2>1 DEF layoutVars
  <2> QED BY <1>1, <2>1 DEF LayoutNext, Ask, LeaveAlone
<1> QED BY <1>2, PTL DEF LayoutSpec, AxisTurnsUnseen

-------------------------------------------------------------------------------
(* Of some numbers one is the least. *)
LEMMA LeastNumber ==
  ASSUME NEW D \in SUBSET Nat, D # {}
  PROVE  \E n \in D : \A i \in D : n <= i
<1>1. PICK n \in D : \A i \in D : ~ (<<i, n>> \in OpToRel(<, Nat))
  BY NatLessThanWellFounded, WFMin
<1>2. \A i \in D : ~(i < n)
  BY <1>1 DEF OpToRel
<1> QED BY <1>2

(* A number that is not zero comes after one. *)
LEMMA Before == \A n \in Nat : n # 0 => \E m \in Nat : n = m + 1
<1> SUFFICES ASSUME NEW n \in Nat, n # 0 PROVE \E m \in Nat : n = m + 1
  OBVIOUS
<1>1. n - 1 \in Nat /\ n = (n - 1) + 1
  OBVIOUS
<1> QED BY <1>1
-------------------------------------------------------------------------------
(* Folds.  FoldLeft is a recursive function of the set of indices folded; that *)
(* there is such a function is shown first, an index at a time.              *)

(* The greatest index of a set of indices. *)
LEMMA MaxIs ==
  ASSUME NEW s, NEW m \in s, m \in Int, s \subseteq Int, \A i \in s : i <= m
  PROVE  Max(s) = m
<1>1. \A y \in s : m >= y
  OBVIOUS
<1>2. \A x \in s : (\A y \in s : x >= y) => x = m
  OBVIOUS
<1> QED BY <1>1, <1>2 DEF Max

(* A set of indices has its greatest. *)
LEMMA MaxIsIn ==
  ASSUME NEW n \in Nat, NEW s \in SUBSET (1..n), s # {}
  PROVE  Max(s) \in s
<1> DEFINE B == {b \in Nat : \A i \in s : i <= b}
<1>1. n \in B
  OBVIOUS
<1>2. PICK b \in B : \A i \in B : b <= i
  <2> HIDE DEF B
  <2>1. B \in SUBSET Nat
    BY DEF B
  <2> QED BY <1>1, <2>1, LeastNumber
<1>3. b \in s
  <2> SUFFICES ASSUME b \notin s PROVE FALSE
    OBVIOUS
  <2>1. PICK i \in s : TRUE
    OBVIOUS
  <2>2. b # 0
    BY <2>1
  <2>3. b - 1 \in Nat /\ \A j \in s : j <= b - 1
    BY <2>2
  <2>4. b - 1 \in B
    BY <2>3
  <2> QED BY <1>2, <2>4
<1>4. Max(s) = b
  <2>1. b \in Int /\ s \subseteq Int /\ \A i \in s : i <= b
    OBVIOUS
  <2> QED BY <1>3, <2>1, MaxIs
<1> QED BY <1>3, <1>4

(* g folds each set of indices below n, the greatest index last. *)
Folding(g, n, base, step) ==
  g = [s \in SUBSET (1..n) |-> IF s = {} THEN base ELSE step[<<g[s \ {Max(s)}], Max(s)>>]]

(* With such a function for the indices to n there is one to n + 1. *)
LEMMA FoldGrows ==
  ASSUME NEW n \in Nat, NEW A, NEW base \in A, NEW top \in Nat, n < top,
         NEW step \in [A \X (1..top) -> A],
         NEW g \in [SUBSET (1..n) -> A], Folding(g, n, base, step)
  PROVE  \E f \in [SUBSET (1..(n + 1)) -> A] : Folding(f, n + 1, base, step)
<1> DEFINE f == [s \in SUBSET (1..(n + 1)) |-> IF n + 1 \in s THEN step[<<g[s \ {n + 1}], n + 1>>] ELSE g[s]]
<1>1. \A s \in SUBSET (1..(n + 1)) : n + 1 \notin s => s \in SUBSET (1..n)
  OBVIOUS
<1>2. \A s \in SUBSET (1..(n + 1)) : s \ {n + 1} \in SUBSET (1..n)
  OBVIOUS
<1>3. f \in [SUBSET (1..(n + 1)) -> A]
  <2> SUFFICES ASSUME NEW s \in SUBSET (1..(n + 1)) PROVE f[s] \in A
    OBVIOUS
  <2>1. CASE n + 1 \in s
    <3>1. g[s \ {n + 1}] \in A
      BY <1>2
    <3>2. n + 1 \in 1..top
      OBVIOUS
    <3> QED BY <2>1, <3>1, <3>2
  <2>2. CASE n + 1 \notin s
    BY <1>1, <2>2
  <2> QED BY <2>1, <2>2
<1>4. ASSUME NEW s \in SUBSET (1..(n + 1))
      PROVE  f[s] = IF s = {} THEN base ELSE step[<<f[s \ {Max(s)}], Max(s)>>]
  <2>1. CASE n + 1 \in s
    <3>1. Max(s) = n + 1
      <4>1. s \subseteq Int /\ n + 1 \in Int /\ \A i \in s : i <= n + 1
        OBVIOUS
      <4> QED BY <2>1, <4>1, MaxIs
    <3>2. f[s \ {n + 1}] = g[s \ {n + 1}]
      BY <1>2
    <3>3. f[s] = step[<<g[s \ {n + 1}], n + 1>>]
      BY <2>1
    <3> QED BY <2>1, <3>1, <3>2, <3>3
  <2>2. CASE n + 1 \notin s
    <3>1. s \in SUBSET (1..n) /\ f[s] = g[s]
      BY <1>1, <2>2
    <3>2. g[s] = IF s = {} THEN base ELSE step[<<g[s \ {Max(s)}], Max(s)>>]
      BY <3>1 DEF Folding
    <3>3. f[s \ {Max(s)}] = g[s \ {Max(s)}]
      BY <2>2, <3>1
    <3> HIDE DEF f
    <3> QED BY <3>1, <3>2, <3>3
  <2> QED BY <2>1, <2>2
<1>5. Folding(f, n + 1, base, step)
  <2>1. f = [s \in SUBSET (1..(n + 1)) |-> f[s]]
    OBVIOUS
  <2> HIDE DEF f
  <2> QED BY <1>4, <2>1 DEF Folding
<1> QED BY <1>3, <1>5

(* So there is one for each n. *)
LEMMA FoldExists ==
  ASSUME NEW n \in Nat, NEW A, NEW base \in A, NEW step \in [A \X (1..n) -> A]
  PROVE  \E g \in [SUBSET (1..n) -> A] : Folding(g, n, base, step)
<1> DEFINE Done(m) == \E g \in [SUBSET (1..m) -> A] : Folding(g, m, base, step)
           D == {m \in Nat : m <= n /\ ~Done(m)}
<1>1. Done(0)
  <2> DEFINE g == [s \in SUBSET (1..0) |-> base]
  <2>1. 1..0 = {} /\ SUBSET {} = {{}}
    OBVIOUS
  <2>2. g \in [SUBSET (1..0) -> A]
    OBVIOUS
  <2>3. Folding(g, 0, base, step)
    BY <2>1 DEF Folding
  <2> QED BY <2>2, <2>3
<1>2. ASSUME NEW m \in Nat, m < n, Done(m) PROVE Done(m + 1)
  <2>1. PICK g \in [SUBSET (1..m) -> A] : Folding(g, m, base, step)
    BY <1>2
  <2> QED BY <1>2, <2>1, FoldGrows
<1> HIDE DEF Done
<1>3. D = {}
  <2> SUFFICES ASSUME D # {} PROVE FALSE
    OBVIOUS
  <2>1. PICK m \in D : \A i \in D : m <= i
    BY LeastNumber
  <2>2. m \in Nat /\ m # 0 /\ m <= n /\ ~Done(m)
    BY <1>1
  <2>3. PICK k \in Nat : m = k + 1
    BY <2>2, Before
  <2>4. k \notin D /\ k < n
    BY <2>1, <2>2, <2>3
  <2>5. Done(k)
    BY <2>4
  <2> QED BY <1>2, <2>2, <2>3, <2>4, <2>5
<1>4. Done(n)
  BY <1>3
<1> QED BY <1>4 DEF Done

(* The values a fold goes through. *)
Through(h, n, A, base, step) ==
  /\ h \in [0..n -> A] /\ h[0] = base
  /\ \A k \in 0..(n - 1) : h[k + 1] = step[<<h[k], k + 1>>]

(* The values a fold goes through, an index at a time. *)
LEMMA FoldThrough ==
  ASSUME NEW n \in Nat, NEW A, NEW base \in A, NEW step \in [A \X (1..n) -> A]
  PROVE  \E h, g : /\ Through(h, n, A, base, step)
                   /\ g \in [SUBSET (1..n) -> A] /\ Folding(g, n, base, step)
                   /\ \A k \in 0..n : g[1..k] = h[k]
<1>1. PICK g \in [SUBSET (1..n) -> A] : Folding(g, n, base, step)
  BY FoldExists
<1> DEFINE h == [k \in 0..n |-> g[1..k]]
<1>2. \A k \in 0..n : (1..k) \in SUBSET (1..n)
  OBVIOUS
<1>3. h \in [0..n -> A]
  BY <1>2
<1>4. h[0] = base
  <2>1. 1..0 = {} /\ g[{}] = base
    BY <1>1 DEF Folding
  <2> QED BY <2>1
<1>5. ASSUME NEW k \in 0..(n - 1) PROVE h[k + 1] = step[<<h[k], k + 1>>]
  <2>1. Max(1..(k + 1)) = k + 1
    <3> DEFINE s == 1..(k + 1)
    <3>1. k + 1 \in s /\ k + 1 \in Int /\ s \subseteq Int /\ \A i \in s : i <= k + 1
      OBVIOUS
    <3> HIDE DEF s
    <3>2. Max(s) = k + 1
      BY <3>1, MaxIs
    <3> QED BY <3>2 DEF s
  <2>2. (1..(k + 1)) \ {k + 1} = 1..k /\ 1..(k + 1) # {}
    OBVIOUS
  <2>3. k \in 0..n /\ k + 1 \in 0..n
    OBVIOUS
  <2>4. g[1..(k + 1)] = step[<<g[1..k], k + 1>>]
    BY <1>1, <1>2, <2>1, <2>2, <2>3 DEF Folding
  <2> QED BY <2>3, <2>4
<1>6. Through(h, n, A, base, step)
  BY <1>3, <1>4, <1>5 DEF Through
<1> HIDE DEF Through
<1> QED BY <1>1, <1>6
(* The greatest of the first k + 1 indices is the last. *)
LEMMA MaxUpto == \A k \in Nat : Max(1..(k + 1)) = k + 1 /\ (1..(k + 1)) \ {k + 1} = 1..k /\ 1..(k + 1) # {}
<1> SUFFICES ASSUME NEW k \in Nat
             PROVE  Max(1..(k + 1)) = k + 1 /\ (1..(k + 1)) \ {k + 1} = 1..k /\ 1..(k + 1) # {}
  OBVIOUS
<1> DEFINE s == 1..(k + 1)
<1>1. k + 1 \in s /\ k + 1 \in Int /\ s \subseteq Int /\ \A i \in s : i <= k + 1
  OBVIOUS
<1>2. s \ {k + 1} = 1..k /\ s # {}
  OBVIOUS
<1> HIDE DEF s
<1>3. Max(s) = k + 1
  BY <1>1, MaxIs
<1> QED BY <1>2, <1>3 DEF s

(* A function that goes on so at each index from a value of A goes through    *)
(* the same values.                                                         *)
GoesOn(f, n, A, base, step) ==
  /\ f[{}] = base
  /\ \A k \in 0..(n - 1) : f[1..k] \in A => f[1..(k + 1)] = step[<<f[1..k], k + 1>>]

(* And they are those of any function that goes on so. *)
LEMMA FoldUnique ==
  ASSUME NEW n \in Nat, NEW A, NEW base, NEW step,
         NEW h, Through(h, n, A, base, step), NEW f, GoesOn(f, n, A, base, step)
  PROVE  f[1..n] = h[n]
<1> DEFINE D == {k \in 0..n : f[1..k] # h[k]}
<1>1. 0 \notin D
  <2>1. f[{}] = base /\ h[0] = base
    BY DEF Through, GoesOn
  <2>2. 1..0 = {}
    OBVIOUS
  <2>3. f[1..0] = h[0]
    BY <2>1, <2>2
  <2> QED BY <2>3
<1>2. D = {}
  <2> SUFFICES ASSUME D # {} PROVE FALSE
    OBVIOUS
  <2>1. PICK m \in D : \A i \in D : m <= i
    <3>1. D \in SUBSET Nat
      OBVIOUS
    <3> HIDE DEF D
    <3> QED BY <3>1, LeastNumber
  <2>2. m \in 0..n /\ m # 0 /\ f[1..m] # h[m]
    BY <1>1
  <2>3. PICK k \in Nat : m = k + 1
    BY <2>2, Before
  <2>4. k \in 0..(n - 1) /\ k \in 0..n /\ k \notin D
    BY <2>1, <2>2, <2>3
  <2>5. f[1..k] = h[k] /\ h[k] \in A
    BY <2>4 DEF Through
  <2>6. f[1..m] = step[<<h[k], k + 1>>]
    BY <2>3, <2>4, <2>5 DEF GoesOn
  <2>7. h[m] = step[<<h[k], k + 1>>]
    BY <2>3, <2>4 DEF Through
  <2> QED BY <2>2, <2>6, <2>7
<1>3. n \in 0..n
  OBVIOUS
<1> QED BY <1>2, <1>3
-------------------------------------------------------------------------------
(* The shell of a tick keeps to its types. *)

Inputs == [button : BOOLEAN, edges : Seq(Commands), immediates : Seq(Commands)]
RunStates ==
  [tick : Nat, x : Nat, jumps : Nat, work : Nat, paused : BOOLEAN, ended : BOOLEAN]
SessionStates == [run : RunStates, events : Seq(TickEvents), over : BOOLEAN]

(* One command folded into an input. *)
LEMMA FoldOneType ==
  ASSUME NEW given \in Inputs, NEW c \in Commands
  PROVE  FoldOne(given, c) \in Inputs
<1>1. Append(given.edges, c) \in Seq(Commands) /\ Append(given.immediates, c) \in Seq(Commands)
  BY DEF Inputs
<1>2. [given EXCEPT !.button = c = "Down"] \in Inputs
  BY DEF Inputs
<1>3. [given EXCEPT !.edges = Append(@, c)] \in Inputs
  BY <1>1 DEF Inputs
<1>4. [given EXCEPT !.immediates = Append(@, c)] \in Inputs
  BY <1>1 DEF Inputs
<1> QED BY <1>2, <1>3, <1>4 DEF FoldOne

(* A stream is folded a command at a time. *)
LEMMA CommandsThrough ==
  ASSUME NEW cmds \in Seq(Commands), NEW down \in BOOLEAN
  PROVE  \E h \in [0..Len(cmds) -> Inputs] :
           /\ h[0] = [button |-> down, edges |-> <<>>, immediates |-> <<>>]
           /\ \A k \in 0..(Len(cmds) - 1) : h[k + 1] = FoldOne(h[k], cmds[k + 1])
           /\ FoldCommands(cmds, down) = h[Len(cmds)]
<1> DEFINE n == Len(cmds)
           base == [button |-> down, edges |-> <<>>, immediates |-> <<>>]
           step == [e \in Inputs \X (1..n) |-> FoldOne(e[1], cmds[e[2]])]
           Recurs(f) == f = [s \in SUBSET (1..n) |->
                               IF s = {} THEN base ELSE FoldOne(f[s \ {Max(s)}], cmds[Max(s)])]
<1>1. n \in Nat /\ DOMAIN cmds = 1..n
  OBVIOUS
<1>2. base \in Inputs
  BY DEF Inputs
<1>3. \A a \in Inputs, k \in 1..n : FoldOne(a, cmds[k]) \in Inputs
  BY <1>1, FoldOneType
<1>4. /\ step \in [Inputs \X (1..n) -> Inputs]
      /\ \A a \in Inputs, k \in 1..n : step[<<a, k>>] = FoldOne(a, cmds[k])
  BY <1>3
<1>5. FoldCommands(cmds, down) = (CHOOSE f : Recurs(f))[1..n]
  BY <1>1 DEF FoldCommands, FoldLeft, MapThenFoldSet
<1>6. PICK h, g : /\ Through(h, n, Inputs, base, step)
                  /\ g \in [SUBSET (1..n) -> Inputs] /\ Folding(g, n, base, step)
  BY <1>1, <1>2, <1>4, FoldThrough
<1>7. Recurs(g)
  <2>1. ASSUME NEW s \in SUBSET (1..n), s # {}
        PROVE  step[<<g[s \ {Max(s)}], Max(s)>>] = FoldOne(g[s \ {Max(s)}], cmds[Max(s)])
    <3>1. Max(s) \in 1..n /\ g[s \ {Max(s)}] \in Inputs
      BY <1>1, <1>6, <2>1, MaxIsIn
    <3> QED BY <1>4, <3>1
  <2> HIDE DEF step
  <2> QED BY <1>6, <2>1 DEF Folding
<1>8. PICK f : Recurs(f) /\ FoldCommands(cmds, down) = f[1..n]
  BY <1>5, <1>7
<1>9. GoesOn(f, n, Inputs, base, step)
  <2>1. f[{}] = base
    BY <1>8
  <2>2. ASSUME NEW k \in 0..(n - 1), f[1..k] \in Inputs PROVE f[1..(k + 1)] = step[<<f[1..k], k + 1>>]
    <3> DEFINE t == 1..(k + 1)
    <3>1. k \in Nat /\ k + 1 \in 1..n /\ t \in SUBSET (1..n)
      BY <1>1
    <3>2. t # {} /\ Max(t) = k + 1 /\ t \ {k + 1} = 1..k
      BY <3>1, MaxUpto
    <3> HIDE DEF t
    <3>3. f[t] = FoldOne(f[t \ {Max(t)}], cmds[Max(t)])
      BY <1>8, <3>1, <3>2
    <3>4. f[t] = FoldOne(f[1..k], cmds[k + 1])
      BY <3>2, <3>3
    <3> HIDE DEF step
    <3> QED BY <1>4, <2>2, <3>1, <3>4 DEF t
  <2> HIDE DEF step
  <2> QED BY <2>1, <2>2 DEF GoesOn
<1>10. FoldCommands(cmds, down) = h[n]
  <2> HIDE DEF step, base, n, Recurs
  <2>1. f[1..n] = h[n]
    BY <1>1, <1>6, <1>9, FoldUnique
  <2> QED BY <1>8, <2>1
<1>11. \A k \in 0..(n - 1) : h[k + 1] = FoldOne(h[k], cmds[k + 1])
  <2> SUFFICES ASSUME NEW k \in 0..(n - 1) PROVE h[k + 1] = FoldOne(h[k], cmds[k + 1])
    OBVIOUS
  <2> HIDE DEF step, base
  <2>1. k \in 0..n /\ k + 1 \in 1..n
    BY <1>1
  <2>2. h[k] \in Inputs
    BY <1>6, <2>1 DEF Through
  <2> QED BY <1>4, <1>6, <2>1, <2>2 DEF Through
<1> QED BY <1>6, <1>10, <1>11 DEF Through

(* One command of the pass over pauses and restarts. *)
LEMMA SessionOneType ==
  ASSUME NEW acc \in SessionStates, NEW c
  PROVE  SessionOne(acc, c) \in SessionStates
<1>1. /\ acc.events \in Seq(TickEvents) /\ Append(acc.events, "Paused") \in Seq(TickEvents)
      /\ Append(acc.events, "Resumed") \in Seq(TickEvents)
      /\ acc.events \o <<"Restarted">> \o Start \in Seq(TickEvents)
  <2>1. acc.events \in Seq(TickEvents)
    BY DEF SessionStates
  <2>2. "Paused" \in TickEvents /\ "Resumed" \in TickEvents
    BY DEF TickEvents
  <2>3. <<"Restarted">> \in Seq(TickEvents) /\ Start \in Seq(TickEvents)
    BY DEF TickEvents, Start
  <2> QED BY <2>1, <2>2, <2>3
<1>2. FreshRun \in RunStates
  BY DEF FreshRun, RunStates
<1>3. [acc EXCEPT !.run.paused = TRUE, !.events = Append(@, "Paused")] \in SessionStates
  BY <1>1 DEF SessionStates, RunStates
<1>4. [acc EXCEPT !.run.paused = FALSE, !.events = Append(@, "Resumed")] \in SessionStates
  BY <1>1 DEF SessionStates, RunStates
<1>5. [run |-> FreshRun, events |-> acc.events \o <<"Restarted">> \o Start, over |-> TRUE] \in SessionStates
  BY <1>1, <1>2 DEF SessionStates
<1> QED BY <1>3, <1>4, <1>5 DEF SessionOne

(* The first pass, a command at a time. *)
LEMMA SessionThrough ==
  ASSUME NEW first \in Sims, NEW immediates \in Seq(Commands)
  PROVE  \E h \in [0..Len(immediates) -> SessionStates] :
           /\ h[0] = [run |-> first.run, events |-> first.events, over |-> FALSE]
           /\ \A k \in 0..(Len(immediates) - 1) : h[k + 1] = SessionOne(h[k], immediates[k + 1])
           /\ SessionPass(first, immediates) = h[Len(immediates)]
<1> DEFINE n == Len(immediates)
           base == [run |-> first.run, events |-> first.events, over |-> FALSE]
           step == [e \in SessionStates \X (1..n) |-> SessionOne(e[1], immediates[e[2]])]
           Recurs(f) == f = [s \in SUBSET (1..n) |->
                               IF s = {} THEN base ELSE SessionOne(f[s \ {Max(s)}], immediates[Max(s)])]
<1>1. n \in Nat /\ DOMAIN immediates = 1..n
  OBVIOUS
<1>2. base \in SessionStates
  BY DEF Sims, RunStates, SessionStates
<1>3. \A a \in SessionStates, k \in 1..n : SessionOne(a, immediates[k]) \in SessionStates
  BY SessionOneType
<1>4. /\ step \in [SessionStates \X (1..n) -> SessionStates]
      /\ \A a \in SessionStates, k \in 1..n : step[<<a, k>>] = SessionOne(a, immediates[k])
  BY <1>3
<1>5. SessionPass(first, immediates) = (CHOOSE f : Recurs(f))[1..n]
  BY <1>1 DEF SessionPass, FoldLeft, MapThenFoldSet
<1>6. PICK h, g : /\ Through(h, n, SessionStates, base, step)
                  /\ g \in [SUBSET (1..n) -> SessionStates] /\ Folding(g, n, base, step)
  BY <1>1, <1>2, <1>4, FoldThrough
<1>7. Recurs(g)
  <2>1. ASSUME NEW s \in SUBSET (1..n), s # {}
        PROVE  step[<<g[s \ {Max(s)}], Max(s)>>] = SessionOne(g[s \ {Max(s)}], immediates[Max(s)])
    <3>1. Max(s) \in 1..n /\ g[s \ {Max(s)}] \in SessionStates
      BY <1>1, <1>6, <2>1, MaxIsIn
    <3> QED BY <1>4, <3>1
  <2> HIDE DEF step
  <2> QED BY <1>6, <2>1 DEF Folding
<1>8. PICK f : Recurs(f) /\ SessionPass(first, immediates) = f[1..n]
  BY <1>5, <1>7
<1>9. GoesOn(f, n, SessionStates, base, step)
  <2>1. f[{}] = base
    BY <1>8
  <2>2. ASSUME NEW k \in 0..(n - 1), f[1..k] \in SessionStates PROVE f[1..(k + 1)] = step[<<f[1..k], k + 1>>]
    <3> DEFINE t == 1..(k + 1)
    <3>1. k \in Nat /\ k + 1 \in 1..n /\ t \in SUBSET (1..n)
      BY <1>1
    <3>2. t # {} /\ Max(t) = k + 1 /\ t \ {k + 1} = 1..k
      BY <3>1, MaxUpto
    <3> HIDE DEF t
    <3>3. f[t] = SessionOne(f[t \ {Max(t)}], immediates[Max(t)])
      BY <1>8, <3>1, <3>2
    <3>4. f[t] = SessionOne(f[1..k], immediates[k + 1])
      BY <3>2, <3>3
    <3> HIDE DEF step
    <3> QED BY <1>4, <2>2, <3>1, <3>4 DEF t
  <2> HIDE DEF step
  <2> QED BY <2>1, <2>2 DEF GoesOn
<1>10. SessionPass(first, immediates) = h[n]
  <2> HIDE DEF step, base, n, Recurs
  <2>1. f[1..n] = h[n]
    BY <1>1, <1>6, <1>9, FoldUnique
  <2> QED BY <1>8, <2>1
<1>11. \A k \in 0..(n - 1) : h[k + 1] = SessionOne(h[k], immediates[k + 1])
  <2> SUFFICES ASSUME NEW k \in 0..(n - 1) PROVE h[k + 1] = SessionOne(h[k], immediates[k + 1])
    OBVIOUS
  <2> HIDE DEF step, base
  <2>1. k \in 0..n /\ k + 1 \in 1..n
    BY <1>1
  <2>2. h[k] \in SessionStates
    BY <1>6, <2>1 DEF Through
  <2> QED BY <1>4, <1>6, <2>1, <2>2 DEF Through
<1> QED BY <1>6, <1>10, <1>11 DEF Through

(* One command of the work on the uplink. *)
LEMMA WorkOneType ==
  ASSUME NEW s \in Sims, NEW c
  PROVE  WorkOne(s, c) \in Sims
<1>1. Append(s.events, "UplinkFired") \in Seq(TickEvents) /\ Append(s.events, "RunEnded") \in Seq(TickEvents)
  <2>1. s.events \in Seq(TickEvents) /\ "UplinkFired" \in TickEvents /\ "RunEnded" \in TickEvents
    BY DEF Sims, RunStates, TickEvents
  <2> QED BY <2>1
<1>2. [s EXCEPT !.run.work = @ + 1, !.events = Append(@, "UplinkFired")] \in Sims
  <2>1. s.run.work + 1 \in Nat
    BY DEF Sims, RunStates
  <2> QED BY <1>1, <2>1 DEF Sims, RunStates
<1>3. [s EXCEPT !.run.ended = TRUE, !.events = Append(@, "RunEnded")] \in Sims
  BY <1>1 DEF Sims, RunStates
<1> QED BY <1>2, <1>3 DEF WorkOne

(* The second pass, a command at a time. *)
LEMMA WorkThrough ==
  ASSUME NEW first \in Sims, NEW immediates \in Seq(Commands)
  PROVE  \E h \in [0..Len(immediates) -> Sims] :
           /\ h[0] = first
           /\ \A k \in 0..(Len(immediates) - 1) : h[k + 1] = WorkOne(h[k], immediates[k + 1])
           /\ WorkPass(first, immediates) = h[Len(immediates)]
<1> DEFINE n == Len(immediates)
           base == first
           step == [e \in Sims \X (1..n) |-> WorkOne(e[1], immediates[e[2]])]
           Recurs(f) == f = [s \in SUBSET (1..n) |->
                               IF s = {} THEN base ELSE WorkOne(f[s \ {Max(s)}], immediates[Max(s)])]
<1>1. n \in Nat /\ DOMAIN immediates = 1..n
  OBVIOUS
<1>2. base \in Sims
  OBVIOUS
<1>3. \A a \in Sims, k \in 1..n : WorkOne(a, immediates[k]) \in Sims
  BY WorkOneType
<1>4. /\ step \in [Sims \X (1..n) -> Sims]
      /\ \A a \in Sims, k \in 1..n : step[<<a, k>>] = WorkOne(a, immediates[k])
  BY <1>3
<1>5. WorkPass(first, immediates) = (CHOOSE f : Recurs(f))[1..n]
  BY <1>1 DEF WorkPass, FoldLeft, MapThenFoldSet
<1>6. PICK h, g : /\ Through(h, n, Sims, base, step)
                  /\ g \in [SUBSET (1..n) -> Sims] /\ Folding(g, n, base, step)
  BY <1>1, <1>2, <1>4, FoldThrough
<1>7. Recurs(g)
  <2>1. ASSUME NEW s \in SUBSET (1..n), s # {}
        PROVE  step[<<g[s \ {Max(s)}], Max(s)>>] = WorkOne(g[s \ {Max(s)}], immediates[Max(s)])
    <3>1. Max(s) \in 1..n /\ g[s \ {Max(s)}] \in Sims
      BY <1>1, <1>6, <2>1, MaxIsIn
    <3> QED BY <1>4, <3>1
  <2> HIDE DEF step
  <2> QED BY <1>6, <2>1 DEF Folding
<1>8. PICK f : Recurs(f) /\ WorkPass(first, immediates) = f[1..n]
  BY <1>5, <1>7
<1>9. GoesOn(f, n, Sims, base, step)
  <2>1. f[{}] = base
    BY <1>8
  <2>2. ASSUME NEW k \in 0..(n - 1), f[1..k] \in Sims PROVE f[1..(k + 1)] = step[<<f[1..k], k + 1>>]
    <3> DEFINE t == 1..(k + 1)
    <3>1. k \in Nat /\ k + 1 \in 1..n /\ t \in SUBSET (1..n)
      BY <1>1
    <3>2. t # {} /\ Max(t) = k + 1 /\ t \ {k + 1} = 1..k
      BY <3>1, MaxUpto
    <3> HIDE DEF t
    <3>3. f[t] = WorkOne(f[t \ {Max(t)}], immediates[Max(t)])
      BY <1>8, <3>1, <3>2
    <3>4. f[t] = WorkOne(f[1..k], immediates[k + 1])
      BY <3>2, <3>3
    <3> HIDE DEF step
    <3> QED BY <1>4, <2>2, <3>1, <3>4 DEF t
  <2> HIDE DEF step
  <2> QED BY <2>1, <2>2 DEF GoesOn
<1>10. WorkPass(first, immediates) = h[n]
  <2> HIDE DEF step, base, n, Recurs
  <2>1. f[1..n] = h[n]
    BY <1>1, <1>6, <1>9, FoldUnique
  <2> QED BY <1>8, <2>1
<1>11. \A k \in 0..(n - 1) : h[k + 1] = WorkOne(h[k], immediates[k + 1])
  <2> SUFFICES ASSUME NEW k \in 0..(n - 1) PROVE h[k + 1] = WorkOne(h[k], immediates[k + 1])
    OBVIOUS
  <2> HIDE DEF step, base
  <2>1. k \in 0..n /\ k + 1 \in 1..n
    BY <1>1
  <2>2. h[k] \in Sims
    BY <1>6, <2>1 DEF Through
  <2> QED BY <1>4, <1>6, <2>1, <2>2 DEF Through
<1> QED BY <1>6, <1>10, <1>11 DEF Through

(* A tick of a simulation leaves a simulation. *)
LEMMA TickedType ==
  ASSUME NEW s \in Sims, NEW given \in Inputs
  PROVE  Ticked(s, given) \in Sims
<1> DEFINE session == SessionPass(s, given.immediates)
           here == [run |-> session.run, events |-> session.events]
           worked == WorkPass(here, given.immediates)
<1>1. given.immediates \in Seq(Commands) /\ given.edges \in Seq(Commands) /\ Len(given.edges) \in Nat
  BY DEF Inputs
<1>2. session \in SessionStates
  <2>1. PICK h \in [0..Len(given.immediates) -> SessionStates] : session = h[Len(given.immediates)]
    BY <1>1, SessionThrough
  <2>2. Len(given.immediates) \in 0..Len(given.immediates)
    BY <1>1
  <2> QED BY <2>1, <2>2
<1>3. here \in Sims
  BY <1>2 DEF SessionStates, Sims, RunStates
<1>4. worked \in Sims
  <2> HIDE DEF here
  <2>1. PICK h \in [0..Len(given.immediates) -> Sims] : worked = h[Len(given.immediates)]
    BY <1>1, <1>3, WorkThrough
  <2>2. Len(given.immediates) \in 0..Len(given.immediates)
    BY <1>1
  <2> QED BY <2>1, <2>2
<1>5. \A t \in Sims : Updated(t, given) \in Sims
  <2> SUFFICES ASSUME NEW t \in Sims PROVE Updated(t, given) \in Sims
    OBVIOUS
  <2>1. Append(t.events, "Jumped") \in Seq(TickEvents)
    <3>1. t.events \in Seq(TickEvents) /\ "Jumped" \in TickEvents
      BY DEF Sims, RunStates, TickEvents
    <3> QED BY <3>1
  <2>2. /\ t.run.tick + 1 \in Nat /\ (IF given.button THEN t.run.x + 1 ELSE t.run.x) \in Nat
        /\ t.run.jumps + Len(given.edges) \in Nat
    <3>1. t.run.tick \in Nat /\ t.run.x \in Nat /\ t.run.jumps \in Nat
      BY DEF Sims, RunStates
    <3> QED BY <1>1, <3>1
  <2> QED BY <2>1, <2>2 DEF Updated, Sims, RunStates
<1> HIDE DEF session
<1>6. Ticked(s, given) \in {here, Updated(worked, given)}
  BY DEF Ticked, session
<1> QED BY <1>3, <1>4, <1>5, <1>6

(* A folded stream is an input. *)
LEMMA FoldedType ==
  ASSUME NEW cmds \in Seq(Commands), NEW down \in BOOLEAN
  PROVE  FoldCommands(cmds, down) \in Inputs /\ HeldAfter(cmds, down) \in BOOLEAN
<1>1. PICK h \in [0..Len(cmds) -> Inputs] : FoldCommands(cmds, down) = h[Len(cmds)]
  BY CommandsThrough
<1>2. Len(cmds) \in 0..Len(cmds)
  OBVIOUS
<1>3. FoldCommands(cmds, down) \in Inputs
  BY <1>1, <1>2
<1> QED BY <1>3 DEF HeldAfter, Inputs

-------------------------------------------------------------------------------
(* The foreign handle. *)

Handles == [sim : Sims, held : BOOLEAN]

(* Draining takes the events and leaves the run. *)
LEMMA DrainedIs ==
  ASSUME NEW s \in Sims
  PROVE  Drained(s) = [run |-> s.run, events |-> <<>>] /\ Drained(s) \in Sims
<1>1. <<>> \in Seq(TickEvents)
  OBVIOUS
<1>2. Drained(s) = [run |-> s.run, events |-> <<>>]
  BY DEF Drained, Sims
<1> QED BY <1>1, <1>2 DEF Sims

(* A call leaves a handle on a simulation. *)
LEMMA TickedByType ==
  ASSUME NEW a \in Handles, NEW cmds \in Seq(Commands)
  PROVE  TickedBy(a, cmds) \in Handles
<1>1. a.sim \in Sims /\ a.held \in BOOLEAN
  BY DEF Handles
<1>2. FoldCommands(cmds, a.held) \in Inputs /\ HeldAfter(cmds, a.held) \in BOOLEAN
  BY <1>1, FoldedType
<1>3. Ticked(a.sim, FoldCommands(cmds, a.held)) \in Sims
  BY <1>1, <1>2, TickedType
<1>4. \A s \in Sims : Drained(s) \in Sims
  BY DrainedIs
<1> QED BY <1>2, <1>3, <1>4 DEF TickedBy, Handles

PlayedBy(calls) == FoldLeft(TickedBy, NewRun, calls)

(* A run is made of calls one after another. *)
LEMMA CallsThrough ==
  ASSUME NEW calls \in Seq(Streams)
  PROVE  \E h \in [0..Len(calls) -> Handles] :
           /\ h[0] = NewRun
           /\ \A k \in 0..(Len(calls) - 1) : h[k + 1] = TickedBy(h[k], calls[k + 1])
           /\ PlayedBy(calls) = h[Len(calls)]
<1> DEFINE n == Len(calls)
           base == NewRun
           step == [e \in Handles \X (1..n) |-> TickedBy(e[1], calls[e[2]])]
           Recurs(f) == f = [s \in SUBSET (1..n) |->
                               IF s = {} THEN base ELSE TickedBy(f[s \ {Max(s)}], calls[Max(s)])]
<1>1. n \in Nat /\ DOMAIN calls = 1..n
  OBVIOUS
<1>2. base \in Handles
  BY DEF Handles, NewRun, Sims, FreshSim, FreshRun, RunStates, Start, TickEvents
<1>3. \A a \in Handles, k \in 1..n : TickedBy(a, calls[k]) \in Handles
  BY <1>1, HandleAssumption, TickedByType
<1>4. /\ step \in [Handles \X (1..n) -> Handles]
      /\ \A a \in Handles, k \in 1..n : step[<<a, k>>] = TickedBy(a, calls[k])
  BY <1>3
<1>5. PlayedBy(calls) = (CHOOSE f : Recurs(f))[1..n]
  BY <1>1 DEF PlayedBy, FoldLeft, MapThenFoldSet
<1>6. PICK h, g : /\ Through(h, n, Handles, base, step)
                  /\ g \in [SUBSET (1..n) -> Handles] /\ Folding(g, n, base, step)
  BY <1>1, <1>2, <1>4, FoldThrough
<1>7. Recurs(g)
  <2>1. ASSUME NEW s \in SUBSET (1..n), s # {}
        PROVE  step[<<g[s \ {Max(s)}], Max(s)>>] = TickedBy(g[s \ {Max(s)}], calls[Max(s)])
    <3>1. Max(s) \in 1..n /\ g[s \ {Max(s)}] \in Handles
      BY <1>1, <1>6, <2>1, MaxIsIn
    <3> QED BY <1>4, <3>1
  <2> HIDE DEF step
  <2> QED BY <1>6, <2>1 DEF Folding
<1>8. PICK f : Recurs(f) /\ PlayedBy(calls) = f[1..n]
  BY <1>5, <1>7
<1>9. GoesOn(f, n, Handles, base, step)
  <2>1. f[{}] = base
    BY <1>8
  <2>2. ASSUME NEW k \in 0..(n - 1), f[1..k] \in Handles PROVE f[1..(k + 1)] = step[<<f[1..k], k + 1>>]
    <3> DEFINE t == 1..(k + 1)
    <3>1. k \in Nat /\ k + 1 \in 1..n /\ t \in SUBSET (1..n)
      BY <1>1
    <3>2. t # {} /\ Max(t) = k + 1 /\ t \ {k + 1} = 1..k
      BY <3>1, MaxUpto
    <3> HIDE DEF t
    <3>3. f[t] = TickedBy(f[t \ {Max(t)}], calls[Max(t)])
      BY <1>8, <3>1, <3>2
    <3>4. f[t] = TickedBy(f[1..k], calls[k + 1])
      BY <3>2, <3>3
    <3> HIDE DEF step
    <3> QED BY <1>4, <2>2, <3>1, <3>4 DEF t
  <2> HIDE DEF step
  <2> QED BY <2>1, <2>2 DEF GoesOn
<1>10. PlayedBy(calls) = h[n]
  <2> HIDE DEF step, base, n, Recurs
  <2>1. f[1..n] = h[n]
    BY <1>1, <1>6, <1>9, FoldUnique
  <2> QED BY <1>8, <2>1
<1>11. \A k \in 0..(n - 1) : h[k + 1] = TickedBy(h[k], calls[k + 1])
  <2> SUFFICES ASSUME NEW k \in 0..(n - 1) PROVE h[k + 1] = TickedBy(h[k], calls[k + 1])
    OBVIOUS
  <2> HIDE DEF step, base
  <2>1. k \in 0..n /\ k + 1 \in 1..n
    BY <1>1
  <2>2. h[k] \in Handles
    BY <1>6, <2>1 DEF Through
  <2> QED BY <1>4, <1>6, <2>1, <2>2 DEF Through
<1> QED BY <1>6, <1>10, <1>11 DEF Through

(* One more call goes on from where the others left the run. *)
LEMMA OneMoreCall ==
  ASSUME NEW calls \in Seq(Streams), NEW cmds \in Streams
  PROVE  PlayedBy(Append(calls, cmds)) = TickedBy(PlayedBy(calls), cmds)
<1> DEFINE n == Len(calls)
           more == Append(calls, cmds)
<1>1. /\ n \in Nat /\ more \in Seq(Streams) /\ Len(more) = n + 1 /\ more[n + 1] = cmds
      /\ \A k \in 1..n : more[k] = calls[k]
  OBVIOUS
<1>2. PICK h : /\ h[0] = NewRun /\ PlayedBy(calls) = h[n]
               /\ \A k \in 0..(n - 1) : h[k + 1] = TickedBy(h[k], calls[k + 1])
  BY CallsThrough
<1>3. PICK g : /\ g[0] = NewRun /\ PlayedBy(more) = g[n + 1]
               /\ \A k \in 0..n : g[k + 1] = TickedBy(g[k], more[k + 1])
  <2> HIDE DEF more
  <2>1. PICK g : /\ g[0] = NewRun /\ PlayedBy(more) = g[Len(more)]
                 /\ \A k \in 0..(Len(more) - 1) : g[k + 1] = TickedBy(g[k], more[k + 1])
    BY <1>1, CallsThrough
  <2>2. 0..(Len(more) - 1) = 0..n
    BY <1>1
  <2> QED BY <1>1, <2>1, <2>2
<1> HIDE DEF more
<1> DEFINE D == {k \in 0..n : g[k] # h[k]}
<1>4. D = {}
  <2> SUFFICES ASSUME D # {} PROVE FALSE
    OBVIOUS
  <2>1. PICK m \in D : \A i \in D : m <= i
    <3>1. D \in SUBSET Nat
      BY <1>1
    <3> HIDE DEF D
    <3> QED BY <3>1, LeastNumber
  <2>2. m \in 0..n /\ m # 0 /\ g[m] # h[m]
    BY <1>2, <1>3
  <2>3. PICK k \in Nat : m = k + 1
    BY <2>2, Before
  <2>4. k \in 0..(n - 1) /\ k \in 0..n /\ k \notin D /\ k + 1 \in 1..n
    BY <1>1, <2>1, <2>2, <2>3
  <2>5. g[k] = h[k]
    BY <2>4
  <2> HIDE DEF D
  <2> QED BY <1>1, <1>2, <1>3, <2>2, <2>3, <2>4, <2>5
<1>5. g[n] = h[n] /\ g[n + 1] = TickedBy(g[n], cmds)
  <2>1. n \in 0..n
    BY <1>1
  <2>2. g[n] = h[n]
    BY <1>4, <2>1
  <2> QED BY <1>1, <1>3, <2>1, <2>2
<1> QED BY <1>2, <1>3, <1>5 DEF more

(* Before the first call there is a new run. *)
LEMMA NoCallYet == PlayedBy(<<>>) = NewRun
<1>1. <<>> \in Seq(Streams) /\ Len(<<>>) = 0
  OBVIOUS
<1>2. PICK h : h[0] = NewRun /\ PlayedBy(<<>>) = h[Len(<<>>)]
  BY <1>1, CallsThrough
<1> QED BY <1>1, <1>2

(* However many calls, of any streams, and whatever is refused or looked at   *)
(* between them, the run behind a handle is what its accepted calls make.     *)
THEOREM HandleExact == HandleSpec => []HandleIsItsStreams
<1> DEFINE IInv == accepted \in Seq(Streams) /\ HandleIsItsStreams
<1>1. HandleInit => IInv
  BY DEF HandleInit, HandleIsItsStreams
<1>2. IInv /\ [HandleNext]_handleVars => IInv'
  <2> SUFFICES ASSUME IInv, [HandleNext]_handleVars PROVE IInv'
    OBVIOUS
  <2>1. accepted \in Seq(Streams) /\ (handle # None => handle = PlayedBy(accepted))
    BY DEF HandleIsItsStreams, PlayedBy
  <2>2. SUFFICES accepted' \in Seq(Streams) /\ (handle' # None => handle' = PlayedBy(accepted'))
    BY DEF HandleIsItsStreams, PlayedBy
  <2>3. ASSUME NEW known \in BOOLEAN, NewHandle(known)
        PROVE  accepted' \in Seq(Streams) /\ (handle' # None => handle' = PlayedBy(accepted'))
    BY <2>3, NoCallYet DEF NewHandle
  <2>4. ASSUME NEW cmds \in Streams, RefuseText(cmds)
        PROVE  accepted' \in Seq(Streams) /\ (handle' # None => handle' = PlayedBy(accepted'))
    BY <2>1, <2>4 DEF RefuseText
  <2>5. ASSUME NEW cmds \in Streams, TickJson(cmds)
        PROVE  accepted' \in Seq(Streams) /\ (handle' # None => handle' = PlayedBy(accepted'))
    <3>1. handle = PlayedBy(accepted) /\ handle' = TickedBy(handle, cmds) /\ accepted' = Append(accepted, cmds)
      BY <2>1, <2>5 DEF TickJson
    <3>2. PlayedBy(Append(accepted, cmds)) = TickedBy(PlayedBy(accepted), cmds)
      BY <2>1, OneMoreCall
    <3>3. Append(accepted, cmds) \in Seq(Streams)
      BY <2>1
    <3> QED BY <3>1, <3>2, <3>3
  <2>6. ASSUME SnapshotJson
        PROVE  accepted' \in Seq(Streams) /\ (handle' # None => handle' = PlayedBy(accepted'))
    BY <2>1, <2>6 DEF SnapshotJson
  <2>7. ASSUME FreeHandle
        PROVE  accepted' \in Seq(Streams) /\ (handle' # None => handle' = PlayedBy(accepted'))
    BY <2>7 DEF FreeHandle
  <2>8. ASSUME UNCHANGED handleVars
        PROVE  accepted' \in Seq(Streams) /\ (handle' # None => handle' = PlayedBy(accepted'))
    BY <2>1, <2>8 DEF handleVars
  <2> QED BY <2>3, <2>4, <2>5, <2>6, <2>7, <2>8 DEF HandleNext
<1>3. IInv => HandleIsItsStreams
  OBVIOUS
<1> QED BY <1>1, <1>2, <1>3, PTL DEF HandleSpec

-------------------------------------------------------------------------------
(* The package run: both playings go through the same points. *)

Scheduled == [tick : Nat, command : Commands]

(* What is scheduled at a tick, taken a command at a time. *)
LEMMA ScheduleThrough ==
  ASSUME NEW pack \in Packages, NEW tick
  PROVE  \E h \in [0..Len(pack.commands) -> Seq(Commands)] :
           /\ h[0] = <<>>
           /\ \A k \in 0..(Len(pack.commands) - 1) : h[k + 1] = (IF pack.commands[k + 1].tick = tick
                                                                    THEN Append(h[k], pack.commands[k + 1].command)
                                                                    ELSE h[k])
           /\ CommandsAt(pack, tick) = h[Len(pack.commands)]
<1> DEFINE n == Len(pack.commands)
           base == <<>>
           step == [e \in Seq(Commands) \X (1..n) |-> (IF pack.commands[e[2]].tick = tick
                                                          THEN Append(e[1], pack.commands[e[2]].command)
                                                          ELSE e[1])]
           Recurs(f) == f = [s \in SUBSET (1..n) |->
                               IF s = {} THEN base ELSE (IF pack.commands[Max(s)].tick = tick
                                                            THEN Append(f[s \ {Max(s)}], pack.commands[Max(s)].command)
                                                            ELSE f[s \ {Max(s)}])]
<1>1. n \in Nat /\ DOMAIN pack.commands = 1..n
  BY PackageAssumption
<1>2. base \in Seq(Commands)
  OBVIOUS
<1>3. \A a \in Seq(Commands), k \in 1..n : (IF pack.commands[k].tick = tick
                                               THEN Append(a, pack.commands[k].command)
                                               ELSE a) \in Seq(Commands)
  <2>1. ASSUME NEW k \in 1..n PROVE pack.commands[k].command \in Commands
    <3>1. pack.commands \in Seq([tick : Nat, command : Commands])
      BY PackageAssumption
    <3>2. pack.commands[k] \in [tick : Nat, command : Commands]
      BY <1>1, <3>1, ElementOfSeq
    <3> QED BY <3>2
  <2>2. \A a \in Seq(Commands), c \in Commands : Append(a, c) \in Seq(Commands)
    OBVIOUS
  <2> QED BY <2>1, <2>2
<1>4. /\ step \in [Seq(Commands) \X (1..n) -> Seq(Commands)]
      /\ \A a \in Seq(Commands), k \in 1..n : step[<<a, k>>] = (IF pack.commands[k].tick = tick
                                                                   THEN Append(a, pack.commands[k].command)
                                                                   ELSE a)
  BY <1>3
<1>5. CommandsAt(pack, tick) = (CHOOSE f : Recurs(f))[1..n]
  BY <1>1 DEF CommandsAt, FoldLeft, MapThenFoldSet
<1>6. PICK h, g : /\ Through(h, n, Seq(Commands), base, step)
                  /\ g \in [SUBSET (1..n) -> Seq(Commands)] /\ Folding(g, n, base, step)
  BY <1>1, <1>2, <1>4, FoldThrough
<1>7. Recurs(g)
  <2>1. ASSUME NEW s \in SUBSET (1..n), s # {}
        PROVE  step[<<g[s \ {Max(s)}], Max(s)>>] = (IF pack.commands[Max(s)].tick = tick
                                                       THEN Append(g[s \ {Max(s)}], pack.commands[Max(s)].command)
                                                       ELSE g[s \ {Max(s)}])
    <3>1. Max(s) \in 1..n /\ g[s \ {Max(s)}] \in Seq(Commands)
      BY <1>1, <1>6, <2>1, MaxIsIn
    <3> QED BY <1>4, <3>1
  <2> HIDE DEF step
  <2> QED BY <1>6, <2>1 DEF Folding
<1>8. PICK f : Recurs(f) /\ CommandsAt(pack, tick) = f[1..n]
  BY <1>5, <1>7
<1>9. GoesOn(f, n, Seq(Commands), base, step)
  <2>1. f[{}] = base
    BY <1>8
  <2>2. ASSUME NEW k \in 0..(n - 1), f[1..k] \in Seq(Commands) PROVE f[1..(k + 1)] = step[<<f[1..k], k + 1>>]
    <3> DEFINE t == 1..(k + 1)
    <3>1. k \in Nat /\ k + 1 \in 1..n /\ t \in SUBSET (1..n)
      BY <1>1
    <3>2. t # {} /\ Max(t) = k + 1 /\ t \ {k + 1} = 1..k
      BY <3>1, MaxUpto
    <3> HIDE DEF t
    <3>3. f[t] = (IF pack.commands[Max(t)].tick = tick
                     THEN Append(f[t \ {Max(t)}], pack.commands[Max(t)].command)
                     ELSE f[t \ {Max(t)}])
      BY <1>8, <3>1, <3>2
    <3>4. f[t] = (IF pack.commands[k + 1].tick = tick THEN Append(f[1..k], pack.commands[k + 1].command) ELSE f[1..k])
      BY <3>2, <3>3
    <3> HIDE DEF step
    <3> QED BY <1>4, <2>2, <3>1, <3>4 DEF t
  <2> HIDE DEF step
  <2> QED BY <2>1, <2>2 DEF GoesOn
<1>10. CommandsAt(pack, tick) = h[n]
  <2> HIDE DEF step, base, n, Recurs
  <2>1. f[1..n] = h[n]
    BY <1>1, <1>6, <1>9, FoldUnique
  <2> QED BY <1>8, <2>1
<1>11. \A k \in 0..(n - 1) : h[k + 1] = (IF pack.commands[k + 1].tick = tick
                                            THEN Append(h[k], pack.commands[k + 1].command)
                                            ELSE h[k])
  <2> SUFFICES ASSUME NEW k \in 0..(n - 1)
               PROVE  h[k + 1] = (IF pack.commands[k + 1].tick = tick
                                     THEN Append(h[k], pack.commands[k + 1].command)
                                     ELSE h[k])
    OBVIOUS
  <2> HIDE DEF step, base
  <2>1. k \in 0..n /\ k + 1 \in 1..n
    BY <1>1
  <2>2. h[k] \in Seq(Commands)
    BY <1>6, <2>1 DEF Through
  <2> QED BY <1>4, <1>6, <2>1, <2>2 DEF Through
<1> QED BY <1>6, <1>10, <1>11 DEF Through

(* Commands are scheduled. *)
LEMMA CommandsAtType ==
  ASSUME NEW pack \in Packages, NEW tick
  PROVE  CommandsAt(pack, tick) \in Seq(Commands)
<1>1. PICK h \in [0..Len(pack.commands) -> Seq(Commands)] : CommandsAt(pack, tick) = h[Len(pack.commands)]
  BY ScheduleThrough
<1>2. Len(pack.commands) \in 0..Len(pack.commands)
  BY PackageAssumption
<1> QED BY <1>1, <1>2

WayPoints == [sim : Sims, held : BOOLEAN, events : Seq(TickEvents)]

After(pack, k, s) == Ticked(s.sim, FoldCommands(CommandsAt(pack, k), s.held))
Point(pack, k, s) ==
  [sim |-> Drained(After(pack, k, s)), held |-> HeldAfter(CommandsAt(pack, k), s.held),
   events |-> s.events \o After(pack, k, s).events]

(* A tick goes from a point to a point, appends what it tells and leaves no   *)
(* event in the simulation.                                                 *)
LEMMA PointIs ==
  ASSUME NEW pack \in Packages, NEW k, NEW s \in WayPoints
  PROVE  /\ Point(pack, k, s) \in WayPoints
         /\ After(pack, k, s).events \in Seq(TickEvents)
         /\ Point(pack, k, s).events = s.events \o After(pack, k, s).events
         /\ Point(pack, k, s).sim = [run |-> Point(pack, k, s).sim.run, events |-> <<>>]
         /\ Point(pack, k, s).sim.run = After(pack, k, s).run
<1>1. s.sim \in Sims /\ s.held \in BOOLEAN /\ s.events \in Seq(TickEvents)
  BY DEF WayPoints
<1>2. CommandsAt(pack, k) \in Seq(Commands)
  BY CommandsAtType
<1>3. FoldCommands(CommandsAt(pack, k), s.held) \in Inputs /\ HeldAfter(CommandsAt(pack, k), s.held) \in BOOLEAN
  BY <1>1, <1>2, FoldedType
<1>4. After(pack, k, s) \in Sims
  BY <1>1, <1>3, TickedType DEF After
<1>5. After(pack, k, s).events \in Seq(TickEvents)
  BY <1>4 DEF Sims
<1>6. /\ Drained(After(pack, k, s)) \in Sims
      /\ Drained(After(pack, k, s)) = [run |-> After(pack, k, s).run, events |-> <<>>]
  BY <1>4, DrainedIs
<1> HIDE DEF After
<1>7. s.events \o After(pack, k, s).events \in Seq(TickEvents)
  BY <1>1, <1>5
<1>8. Point(pack, k, s) \in WayPoints
  BY <1>3, <1>6, <1>7 DEF Point, WayPoints
<1>9. Point(pack, k, s).sim = [run |-> After(pack, k, s).run, events |-> <<>>]
  BY <1>6 DEF Point
<1>10. Point(pack, k, s).sim.run = After(pack, k, s).run
  BY <1>9
<1>11. Point(pack, k, s).events = s.events \o After(pack, k, s).events
  BY DEF Point
<1> QED BY <1>5, <1>8, <1>9, <1>10, <1>11

(* What a tick does depends on the simulation and the buttons alone. *)
LEMMA SamePoint ==
  ASSUME NEW pack \in Packages, NEW k, NEW s \in WayPoints, NEW t \in WayPoints, s.sim = t.sim, s.held = t.held
  PROVE  /\ Point(pack, k, s).sim = Point(pack, k, t).sim
         /\ Point(pack, k, s).held = Point(pack, k, t).held
         /\ After(pack, k, s).events = After(pack, k, t).events
BY DEF Point, After

Here == [sim |-> played, held |-> held, events |-> events]
Furthest == IF replay = None THEN next ELSE package.runTicks

(* The first playing went through these points. *)
Way(f, pack, top) ==
  /\ f \in [0..top -> WayPoints]
  /\ f[0] = [sim |-> FreshSim, held |-> FALSE, events |-> <<>>]
  /\ \A k \in 0..(top - 1) : f[k + 1] = Point(pack, k, f[k])

(* The snapshot is of its point. *)
SavedOn(f) ==
  saved = [run |-> f[package.snapshotTick].sim.run, held |-> f[package.snapshotTick].held,
           count |-> Len(f[package.snapshotTick].events)]

(* The replay is on the way, and has told what came since the snapshot. *)
ReplayOn(f) ==
  /\ replay \in WayPoints /\ package.snapshotTick <= next
  /\ replay.sim = f[next].sim /\ replay.held = f[next].held
  /\ f[next].events = f[package.snapshotTick].events \o replay.events

OnTheWay(f) ==
  /\ Way(f, package, Furthest)
  /\ f[Furthest] = Here
  /\ \A k \in 0..Furthest : \E rest \in Seq(TickEvents) : events = f[k].events \o rest
  /\ package.snapshotTick <= Furthest => SavedOn(f)
  /\ replay # None => ReplayOn(f)

PackageTypeOK ==
  /\ package \in Packages /\ SchedulePasses(package)
  /\ next \in 0..package.runTicks
  /\ Here \in WayPoints
  /\ verdict # "ReplayMismatch"

PackageInv == PackageTypeOK /\ \E f : OnTheWay(f)

(* Of a package that loads, the snapshot is on the way. *)
LEMMA SnapshotOnTheWay ==
  ASSUME PackageTypeOK
  PROVE  /\ package.runTicks \in Nat /\ package.snapshotTick \in 1..(package.runTicks - 1)
         /\ next \in Nat
BY PackageAssumption DEF PackageTypeOK, SchedulePasses

(* At the start the way is a point. *)
LEMMA PackageInitInv == PackageInit => PackageInv
<1> SUFFICES ASSUME PackageInit PROVE PackageInv
  OBVIOUS
<1>1. /\ package \in Packages /\ SchedulePasses(package) /\ verdict = None /\ next = 0
      /\ played = FreshSim /\ held = FALSE /\ events = <<>> /\ replay = None
  BY DEF PackageInit, PackageLoads
<1>2. FreshSim \in Sims
  BY DEF FreshSim, FreshRun, Sims, Start, TickEvents
<1>3. Here \in WayPoints /\ Here = [sim |-> FreshSim, held |-> FALSE, events |-> <<>>]
  <2>1. <<>> \in Seq(TickEvents)
    OBVIOUS
  <2> QED BY <1>1, <1>2, <2>1 DEF Here, WayPoints
<1>4. PackageTypeOK
  BY <1>1, <1>3, PackageAssumption DEF PackageTypeOK
<1>5. Furthest = 0
  BY <1>1 DEF Furthest
<1> DEFINE f == [k \in 0..0 |-> Here]
<1>6. Way(f, package, 0)
  <2>1. f \in [0..0 -> WayPoints] /\ f[0] = Here /\ 0..(0 - 1) = {}
    BY <1>3
  <2> HIDE DEF f
  <2> QED BY <1>3, <2>1 DEF Way
<1>7. \A k \in 0..0 : \E rest \in Seq(TickEvents) : events = f[k].events \o rest
  <2>1. f[0].events = <<>> /\ <<>> \o <<>> = <<>> /\ <<>> \in Seq(TickEvents)
    BY <1>1 DEF Here
  <2>2. \A k \in 0..0 : k = 0
    OBVIOUS
  <2> HIDE DEF f
  <2> QED BY <1>1, <2>1, <2>2
<1>8. ~(package.snapshotTick <= 0)
  BY <1>4, SnapshotOnTheWay
<1>9. f[0] = Here
  OBVIOUS
<1>10. OnTheWay(f)
  <2> HIDE DEF f
  <2> QED BY <1>1, <1>5, <1>6, <1>7, <1>8, <1>9 DEF OnTheWay
<1> QED BY <1>4, <1>10 DEF PackageInv

(* Sequences: putting together and taking apart. *)
LEMMA Together ==
  ASSUME NEW a \in Seq(TickEvents), NEW b \in Seq(TickEvents), NEW c \in Seq(TickEvents)
  PROVE  /\ (a \o b) \o c = a \o (b \o c)
         /\ a \o b \in Seq(TickEvents) /\ Len(a \o b) = Len(a) + Len(b)
         /\ SubSeq((a \o b) \o c, Len(a) + 1, Len(a) + Len(b)) = b
<1>1. (a \o b) \o c = a \o (b \o c)
  OBVIOUS
<1>2. a \o b \in Seq(TickEvents) /\ Len(a \o b) = Len(a) + Len(b)
  OBVIOUS
<1> DEFINE all == (a \o b) \o c
           cut == SubSeq(all, Len(a) + 1, Len(a) + Len(b))
<1>3. /\ all \in Seq(TickEvents) /\ Len(all) = Len(a) + Len(b) + Len(c)
      /\ \A i \in 1..Len(b) : all[Len(a) + i] = b[i]
  OBVIOUS
<1>4. Len(a) \in Nat /\ Len(b) \in Nat /\ Len(c) \in Nat
  OBVIOUS
<1> HIDE DEF all
<1>5. cut \in Seq(TickEvents) /\ Len(cut) = Len(b) /\ \A i \in 1..Len(b) : cut[i] = all[Len(a) + 1 + i - 1]
  BY <1>3, <1>4
<1>6. \A i \in 1..Len(b) : cut[i] = b[i]
  <2> SUFFICES ASSUME NEW i \in 1..Len(b) PROVE cut[i] = b[i]
    OBVIOUS
  <2>1. Len(a) + 1 + i - 1 = Len(a) + i
    BY <1>4
  <2> HIDE DEF cut
  <2> QED BY <1>3, <1>5, <2>1
<1> HIDE DEF cut
<1>7. cut = b
  BY <1>5, <1>6, SeqEqual
<1> QED BY <1>1, <1>2, <1>7 DEF cut, all

(* Every state on the way is a point. *)
LEMMA OnTheWayIs ==
  ASSUME PackageTypeOK, NEW f, OnTheWay(f)
  PROVE  /\ Furthest \in Nat /\ package.snapshotTick \in Nat /\ next <= Furthest
         /\ \A k \in 0..Furthest : f[k] \in WayPoints
         /\ \A k \in 0..(Furthest - 1) : f[k + 1] = Point(package, k, f[k])
         /\ \A k \in 0..(Furthest - 1) : f[k + 1].sim = [run |-> f[k + 1].sim.run, events |-> <<>>]
<1>1. Furthest \in Nat /\ package.snapshotTick \in Nat /\ next <= Furthest
  BY SnapshotOnTheWay DEF Furthest, PackageTypeOK
<1>2. /\ f \in [0..Furthest -> WayPoints]
      /\ \A k \in 0..(Furthest - 1) : f[k + 1] = Point(package, k, f[k])
  BY DEF OnTheWay, Way
<1>3. ASSUME NEW k \in 0..(Furthest - 1)
      PROVE  f[k + 1].sim = [run |-> f[k + 1].sim.run, events |-> <<>>]
  <2>1. f[k] \in WayPoints
    BY <1>1, <1>2
  <2>2. package \in Packages
    BY DEF PackageTypeOK
  <2> DEFINE q == Point(package, k, f[k])
  <2>3. q.sim = [run |-> q.sim.run, events |-> <<>>]
    BY <2>1, <2>2, PointIs
  <2>4. f[k + 1] = q
    BY <1>2
  <2> HIDE DEF q
  <2> QED BY <2>3, <2>4
<1> QED BY <1>1, <1>2, <1>3

(* Playing a tick goes one point further; at the snapshot's tick it saves it. *)
LEMMA PlayTickInv == ASSUME PackageInv, PlayTick PROVE PackageInv'
<1>1. PackageTypeOK /\ package \in Packages /\ Here \in WayPoints
  BY DEF PackageInv, PackageTypeOK
<1>2. PICK f : OnTheWay(f)
  BY DEF PackageInv
<1>3. /\ replay = None /\ next < package.runTicks /\ next' = next + 1
      /\ package' = package /\ verdict' = verdict /\ replay' = replay
  BY DEF PlayTick
<1>4. Furthest = next /\ Furthest' = next + 1 /\ next \in Nat /\ package.snapshotTick \in Nat
  BY <1>1, <1>3, SnapshotOnTheWay DEF Furthest
<1> DEFINE p == Point(package, next, Here)
           after == After(package, next, Here)
           top == next + 1
<1>5. /\ Here' = p
      /\ saved' = IF top = package.snapshotTick THEN Saved(after, held', events') ELSE saved
  BY DEF PlayTick, Here, Point, After
<1>6. /\ p \in WayPoints /\ after.events \in Seq(TickEvents) /\ p.events = events \o after.events
      /\ p.sim.run = after.run
  <2>1. Here.events = events
    BY DEF Here
  <2> QED BY <1>1, <2>1, PointIs
<1>7. Here'.held = held' /\ Here'.events = events'
  BY DEF Here
<1>8. p.held = held' /\ p.events = events'
  BY <1>5, <1>7
<1> HIDE DEF p, after
<1>9. /\ f \in [0..next -> WayPoints] /\ f[next] = Here
      /\ f[0] = [sim |-> FreshSim, held |-> FALSE, events |-> <<>>]
      /\ \A k \in 0..(next - 1) : f[k + 1] = Point(package, k, f[k])
      /\ \A k \in 0..next : \E rest \in Seq(TickEvents) : events = f[k].events \o rest
      /\ package.snapshotTick <= next => SavedOn(f)
  BY <1>2, <1>4 DEF OnTheWay, Way
<1>10. PICK g : g[top] = p /\ (\A k \in 0..next : g[k] = f[k]) /\ g \in [0..top -> WayPoints]
  <2> DEFINE g == [k \in 0..top |-> IF k = top THEN p ELSE f[k]]
  <2>1. \A k \in 0..top : k = top \/ k \in 0..next
    BY <1>4
  <2>2. top \in 0..top /\ \A k \in 0..next : k \in 0..top /\ k # top
    BY <1>4
  <2>3. \A k \in 0..next : f[k] \in WayPoints
    BY <1>9
  <2>4. g[top] = p /\ (\A k \in 0..next : g[k] = f[k]) /\ g \in [0..top -> WayPoints]
    BY <1>6, <2>1, <2>2, <2>3
  <2> QED BY <2>4
<1>11. Way(g, package, top)
  <2>1. g[0] = [sim |-> FreshSim, held |-> FALSE, events |-> <<>>]
    <3>1. 0 \in 0..next
      BY <1>4
    <3>2. g[0] = f[0]
      BY <1>10, <3>1
    <3> QED BY <1>9, <3>2
  <2>2. ASSUME NEW k \in 0..(top - 1) PROVE g[k + 1] = Point(package, k, g[k])
    <3>1. k \in 0..next /\ g[k] = f[k]
      BY <1>4, <1>10
    <3>2. CASE k = next
      BY <1>9, <1>10, <3>1, <3>2 DEF p
    <3>3. CASE k # next
      <4>1. k \in 0..(next - 1) /\ k + 1 \in 0..next
        BY <1>4, <3>1, <3>3
      <4> QED BY <1>9, <1>10, <3>1, <4>1
    <3> QED BY <3>2, <3>3
  <2> QED BY <1>10, <2>1, <2>2 DEF Way
<1>12. ASSUME NEW k \in 0..top PROVE \E rest \in Seq(TickEvents) : events' = g[k].events \o rest
  <2>1. CASE k = top
    <3>1. g[k].events = events' /\ events' \in Seq(TickEvents)
      BY <1>6, <1>8, <1>10, <2>1 DEF WayPoints
    <3>2. events' = g[k].events \o <<>> /\ <<>> \in Seq(TickEvents)
      BY <3>1
    <3> QED BY <3>2
  <2>2. CASE k # top
    <3>1. k \in 0..next
      BY <1>4, <2>2
    <3>2. PICK rest \in Seq(TickEvents) : events = f[k].events \o rest
      BY <1>9, <3>1
    <3>3. f[k].events \in Seq(TickEvents)
      BY <1>9, <3>1 DEF WayPoints
    <3>4. events' = (f[k].events \o rest) \o after.events
      BY <1>6, <1>8, <3>2
    <3>5. events' = f[k].events \o (rest \o after.events) /\ rest \o after.events \in Seq(TickEvents)
      BY <1>6, <3>2, <3>3, <3>4, Together
    <3> QED BY <1>10, <3>1, <3>5
  <2> QED BY <2>1, <2>2
<1>13. package.snapshotTick <= top => SavedOn(g)'
  <2>1. SUFFICES ASSUME package.snapshotTick <= top
        PROVE saved' = [run |-> g[package.snapshotTick].sim.run, held |-> g[package.snapshotTick].held,
                        count |-> Len(g[package.snapshotTick].events)]
    BY <1>3 DEF SavedOn
  <2>2. CASE package.snapshotTick = top
    BY <1>5, <1>6, <1>8, <1>10, <2>2 DEF Saved
  <2>3. CASE package.snapshotTick # top
    <3>1. package.snapshotTick <= next /\ package.snapshotTick \in 0..next
      BY <1>4, <2>1, <2>3
    <3> QED BY <1>5, <1>9, <1>10, <2>3, <3>1 DEF SavedOn
  <2> QED BY <2>2, <2>3
<1>14. OnTheWay(g)'
  <2>1. Way(g, package, Furthest)'
    BY <1>3, <1>4, <1>11 DEF Way
  <2>2. g[Furthest'] = Here'
    BY <1>4, <1>5, <1>10
  <2>3. \A k \in 0..Furthest' : \E rest \in Seq(TickEvents) : events' = g[k].events \o rest
    BY <1>4, <1>12
  <2>4. package'.snapshotTick <= Furthest' => SavedOn(g)'
    BY <1>3, <1>4, <1>13
  <2> QED BY <1>3, <2>1, <2>2, <2>3, <2>4 DEF OnTheWay
<1>15. PackageTypeOK'
  <2>1. next' \in 0..package.runTicks
    BY <1>1, <1>3, <1>4, SnapshotOnTheWay
  <2> QED BY <1>1, <1>3, <1>5, <1>6, <2>1 DEF PackageTypeOK, SchedulePasses
<1> QED BY <1>14, <1>15 DEF PackageInv

(* The replay starts at the point the snapshot is of. *)
LEMMA StartReplayInv == ASSUME PackageInv, StartReplay PROVE PackageInv'
<1>1. PackageTypeOK /\ package \in Packages
  BY DEF PackageInv, PackageTypeOK
<1>2. PICK f : OnTheWay(f)
  BY DEF PackageInv
<1> DEFINE snap == package.snapshotTick
<1>3. /\ replay = None /\ next = package.runTicks /\ next' = snap
      /\ replay' = [sim |-> Restored(saved.run), held |-> saved.held, events |-> <<>>]
      /\ package' = package /\ verdict' = verdict /\ saved' = saved
      /\ played' = played /\ held' = held /\ events' = events
  BY DEF StartReplay
<1>4. /\ package.runTicks \in Nat /\ snap \in 1..(package.runTicks - 1)
      /\ snap \in 0..package.runTicks
  BY <1>1, SnapshotOnTheWay
<1>5. Furthest = package.runTicks
  BY <1>3 DEF Furthest
<1>6. f[snap] \in WayPoints /\ SavedOn(f) /\ f[snap].sim = [run |-> f[snap].sim.run, events |-> <<>>]
  <2>1. PICK k \in Nat : snap = k + 1
    BY <1>4, Before
  <2>2. k \in 0..(Furthest - 1) /\ snap \in 0..Furthest
    BY <1>4, <1>5, <2>1
  <2>3. SavedOn(f)
    BY <1>2, <1>4, <1>5 DEF OnTheWay
  <2> QED BY <1>1, <1>2, <2>1, <2>2, <2>3, OnTheWayIs
<1>7. Restored(saved.run) = f[snap].sim /\ saved.held = f[snap].held
  BY <1>6 DEF SavedOn, Restored
<1>8. replay' = [sim |-> f[snap].sim, held |-> f[snap].held, events |-> <<>>]
  BY <1>3, <1>7
<1>9. /\ replay' \in WayPoints /\ replay' # None
      /\ replay'.sim = f[snap].sim /\ replay'.held = f[snap].held /\ replay'.events = <<>>
  <2>1. <<>> \in Seq(TickEvents)
    OBVIOUS
  <2>2. f[snap].sim \in Sims /\ f[snap].held \in BOOLEAN
    BY <1>6 DEF WayPoints
  <2>3. replay' \in WayPoints
    BY <1>8, <2>1, <2>2 DEF WayPoints
  <2> QED BY <1>8, <2>3, PackageAssumption DEF WayPoints
<1>10. f[snap].events = f[snap].events \o replay'.events
  BY <1>6, <1>9 DEF WayPoints
<1>11. ReplayOn(f)'
  BY <1>3, <1>4, <1>9, <1>10 DEF ReplayOn
<1>12. Furthest' = package.runTicks
  BY <1>3, <1>9 DEF Furthest
<1>13. OnTheWay(f)'
  <2>1. Here' = Here
    BY <1>3 DEF Here
  <2>2. SavedOn(f)'
    BY <1>3, <1>6 DEF SavedOn
  <2>3. /\ Way(f, package, Furthest) /\ f[Furthest] = Here
        /\ \A k \in 0..Furthest : \E rest \in Seq(TickEvents) : events = f[k].events \o rest
    BY <1>2 DEF OnTheWay
  <2>4. Way(f, package, Furthest)'
    BY <1>3, <1>5, <1>12, <2>3 DEF Way
  <2> QED BY <1>3, <1>5, <1>11, <1>12, <2>1, <2>2, <2>3, <2>4 DEF OnTheWay
<1>14. PackageTypeOK'
  BY <1>1, <1>3, <1>4 DEF PackageTypeOK, SchedulePasses, Here
<1> QED BY <1>13, <1>14 DEF PackageInv

(* Replaying a tick goes to the point the first playing went to. *)
LEMMA ReplayTickInv == ASSUME PackageInv, ReplayTick PROVE PackageInv'
<1>1. PackageTypeOK /\ package \in Packages
  BY DEF PackageInv, PackageTypeOK
<1>2. PICK f : OnTheWay(f)
  BY DEF PackageInv
<1> DEFINE snap == package.snapshotTick
           p == Point(package, next, replay)
           after == After(package, next, replay)
<1>3. /\ replay # None /\ next < package.runTicks /\ next' = next + 1
      /\ package' = package /\ verdict' = verdict /\ saved' = saved
      /\ played' = played /\ held' = held /\ events' = events
      /\ replay' = p
  BY DEF ReplayTick, Point, After
<1>4. /\ package.runTicks \in Nat /\ snap \in Nat /\ snap <= package.runTicks /\ next \in Nat
  BY <1>1, SnapshotOnTheWay
<1>5. Furthest = package.runTicks /\ next \in 0..(Furthest - 1) /\ next \in 0..Furthest /\ next + 1 \in 0..Furthest
      /\ snap \in 0..Furthest
  BY <1>3, <1>4 DEF Furthest
<1>6. /\ replay \in WayPoints /\ snap <= next
      /\ replay.sim = f[next].sim /\ replay.held = f[next].held
      /\ f[next].events = f[snap].events \o replay.events
  BY <1>2, <1>3 DEF OnTheWay, ReplayOn
<1>7. f[next] \in WayPoints /\ f[snap] \in WayPoints /\ f[next + 1] = Point(package, next, f[next])
  BY <1>1, <1>2, <1>5, OnTheWayIs
<1>8. /\ p.sim = f[next + 1].sim /\ p.held = f[next + 1].held
      /\ after.events = After(package, next, f[next]).events
  BY <1>1, <1>6, <1>7, SamePoint
<1>9. p \in WayPoints /\ after.events \in Seq(TickEvents) /\ p.events = replay.events \o after.events
  BY <1>1, <1>6, PointIs
<1>10. f[next + 1].events = f[next].events \o after.events
  <2> DEFINE q == Point(package, next, f[next])
  <2>1. q.events = f[next].events \o After(package, next, f[next]).events
    BY <1>1, <1>7, PointIs
  <2>2. f[next + 1] = q
    BY <1>7
  <2> HIDE DEF q, after
  <2> QED BY <1>8, <2>1, <2>2
<1>11. p # None
  BY <1>9, PackageAssumption DEF WayPoints
<1> HIDE DEF p, after
<1>12. f[next + 1].events = f[snap].events \o p.events
  <2>1. f[snap].events \in Seq(TickEvents) /\ replay.events \in Seq(TickEvents)
    BY <1>6, <1>7 DEF WayPoints
  <2>2. (f[snap].events \o replay.events) \o after.events = f[snap].events \o (replay.events \o after.events)
    BY <1>9, <2>1, Together
  <2> QED BY <1>6, <1>9, <1>10, <2>2
<1>13. ReplayOn(f)'
  <2>1. snap <= next + 1
    BY <1>4, <1>6
  <2> QED BY <1>3, <1>8, <1>9, <1>12, <2>1 DEF ReplayOn
<1>14. Furthest' = package.runTicks
  BY <1>3, <1>11 DEF Furthest
<1>15. OnTheWay(f)'
  <2>1. Here' = Here
    BY <1>3 DEF Here
  <2>2. /\ Way(f, package, Furthest) /\ f[Furthest] = Here
        /\ \A k \in 0..Furthest : \E rest \in Seq(TickEvents) : events = f[k].events \o rest
        /\ snap <= Furthest => SavedOn(f)
    BY <1>2 DEF OnTheWay
  <2>3. Way(f, package, Furthest)'
    BY <1>3, <1>5, <1>14, <2>2 DEF Way
  <2>4. SavedOn(f)' <=> SavedOn(f)
    BY <1>3 DEF SavedOn
  <2> QED BY <1>3, <1>5, <1>13, <1>14, <2>1, <2>2, <2>3, <2>4 DEF OnTheWay
<1>16. PackageTypeOK'
  <2>1. next' \in 0..package.runTicks
    BY <1>3, <1>4
  <2> QED BY <1>1, <1>3, <2>1 DEF PackageTypeOK, SchedulePasses, Here
<1> QED BY <1>15, <1>16 DEF PackageInv

(* What the replay has told is what came after the snapshot, cut from the     *)
(* whole.                                                                   *)
LEMMA ReplayTold ==
  ASSUME PackageInv, replay # None
  PROVE  /\ \E rest \in 0..Len(events) :
              SubSeq(events, saved.count + 1, Len(events) - rest) = replay.events
         /\ next = package.runTicks =>
              /\ replay.held = held /\ replay.sim.run = played.run
              /\ replay.events = SubSeq(events, saved.count + 1, Len(events))
<1>1. PackageTypeOK /\ package \in Packages
  BY DEF PackageInv, PackageTypeOK
<1>2. PICK f : OnTheWay(f)
  BY DEF PackageInv
<1> DEFINE snap == package.snapshotTick
<1>3. /\ package.runTicks \in Nat /\ snap \in Nat /\ snap <= package.runTicks /\ next \in 0..package.runTicks
  BY <1>1, SnapshotOnTheWay DEF PackageTypeOK
<1> HIDE DEF snap
<1>4. Furthest = package.runTicks /\ snap \in 0..Furthest /\ next \in 0..Furthest
  BY <1>3 DEF Furthest
<1>5. /\ replay \in WayPoints /\ replay.sim = f[next].sim /\ replay.held = f[next].held
      /\ f[next].events = f[snap].events \o replay.events
      /\ saved.count = Len(f[snap].events)
      /\ f[Furthest] = Here
  <2>1. snap <= Furthest
    BY <1>3, <1>4
  <2>2. SavedOn(f) /\ ReplayOn(f) /\ f[Furthest] = Here
    BY <1>2, <2>1 DEF OnTheWay, snap
  <2>3. saved.count = Len(f[snap].events)
    BY <2>2 DEF SavedOn, snap
  <2> QED BY <2>2, <2>3 DEF ReplayOn, snap
<1>6. PICK rest \in Seq(TickEvents) : events = f[next].events \o rest
  BY <1>2, <1>4 DEF OnTheWay
<1>7. f[snap].events \in Seq(TickEvents) /\ replay.events \in Seq(TickEvents) /\ f[next].events \in Seq(TickEvents)
  <2>1. f[snap] \in WayPoints /\ f[next] \in WayPoints
    BY <1>1, <1>2, <1>4, OnTheWayIs
  <2> QED BY <1>5, <2>1 DEF WayPoints
<1>8. SubSeq(events, saved.count + 1, Len(f[next].events)) = replay.events
  <2> DEFINE a == f[snap].events
             b == replay.events
  <2>1. SubSeq((a \o b) \o rest, Len(a) + 1, Len(a) + Len(b)) = b /\ Len(a \o b) = Len(a) + Len(b)
    BY <1>7, Together
  <2>2. events = (a \o b) \o rest /\ f[next].events = a \o b /\ saved.count = Len(a)
    BY <1>5, <1>6
  <2> HIDE DEF a
  <2> QED BY <2>1, <2>2
<1>9. /\ Len(rest) \in Nat /\ Len(f[next].events) \in Nat
      /\ Len(events) = Len(f[next].events) + Len(rest)
  BY <1>6, <1>7
<1>10. Len(rest) \in 0..Len(events) /\ Len(events) - Len(rest) = Len(f[next].events)
  BY <1>9
<1>11. ASSUME next = package.runTicks
       PROVE  /\ replay.held = held /\ replay.sim.run = played.run
              /\ replay.events = SubSeq(events, saved.count + 1, Len(events))
  <2>1. f[next] = Here
    BY <1>4, <1>5, <1>11
  <2>2. f[next].held = held /\ f[next].sim = played /\ f[next].events = events
    BY <2>1 DEF Here
  <2> QED BY <1>5, <1>8, <2>2
<1> QED BY <1>8, <1>10, <1>11

(* At the end the two playings are equal. *)
LEMMA JudgeInv == ASSUME PackageInv, Judge PROVE PackageInv'
<1>1. PackageTypeOK
  BY DEF PackageInv
<1>2. /\ replay # None /\ next = package.runTicks
      /\ verdict' = CASE ~Equal -> "ReplayMismatch"
                      [] Equal /\ ~(ToSet(package.required) \subseteq ToSet(events)) -> "MissingRequiredEvent"
                      [] OTHER -> "accepted"
      /\ package' = package /\ next' = next /\ replay' = replay /\ saved' = saved
      /\ played' = played /\ held' = held /\ events' = events
  BY DEF Judge
<1>3. Equal
  BY <1>2, ReplayTold DEF Equal
<1>4. verdict' # "ReplayMismatch"
  BY <1>2, <1>3
<1>5. PackageTypeOK'
  BY <1>1, <1>2, <1>4 DEF PackageTypeOK, SchedulePasses, Here
<1>6. PICK f : OnTheWay(f)
  BY DEF PackageInv
<1>7. OnTheWay(f)'
  BY <1>2, <1>6 DEF OnTheWay, Way, SavedOn, ReplayOn, Furthest, Here
<1> QED BY <1>5, <1>7 DEF PackageInv

(* Both playings of a package keep to one way. *)
LEMMA PackageInvariant == PackageSpec => []PackageInv
<1>1. PackageInv /\ [PackageNext]_packageVars => PackageInv'
  <2> SUFFICES ASSUME PackageInv, [PackageNext]_packageVars PROVE PackageInv'
    OBVIOUS
  <2>1. CASE PlayTick
    BY <2>1, PlayTickInv
  <2>2. CASE StartReplay
    BY <2>2, StartReplayInv
  <2>3. CASE ReplayTick
    BY <2>3, ReplayTickInv
  <2>4. CASE Judge
    BY <2>4, JudgeInv
  <2>5. CASE UNCHANGED packageVars
    <3>1. /\ package' = package /\ next' = next /\ replay' = replay /\ saved' = saved
          /\ played' = played /\ held' = held /\ events' = events /\ verdict' = verdict
      BY <2>5 DEF packageVars
    <3>2. PackageTypeOK'
      BY <3>1 DEF PackageInv, PackageTypeOK, SchedulePasses, Here
    <3>3. PICK f : OnTheWay(f)
      BY DEF PackageInv
    <3>4. OnTheWay(f)'
      BY <3>1, <3>3 DEF OnTheWay, Way, SavedOn, ReplayOn, Furthest, Here
    <3> QED BY <3>2, <3>4 DEF PackageInv
  <2> QED BY <2>1, <2>2, <2>3, <2>4, <2>5 DEF PackageNext
<1> QED BY <1>1, PackageInitInv, PTL DEF PackageSpec

(* Whatever a package schedules on either side of its snapshot, the replay    *)
(* tells the events the first playing told from there on, ends with the same  *)
(* buttons held, and is never judged a mismatch.                             *)
THEOREM ReplayExact == PackageSpec => []ReplayIsExact
<1>1. PackageInv => ReplayIsExact
  BY ReplayTold DEF ReplayIsExact, PackageInv, PackageTypeOK
<1> QED BY <1>1, PackageInvariant, PTL

-------------------------------------------------------------------------------
(* What a stream leaves of the button: its last press or release decides. *)

LastButton(cmds, i) ==
  /\ i \in 1..Len(cmds) /\ cmds[i] \in ButtonCommands
  /\ \A j \in 1..Len(cmds) : j > i => cmds[j] \notin ButtonCommands
NoButton(cmds) == \A i \in 1..Len(cmds) : cmds[i] \notin ButtonCommands

(* From where no more button comes the fold keeps the button. *)
LEMMA ButtonStays ==
  ASSUME NEW cmds \in Seq(Commands), NEW h \in [0..Len(cmds) -> Inputs],
         \A k \in 0..(Len(cmds) - 1) : h[k + 1] = FoldOne(h[k], cmds[k + 1]),
         NEW m \in 0..Len(cmds), \A j \in 1..Len(cmds) : j > m => cmds[j] \notin ButtonCommands
  PROVE  h[Len(cmds)].button = h[m].button
<1> DEFINE n == Len(cmds)
           D == {k \in m..n : h[k].button # h[m].button}
<1>1. n \in Nat /\ m \in Nat /\ m <= n
  OBVIOUS
<1>2. D = {}
  <2> SUFFICES ASSUME D # {} PROVE FALSE
    OBVIOUS
  <2>1. PICK k \in D : \A i \in D : k <= i
    <3>1. D \in SUBSET Nat
      BY <1>1
    <3> HIDE DEF D
    <3> QED BY <3>1, LeastNumber
  <2>2. k \in m..n /\ k # m /\ k - 1 \in m..n /\ k - 1 \in 0..(n - 1) /\ k \in 1..n /\ k > m
    BY <1>1, <2>1
  <2>3. h[k - 1].button = h[m].button
    BY <2>1, <2>2
  <2>4. h[k] = FoldOne(h[k - 1], cmds[k])
    <3>1. (k - 1) + 1 = k
      BY <2>2
    <3> QED BY <2>2, <3>1
  <2>5. cmds[k] \notin ButtonCommands /\ h[k - 1] \in Inputs
    BY <1>1, <2>2
  <2>6. FoldOne(h[k - 1], cmds[k]).button = h[k - 1].button
    BY <2>5 DEF FoldOne, Inputs
  <2> QED BY <2>1, <2>3, <2>4, <2>6
<1> QED BY <1>1, <1>2

(* A command is a button's or leaves the button alone. *)
LEMMA FoldOneButton ==
  ASSUME NEW x \in Inputs, NEW c \in Commands
  PROVE  /\ c \in ButtonCommands => FoldOne(x, c).button = (c = "Down")
         /\ c \notin ButtonCommands => FoldOne(x, c).button = x.button
<1>1. \A y \in Inputs, d \in ButtonCommands : FoldOne(y, d) = [y EXCEPT !.button = d = "Down"]
  BY DEF FoldOne, ButtonCommands, EdgeCommands
<1>2. \A y \in Inputs, d \in ButtonCommands : [y EXCEPT !.button = d = "Down"].button = (d = "Down")
  BY Zenon DEF Inputs
<1>3. c \notin ButtonCommands => FoldOne(x, c).button = x.button
  BY DEF FoldOne, Inputs
<1>4. ASSUME c \in ButtonCommands PROVE FoldOne(x, c).button = (c = "Down")
  <2> DEFINE y == [x EXCEPT !.button = c = "Down"]
  <2>1. FoldOne(x, c) = y
    BY <1>1, <1>4
  <2>2. y.button = (c = "Down")
    BY <1>2, <1>4
  <2> HIDE DEF y
  <2> QED BY <2>1, <2>2, Zenon
<1> QED BY <1>3, <1>4

(* The last button command decides; without one the button stays. *)
LEMMA ButtonAfter ==
  ASSUME NEW cmds \in Seq(Commands), NEW down \in BOOLEAN
  PROVE  /\ NoButton(cmds) => HeldAfter(cmds, down) = down
         /\ \A i : LastButton(cmds, i) => HeldAfter(cmds, down) = (cmds[i] = "Down")
<1>1. PICK h \in [0..Len(cmds) -> Inputs] :
         /\ h[0] = [button |-> down, edges |-> <<>>, immediates |-> <<>>]
         /\ \A k \in 0..(Len(cmds) - 1) : h[k + 1] = FoldOne(h[k], cmds[k + 1])
         /\ FoldCommands(cmds, down) = h[Len(cmds)]
  BY CommandsThrough
<1>2. HeldAfter(cmds, down) = h[Len(cmds)].button
  BY <1>1 DEF HeldAfter
<1>3. ASSUME NoButton(cmds) PROVE HeldAfter(cmds, down) = down
  <2>1. 0 \in 0..Len(cmds) /\ \A j \in 1..Len(cmds) : j > 0 => cmds[j] \notin ButtonCommands
    BY <1>3 DEF NoButton
  <2>2. h[Len(cmds)].button = h[0].button
    BY <1>1, <2>1, ButtonStays
  <2> QED BY <1>1, <1>2, <2>2
<1>4. ASSUME NEW i, LastButton(cmds, i) PROVE HeldAfter(cmds, down) = (cmds[i] = "Down")
  <2>1. /\ i \in 1..Len(cmds) /\ i \in 0..Len(cmds) /\ i - 1 \in 0..(Len(cmds) - 1) /\ i - 1 \in 0..Len(cmds)
        /\ (i - 1) + 1 = i
    BY <1>4 DEF LastButton
  <2>2. h[Len(cmds)].button = h[i].button
    BY <1>1, <1>4, <2>1, ButtonStays DEF LastButton
  <2>3. h[i] = FoldOne(h[i - 1], cmds[i])
    BY <1>1, <2>1
  <2>4. FoldOne(h[i - 1], cmds[i]).button = (cmds[i] = "Down")
    <3>1. h[i - 1] \in Inputs /\ cmds[i] \in ButtonCommands /\ cmds[i] \in Commands
      BY <1>4, <2>1 DEF LastButton
    <3> QED BY <3>1, FoldOneButton
  <2> QED BY <1>2, <2>2, <2>3, <2>4
<1> QED BY <1>3, <1>4

(* A stream has a last button command or none. *)
LEMMA SomeLastButton ==
  ASSUME NEW cmds \in Seq(Commands)
  PROVE  NoButton(cmds) \/ \E i : LastButton(cmds, i)
<1> DEFINE s == {i \in 1..Len(cmds) : cmds[i] \in ButtonCommands}
<1>1. CASE s = {}
  BY <1>1 DEF NoButton
<1>2. CASE s # {}
  <2>1. Len(cmds) \in Nat /\ s \in SUBSET (1..Len(cmds))
    OBVIOUS
  <2>2. PICK i \in s : \A j \in s : j <= i
    <3> DEFINE B == {b \in Nat : \A j \in s : j <= b}
    <3>1. Len(cmds) \in B /\ B \in SUBSET Nat
      BY <2>1
    <3>2. PICK b \in B : \A c \in B : b <= c
      <4> HIDE DEF B
      <4> QED BY <3>1, LeastNumber
    <3>3. b \in s
      <4> SUFFICES ASSUME b \notin s PROVE FALSE
        OBVIOUS
      <4>1. PICK j \in s : TRUE
        BY <1>2
      <4>2. b \in Nat /\ \A k \in s : k <= b /\ k # b /\ k \in Nat
        BY <2>1
      <4>3. b # 0 /\ b - 1 \in Nat /\ \A k \in s : k <= b - 1
        BY <2>1, <4>1, <4>2
      <4>4. b - 1 \in B
        BY <4>3
      <4> QED BY <3>2, <4>2, <4>4
    <3> QED BY <3>2, <3>3
  <2>3. LastButton(cmds, i)
    BY <2>1, <2>2 DEF LastButton
  <2> QED BY <2>3
<1> QED BY <1>1, <1>2

(* Taking one stream and then another is taking both together. *)
LEMMA HeldTwice ==
  ASSUME NEW a \in Seq(Commands), NEW b \in Seq(Commands), NEW down \in BOOLEAN
  PROVE  /\ HeldAfter(a \o b, down) = HeldAfter(b, HeldAfter(a, down))
         /\ a \o b \in Seq(Commands) /\ HeldAfter(a, down) \in BOOLEAN
<1> DEFINE c == a \o b
<1>1. /\ c \in Seq(Commands) /\ Len(c) = Len(a) + Len(b) /\ Len(a) \in Nat /\ Len(b) \in Nat
      /\ \A i \in 1..Len(c) : c[i] = IF i <= Len(a) THEN a[i] ELSE b[i - Len(a)]
  OBVIOUS
<1>2. HeldAfter(a, down) \in BOOLEAN
  BY FoldedType
<1> HIDE DEF c
<1>3. CASE \E i : LastButton(b, i)
  <2>1. PICK i : LastButton(b, i)
    BY <1>3
  <2>2. i \in 1..Len(b) /\ Len(a) + i \in 1..Len(c) /\ c[Len(a) + i] = b[i]
    BY <1>1, <2>1 DEF LastButton
  <2>3. LastButton(c, Len(a) + i)
    <3>1. ASSUME NEW j \in 1..Len(c), j > Len(a) + i PROVE c[j] \notin ButtonCommands
      <4>1. j - Len(a) \in 1..Len(b) /\ j - Len(a) > i /\ ~(j <= Len(a))
        BY <1>1, <2>2, <3>1
      <4>2. c[j] = b[j - Len(a)]
        BY <1>1, <4>1
      <4> QED BY <2>1, <4>1, <4>2 DEF LastButton
    <3>2. c[Len(a) + i] \in ButtonCommands
      BY <2>1, <2>2 DEF LastButton
    <3> QED BY <2>2, <3>1, <3>2 DEF LastButton
  <2>4. HeldAfter(c, down) = (b[i] = "Down") /\ HeldAfter(b, HeldAfter(a, down)) = (b[i] = "Down")
    BY <1>1, <1>2, <2>1, <2>2, <2>3, ButtonAfter
  <2> QED BY <1>1, <1>2, <2>4 DEF c
<1>4. CASE NoButton(b)
  <2>1. HeldAfter(b, HeldAfter(a, down)) = HeldAfter(a, down)
    BY <1>2, <1>4, ButtonAfter
  <2>2. CASE NoButton(a)
    <3>1. NoButton(c)
      BY <1>1, <1>4, <2>2 DEF NoButton
    <3> QED BY <1>1, <1>2, <2>1, <2>2, <3>1, ButtonAfter DEF c
  <2>3. CASE \E i : LastButton(a, i)
    <3>1. PICK i : LastButton(a, i)
      BY <2>3
    <3>2. LastButton(c, i) /\ c[i] = a[i]
      <4>1. i \in 1..Len(c) /\ i \in 1..Len(a) /\ c[i] = a[i] /\ a[i] \in ButtonCommands
        BY <1>1, <3>1 DEF LastButton
      <4>2. ASSUME NEW j \in 1..Len(c), j > i PROVE c[j] \notin ButtonCommands
        <5>1. CASE j <= Len(a)
          <6>1. j \in 1..Len(a)
            BY <1>1, <4>2, <5>1
          <6>2. c[j] = a[j]
            BY <1>1, <5>1
          <6> QED BY <3>1, <4>2, <6>1, <6>2 DEF LastButton
        <5>2. CASE ~(j <= Len(a))
          <6>1. j - Len(a) \in 1..Len(b) /\ c[j] = b[j - Len(a)]
            BY <1>1, <5>2
          <6> QED BY <1>4, <6>1 DEF NoButton
        <5> QED BY <5>1, <5>2
      <4> QED BY <4>1, <4>2 DEF LastButton
    <3>3. HeldAfter(c, down) = (a[i] = "Down") /\ HeldAfter(a, down) = (a[i] = "Down")
      BY <1>1, <3>1, <3>2, ButtonAfter
    <3> QED BY <1>1, <1>2, <2>1, <3>3 DEF c
  <2> QED BY <2>2, <2>3, SomeLastButton
<1> QED BY <1>3, <1>4, SomeLastButton

(* One command more. *)
LEMMA HeldOneMore ==
  ASSUME NEW a \in Seq(Commands), NEW c \in Commands, NEW down \in BOOLEAN
  PROVE  /\ c \in ButtonCommands => HeldAfter(Append(a, c), down) = (c = "Down")
         /\ c \notin ButtonCommands => HeldAfter(Append(a, c), down) = HeldAfter(a, down)
<1> DEFINE one == <<c>>
<1>1. one \in Seq(Commands) /\ Len(one) = 1 /\ one[1] = c /\ Append(a, c) = a \o one
  OBVIOUS
<1> HIDE DEF one
<1>2. HeldAfter(a, down) \in BOOLEAN /\ HeldAfter(Append(a, c), down) = HeldAfter(one, HeldAfter(a, down))
  BY <1>1, HeldTwice
<1>3. ASSUME c \in ButtonCommands PROVE HeldAfter(Append(a, c), down) = (c = "Down")
  <2>1. LastButton(one, 1)
    BY <1>1, <1>3 DEF LastButton
  <2>2. HeldAfter(one, HeldAfter(a, down)) = (one[1] = "Down")
    BY <1>1, <1>2, <2>1, ButtonAfter
  <2>3. HeldAfter(Append(a, c), down) = (one[1] = "Down")
    BY <1>2, <2>2, Zenon
  <2> QED BY <1>1, <2>3, Zenon
<1>4. ASSUME c \notin ButtonCommands PROVE HeldAfter(Append(a, c), down) = HeldAfter(a, down)
  <2>1. NoButton(one)
    BY <1>1, <1>4 DEF NoButton
  <2> QED BY <1>1, <1>2, <2>1, ButtonAfter
<1> QED BY <1>3, <1>4

-------------------------------------------------------------------------------
(* The terminal: what a hand holds and what its run holds. *)

(* A seat's own commands are picked one at a time. *)
LEMMA MineThrough ==
  ASSUME NEW r \in Role, NEW cmds \in Seq(Commands)
  PROVE  \E h \in [0..Len(cmds) -> Seq(Commands)] :
           /\ h[0] = <<>>
           /\ \A k \in 0..(Len(cmds) - 1) : h[k + 1] = (IF r \in SeatFor(cmds[k + 1])
                                                           THEN Append(h[k], cmds[k + 1])
                                                           ELSE h[k])
           /\ Mine(r, cmds) = h[Len(cmds)]
<1> DEFINE n == Len(cmds)
           base == <<>>
           step == [e \in Seq(Commands) \X (1..n) |-> (IF r \in SeatFor(cmds[e[2]])
                                                          THEN Append(e[1], cmds[e[2]])
                                                          ELSE e[1])]
           Recurs(f) == f = [s \in SUBSET (1..n) |->
                               IF s = {} THEN base ELSE (IF r \in SeatFor(cmds[Max(s)])
                                                            THEN Append(f[s \ {Max(s)}], cmds[Max(s)])
                                                            ELSE f[s \ {Max(s)}])]
<1>1. n \in Nat /\ DOMAIN cmds = 1..n
  OBVIOUS
<1>2. base \in Seq(Commands)
  OBVIOUS
<1>3. \A a \in Seq(Commands), k \in 1..n : (IF r \in SeatFor(cmds[k])
                                               THEN Append(a, cmds[k])
                                               ELSE a) \in Seq(Commands)
  OBVIOUS
<1>4. /\ step \in [Seq(Commands) \X (1..n) -> Seq(Commands)]
      /\ \A a \in Seq(Commands), k \in 1..n : step[<<a, k>>] = (IF r \in SeatFor(cmds[k])
                                                                   THEN Append(a, cmds[k])
                                                                   ELSE a)
  BY <1>3
<1>5. Mine(r, cmds) = (CHOOSE f : Recurs(f))[1..n]
  BY <1>1 DEF Mine, FoldLeft, MapThenFoldSet
<1>6. PICK h, g : /\ Through(h, n, Seq(Commands), base, step)
                  /\ g \in [SUBSET (1..n) -> Seq(Commands)] /\ Folding(g, n, base, step)
  BY <1>1, <1>2, <1>4, FoldThrough
<1>7. Recurs(g)
  <2>1. ASSUME NEW s \in SUBSET (1..n), s # {}
        PROVE  step[<<g[s \ {Max(s)}], Max(s)>>] = (IF r \in SeatFor(cmds[Max(s)])
                                                       THEN Append(g[s \ {Max(s)}], cmds[Max(s)])
                                                       ELSE g[s \ {Max(s)}])
    <3>1. Max(s) \in 1..n /\ g[s \ {Max(s)}] \in Seq(Commands)
      BY <1>1, <1>6, <2>1, MaxIsIn
    <3> QED BY <1>4, <3>1
  <2> HIDE DEF step
  <2> QED BY <1>6, <2>1 DEF Folding
<1>8. PICK f : Recurs(f) /\ Mine(r, cmds) = f[1..n]
  BY <1>5, <1>7
<1>9. GoesOn(f, n, Seq(Commands), base, step)
  <2>1. f[{}] = base
    BY <1>8
  <2>2. ASSUME NEW k \in 0..(n - 1), f[1..k] \in Seq(Commands) PROVE f[1..(k + 1)] = step[<<f[1..k], k + 1>>]
    <3> DEFINE t == 1..(k + 1)
    <3>1. k \in Nat /\ k + 1 \in 1..n /\ t \in SUBSET (1..n)
      BY <1>1
    <3>2. t # {} /\ Max(t) = k + 1 /\ t \ {k + 1} = 1..k
      BY <3>1, MaxUpto
    <3> HIDE DEF t
    <3>3. f[t] = (IF r \in SeatFor(cmds[Max(t)]) THEN Append(f[t \ {Max(t)}], cmds[Max(t)]) ELSE f[t \ {Max(t)}])
      BY <1>8, <3>1, <3>2
    <3>4. f[t] = (IF r \in SeatFor(cmds[k + 1]) THEN Append(f[1..k], cmds[k + 1]) ELSE f[1..k])
      BY <3>2, <3>3
    <3> HIDE DEF step
    <3> QED BY <1>4, <2>2, <3>1, <3>4 DEF t
  <2> HIDE DEF step
  <2> QED BY <2>1, <2>2 DEF GoesOn
<1>10. Mine(r, cmds) = h[n]
  <2> HIDE DEF step, base, n, Recurs
  <2>1. f[1..n] = h[n]
    BY <1>1, <1>6, <1>9, FoldUnique
  <2> QED BY <1>8, <2>1
<1>11. \A k \in 0..(n - 1) : h[k + 1] = (IF r \in SeatFor(cmds[k + 1]) THEN Append(h[k], cmds[k + 1]) ELSE h[k])
  <2> SUFFICES ASSUME NEW k \in 0..(n - 1)
               PROVE  h[k + 1] = (IF r \in SeatFor(cmds[k + 1]) THEN Append(h[k], cmds[k + 1]) ELSE h[k])
    OBVIOUS
  <2> HIDE DEF step, base
  <2>1. k \in 0..n /\ k + 1 \in 1..n
    BY <1>1
  <2>2. h[k] \in Seq(Commands)
    BY <1>6, <2>1 DEF Through
  <2> QED BY <1>4, <1>6, <2>1, <2>2 DEF Through
<1> QED BY <1>6, <1>10, <1>11 DEF Through

(* A sequence one longer has its elements and the one. *)
LEMMA OneAtTheEnd ==
  ASSUME NEW a \in Seq(Commands), NEW c \in Commands, NEW j \in 1..Len(Append(a, c))
  PROVE  (j \in 1..Len(a) /\ Append(a, c)[j] = a[j]) \/ Append(a, c)[j] = c
<1>1. Len(a) \in Nat /\ Len(Append(a, c)) = Len(a) + 1 /\ Append(a, c)[Len(a) + 1] = c
  OBVIOUS
<1>2. CASE j = Len(a) + 1
  BY <1>1, <1>2
<1>3. CASE j # Len(a) + 1
  <2>1. j \in 1..Len(a)
    BY <1>1, <1>3
  <2> QED BY <2>1
<1> QED BY <1>2, <1>3

(* They are commands of the stream, and the seat's. *)
LEMMA MineIs ==
  ASSUME NEW r \in Role, NEW cmds \in Seq(Commands)
  PROVE  /\ Mine(r, cmds) \in Seq(Commands)
         /\ \A j \in 1..Len(Mine(r, cmds)) :
              \E i \in 1..Len(cmds) : Mine(r, cmds)[j] = cmds[i] /\ r \in SeatFor(cmds[i])
<1> DEFINE n == Len(cmds)
<1>1. PICK h \in [0..n -> Seq(Commands)] :
         /\ h[0] = <<>>
         /\ \A k \in 0..(n - 1) : h[k + 1] = (IF r \in SeatFor(cmds[k + 1]) THEN Append(h[k], cmds[k + 1]) ELSE h[k])
         /\ Mine(r, cmds) = h[n]
  BY MineThrough
<1> DEFINE Good(s) == \A j \in 1..Len(s) : \E i \in 1..n : s[j] = cmds[i] /\ r \in SeatFor(cmds[i])
           D == {k \in 0..n : ~Good(h[k])}
<1>2. n \in Nat
  OBVIOUS
<1>3. Good(<<>>)
  OBVIOUS
<1>4. D = {}
  <2> SUFFICES ASSUME D # {} PROVE FALSE
    OBVIOUS
  <2>1. PICK k \in D : \A i \in D : k <= i
    <3>1. D \in SUBSET Nat
      BY <1>2
    <3> HIDE DEF D
    <3> QED BY <3>1, LeastNumber
  <2>2. k \in 0..n /\ ~Good(h[k])
    BY <2>1
  <2> HIDE DEF Good
  <2>3. k # 0
    BY <1>1, <1>3, <2>2
  <2>4. PICK m \in Nat : k = m + 1
    BY <1>2, <2>3, <2>2, Before
  <2>5. m \in 0..(n - 1) /\ m \in 0..n /\ m + 1 \in 1..n /\ m \notin D
    BY <1>2, <2>1, <2>4, <2>2
  <2>6. Good(h[m]) /\ h[m] \in Seq(Commands)
    <3>1. ~(m \in 0..n /\ ~Good(h[m]))
      BY <2>5
    <3> QED BY <2>5, <3>1
  <2>7. cmds[m + 1] \in Commands
    BY <1>2, <2>5, ElementOfSeq
  <2>8. CASE r \notin SeatFor(cmds[m + 1])
    <3>1. h[k] = h[m]
      BY <1>1, <2>4, <2>5, <2>8
    <3> QED BY <2>6, <2>2, <3>1
  <2>9. CASE r \in SeatFor(cmds[m + 1])
    <3>1. h[k] = Append(h[m], cmds[m + 1])
      BY <1>1, <2>4, <2>5, <2>9
    <3>2. ASSUME NEW j \in 1..Len(h[k])
          PROVE  \E i \in 1..n : h[k][j] = cmds[i] /\ r \in SeatFor(cmds[i])
      <4>1. (j \in 1..Len(h[m]) /\ h[k][j] = h[m][j]) \/ h[k][j] = cmds[m + 1]
        BY <2>6, <2>7, <3>1, OneAtTheEnd
      <4>2. CASE h[k][j] = cmds[m + 1]
        BY <2>5, <2>9, <4>2
      <4>3. CASE j \in 1..Len(h[m]) /\ h[k][j] = h[m][j]
        BY <2>6, <4>3 DEF Good
      <4> QED BY <4>1, <4>2, <4>3
    <3> QED BY <2>2, <3>2 DEF Good
  <2> QED BY <2>8, <2>9
<1>5. n \in 0..n /\ Good(h[n])
  <2>1. \A k \in 0..n : k \notin D => Good(h[k])
    OBVIOUS
  <2> HIDE DEF Good, D
  <2>2. n \in 0..n
    BY <1>2
  <2>3. n \notin D
    BY <1>4
  <2> QED BY <2>2, <2>3, <2>1
<1>6. h[n] \in Seq(Commands)
  BY <1>5
<1>7. Good(Mine(r, cmds))
  <2> HIDE DEF Good
  <2> QED BY <1>1, <1>5
<1> QED BY <1>1, <1>6, <1>7

(* The infiltrator's choice keeps every press and release. *)
LEMMA MineHolds ==
  ASSUME NEW cmds \in Seq(Commands), NEW down \in BOOLEAN
  PROVE  HeldAfter(Mine("infiltrator", cmds), down) = HeldAfter(cmds, down)
<1> DEFINE n == Len(cmds)
<1>1. PICK h \in [0..n -> Seq(Commands)] :
         /\ h[0] = <<>>
         /\ \A k \in 0..(n - 1) : h[k + 1] = (IF "infiltrator" \in SeatFor(cmds[k + 1])
                                                 THEN Append(h[k], cmds[k + 1])
                                                 ELSE h[k])
         /\ Mine("infiltrator", cmds) = h[n]
  BY MineThrough DEF Role
<1>2. PICK g \in [0..n -> Inputs] :
         /\ g[0] = [button |-> down, edges |-> <<>>, immediates |-> <<>>]
         /\ \A k \in 0..(n - 1) : g[k + 1] = FoldOne(g[k], cmds[k + 1])
         /\ FoldCommands(cmds, down) = g[n]
  BY CommandsThrough
<1> DEFINE D == {k \in 0..n : HeldAfter(h[k], down) # g[k].button}
<1>3. n \in Nat
  OBVIOUS
<1>4. D = {}
  <2> SUFFICES ASSUME D # {} PROVE FALSE
    OBVIOUS
  <2>1. PICK k \in D : \A i \in D : k <= i
    <3>1. D \in SUBSET Nat
      BY <1>3
    <3> HIDE DEF D
    <3> QED BY <3>1, LeastNumber
  <2>2. k # 0
    <3>1. <<>> \in Seq(Commands) /\ NoButton(<<>>)
      BY DEF NoButton
    <3>2. HeldAfter(h[0], down) = g[0].button
      <4>1. HeldAfter(<<>>, down) = down
        BY <3>1, ButtonAfter
      <4>2. h[0] = <<>> /\ g[0].button = down
        BY <1>1, <1>2
      <4> QED BY <4>1, <4>2
    <3> QED BY <2>1, <3>2
  <2>3. PICK m \in Nat : k = m + 1
    BY <1>3, <2>1, <2>2, Before
  <2>4. m \in 0..(n - 1) /\ m \in 0..n /\ m + 1 \in 1..n /\ m \notin D
    BY <1>3, <2>1, <2>3
  <2> DEFINE c == cmds[m + 1]
  <2>5. h[m] \in Seq(Commands) /\ g[m] \in Inputs
    BY <2>4
  <2>6. c \in Commands
    BY <1>3, <2>4, ElementOfSeq
  <2>7. /\ HeldAfter(h[m], down) = g[m].button
        /\ g[k] = FoldOne(g[m], c)
        /\ h[k] = IF "infiltrator" \in SeatFor(c) THEN Append(h[m], c) ELSE h[m]
        /\ HeldAfter(h[k], down) # g[k].button
    BY <1>1, <1>2, <2>1, <2>3, <2>4
  <2> HIDE DEF c, D
  <2>8. CASE c \in ButtonCommands
    <3>1. "infiltrator" \in SeatFor(c)
      BY <2>8 DEF SeatFor, ButtonCommands, EdgeCommands
    <3>2. h[k] = Append(h[m], c)
      BY <2>7, <3>1
    <3>3. HeldAfter(Append(h[m], c), down) = (c = "Down")
      BY <2>5, <2>6, <2>8, HeldOneMore
    <3>4. FoldOne(g[m], c).button = (c = "Down")
      BY <2>5, <2>6, <2>8, FoldOneButton
    <3> QED BY <2>7, <3>2, <3>3, <3>4, Zenon
  <2>9. CASE c \notin ButtonCommands
    <3>1. FoldOne(g[m], c).button = g[m].button
      BY <2>5, <2>6, <2>9, FoldOneButton
    <3>2. HeldAfter(Append(h[m], c), down) = HeldAfter(h[m], down)
      BY <2>5, <2>6, <2>9, HeldOneMore
    <3>3. HeldAfter(h[k], down) = HeldAfter(h[m], down)
      BY <2>7, <3>2
    <3> QED BY <2>7, <3>1, <3>3
  <2> QED BY <2>8, <2>9
<1>5. n \in 0..n /\ HeldAfter(h[n], down) = g[n].button
  BY <1>3, <1>4
<1> QED BY <1>1, <1>2, <1>5 DEF HeldAfter

Edges == {"Jump"}
Immediates == {"Uplink", "Pause", "Resume", "Restart"}
InputStates ==
  [held : BOOLEAN, left : 0..FallbackHold, edges : Seq(Edges), immediates : Seq(Immediates), paused : BOOLEAN]

FeedTypeOK ==
  /\ enhanced \in [Role -> BOOLEAN] /\ finger \in [Role -> BOOLEAN]
  /\ input \in [Role -> InputStates]
  /\ sent \in [Role -> BOOLEAN] /\ quiet \in [Role -> 0..FallbackHold]
  /\ run.held \in BOOLEAN /\ orphaned \in BOOLEAN

(* A hold without releases has as much left as the presses have been quiet     *)
(* for less; one with releases is the finger's.                              *)
Holding(i, full, down, since) ==
  /\ full => i.held = down /\ i.left = 0
  /\ ~full =>
       /\ i.held <=> i.left > 0
       /\ down \/ i.held => i.left + since = FallbackHold

FeedInv ==
  /\ FeedTypeOK /\ ButtonFollowsTheHand
  /\ \A r \in Role : Holding(input[r], enhanced[r], finger[r], quiet[r])

(* What a sample sends, and what the run's button makes of it. *)
LEMMA SampleIs ==
  ASSUME NEW i \in InputStates, NEW base \in BOOLEAN
  PROVE  /\ Sampled(i, base).out \in Seq(Commands)
         /\ Sampled(i, base).input \in InputStates
         /\ Sampled(i, base).input.held = i.held /\ Sampled(i, base).input.left = i.left
         /\ i.held = base => NoButton(Sampled(i, base).out)
         /\ \A down \in BOOLEAN :
              HeldAfter(Sampled(i, base).out, down) = IF i.held = base THEN down ELSE i.held
<1> DEFINE diff == IF i.held = base THEN <<>> ELSE <<IF i.held THEN "Down" ELSE "Up">>
           rest == i.edges \o i.immediates
<1>1. i.edges \in Seq(Edges) /\ i.immediates \in Seq(Immediates) /\ i.held \in BOOLEAN
  BY DEF InputStates
<1>2. i.edges \in Seq(Commands) /\ i.immediates \in Seq(Commands)
  BY <1>1 DEF Edges, Immediates, Commands, ButtonCommands, EdgeCommands
<1>3. rest \in Seq(Commands) /\ NoButton(rest)
  <2>1. rest \in Seq(Commands)
    BY <1>2
  <2>2. ASSUME NEW j \in 1..Len(rest) PROVE rest[j] \notin ButtonCommands
    <3>1. i.edges \in Seq(Edges \cup Immediates) /\ i.immediates \in Seq(Edges \cup Immediates)
      BY <1>1 DEF Edges, Immediates
    <3>2. rest \in Seq(Edges \cup Immediates)
      BY <3>1
    <3> HIDE DEF rest
    <3>3. rest[j] \in Edges \cup Immediates
      BY <3>2, ElementOfSeq
    <3> QED BY <3>3 DEF Edges, Immediates, ButtonCommands
  <2> QED BY <2>1, <2>2 DEF NoButton
<1>4. diff \in Seq(Commands)
  <2>1. "Down" \in Commands /\ "Up" \in Commands
    BY DEF Commands, ButtonCommands
  <2>2. <<"Down">> \in Seq(Commands) /\ <<"Up">> \in Seq(Commands) /\ <<>> \in Seq(Commands)
    BY <2>1
  <2>3. diff = <<>> \/ diff = <<"Down">> \/ diff = <<"Up">>
    BY Zenon
  <2> HIDE DEF diff
  <2> QED BY <2>2, <2>3
<1>5. Sampled(i, base).out = diff \o rest
  <2>1. \A a, b, c \in Seq(Commands) : (a \o b) \o c = a \o (b \o c)
    OBVIOUS
  <2>2. Sampled(i, base).out = (diff \o i.edges) \o i.immediates
    BY Zenon DEF Sampled
  <2> HIDE DEF diff
  <2>3. (diff \o i.edges) \o i.immediates = diff \o (i.edges \o i.immediates)
    BY <1>2, <1>4, <2>1
  <2> QED BY <2>2, <2>3
<1>6. /\ Sampled(i, base).input \in InputStates
      /\ Sampled(i, base).input.held = i.held /\ Sampled(i, base).input.left = i.left
  <2> DEFINE x == [i EXCEPT !.edges = <<>>, !.immediates = <<>>]
  <2>1. Sampled(i, base).input = x
    BY Zenon DEF Sampled
  <2>2. <<>> \in Seq(Edges) /\ <<>> \in Seq(Immediates)
    OBVIOUS
  <2>3. x \in InputStates /\ x.held = i.held /\ x.left = i.left
    BY <2>2 DEF InputStates
  <2> HIDE DEF x
  <2> QED BY <2>1, <2>3
<1>7. ASSUME NEW down \in BOOLEAN
      PROVE  HeldAfter(diff \o rest, down) = IF i.held = base THEN down ELSE i.held
  <2>1. /\ HeldAfter(diff \o rest, down) = HeldAfter(rest, HeldAfter(diff, down))
        /\ HeldAfter(diff, down) \in BOOLEAN
    <3> HIDE DEF diff, rest
    <3> QED BY <1>3, <1>4, HeldTwice
  <2>2. HeldAfter(diff \o rest, down) = HeldAfter(diff, down)
    BY <1>3, <2>1, ButtonAfter
  <2>3. CASE i.held = base
    <3>1. diff = <<>> /\ NoButton(diff)
      BY <2>3 DEF NoButton
    <3> QED BY <1>4, <2>2, <2>3, <3>1, ButtonAfter
  <2>4. CASE i.held # base
    <3>1. Len(diff) = 1 /\ diff[1] = (IF i.held THEN "Down" ELSE "Up")
      BY <2>4
    <3>2. LastButton(diff, 1)
      BY <3>1 DEF LastButton, ButtonCommands
    <3>3. HeldAfter(diff, down) = (diff[1] = "Down")
      BY <1>4, <3>2, ButtonAfter
    <3>4. HeldAfter(diff, down) = i.held
      <4>1. CASE i.held = TRUE
        BY <3>1, <3>3, <4>1
      <4>2. CASE i.held = FALSE
        BY <3>1, <3>3, <4>2
      <4> QED BY <1>1, <4>1, <4>2
    <3> QED BY <2>2, <2>4, <3>4
  <2> QED BY <2>3, <2>4
<1>8. ASSUME i.held = base PROVE NoButton(diff \o rest)
  <2>1. diff \o rest = rest
    BY <1>3, <1>8
  <2> QED BY <1>3, <2>1
<1>9. diff \o rest \in Seq(Commands)
  BY <1>3, <1>4
<1> HIDE DEF diff, rest
<1> QED BY <1>5, <1>6, <1>7, <1>8, <1>9

(* The held button and what is left of it, replaced together. *)
LEMMA WithHold ==
  ASSUME NEW i \in InputStates, NEW n \in 0..FallbackHold, NEW b \in BOOLEAN
  PROVE  /\ [i EXCEPT !.left = n, !.held = b] \in InputStates
         /\ [i EXCEPT !.left = n, !.held = b].left = n
         /\ [i EXCEPT !.held = b, !.left = n] = [i EXCEPT !.left = n, !.held = b]
<1>1. [i EXCEPT !.left = n, !.held = b] \in InputStates
  BY DEF InputStates
<1>2. [i EXCEPT !.left = n, !.held = b].left = n
  BY Zenon DEF InputStates
<1>3. [i EXCEPT !.held = b, !.left = n] = [i EXCEPT !.left = n, !.held = b]
  BY DEF InputStates
<1> QED BY <1>1, <1>2, <1>3

(* A sample lets a hold run down by one. *)
LEMMA DecayHolds ==
  ASSUME NEW i \in InputStates, NEW full \in BOOLEAN, NEW down \in BOOLEAN, NEW since \in 0..FallbackHold,
         Holding(i, full, down, since)
  PROVE  /\ Decayed(i, full) \in InputStates
         /\ Holding(Decayed(i, full), full, down, IF since < FallbackHold THEN since + 1 ELSE since)
<1>1. i.held \in BOOLEAN /\ i.left \in 0..FallbackHold /\ FallbackHold \in Nat
  BY TerminalAssumption DEF InputStates
<1>2. CASE full \/ i.left = 0
  <2>1. Decayed(i, full) = i
    BY <1>2 DEF Decayed
  <2>2. CASE full
    BY <2>1, <2>2 DEF Holding
  <2>3. CASE ~full
    <3>1. i.left = 0 /\ ~i.held /\ (down => since = FallbackHold)
      BY <1>1, <1>2, <2>3 DEF Holding
    <3> QED BY <1>1, <2>1, <2>3, <3>1 DEF Holding
  <2> QED BY <2>2, <2>3
<1>3. CASE ~full /\ i.left # 0
  <2>1. i.held /\ i.left + since = FallbackHold
    <3>1. i.left > 0 /\ i.held
      BY <1>1, <1>3 DEF Holding
    <3> QED BY <1>3, <3>1 DEF Holding
  <2>2. PICK n \in 0..FallbackHold, b \in BOOLEAN : n = i.left - 1 /\ b = (i.held /\ i.left > 1)
    <3>1. i.left - 1 \in 0..FallbackHold /\ (i.held /\ i.left > 1) \in BOOLEAN
      BY <1>1, <1>3
    <3> QED BY <3>1, Zenon
  <2>3. Decayed(i, full) = [i EXCEPT !.left = n, !.held = b]
    BY <1>3, <2>2, Zenon DEF Decayed
  <2>4. PICK d \in InputStates : Decayed(i, full) = d /\ d.left = n /\ d.held = b
    <3>1. [i EXCEPT !.left = n, !.held = b].held = b
      BY Zenon DEF InputStates
    <3>2. [i EXCEPT !.left = n, !.held = b] \in InputStates /\ [i EXCEPT !.left = n, !.held = b].left = n
      BY WithHold, Zenon
    <3> QED BY <2>3, <3>1, <3>2, Zenon
  <2>5. since < FallbackHold /\ n + (since + 1) = FallbackHold /\ (b <=> n > 0)
    <3>1. since < FallbackHold /\ n + (since + 1) = FallbackHold /\ (i.left > 1 <=> n > 0)
      BY <1>1, <1>3, <2>1, <2>2
    <3>2. b <=> i.left > 1
      BY <2>1, <2>2, Zenon
    <3> QED BY <3>1, <3>2
  <2>6. d.left + (since + 1) = FallbackHold /\ (d.held <=> d.left > 0)
    BY <2>4, <2>5
  <2> QED BY <1>3, <2>4, <2>5, <2>6 DEF Holding
<1> QED BY <1>2, <1>3

(* The hacker's terminal sends no button. *)
LEMMA HackerPressesNothing ==
  ASSUME NEW cmds \in Seq(Commands)
  PROVE  NoButton(Mine("hacker", cmds))
<1>1. \A c \in ButtonCommands : "hacker" \notin SeatFor(c)
  BY DEF SeatFor, ButtonCommands, EdgeCommands
<1>2. "hacker" \in Role
  BY DEF Role
<1>3. \A j \in 1..Len(Mine("hacker", cmds)) :
        \E i \in 1..Len(cmds) : Mine("hacker", cmds)[j] = cmds[i] /\ "hacker" \in SeatFor(cmds[i])
  BY <1>2, MineIs
<1> QED BY <1>1, <1>3 DEF NoButton

(* A press holds a fallback's length, a release lets go. *)
LEMMA SetHolds ==
  ASSUME NEW i \in InputStates, NEW full \in BOOLEAN, NEW down \in BOOLEAN, full \/ down,
         full => i.left = 0
  PROVE  /\ SetHeld(i, full, down) \in InputStates
         /\ Holding(SetHeld(i, full, down), full, down, 0)
<1>1. FallbackHold \in Nat \ {0} /\ i.left \in 0..FallbackHold
  BY TerminalAssumption DEF InputStates
<1>2. PICK hold \in 0..FallbackHold :
         /\ hold = (CASE full -> i.left [] ~full /\ down -> FallbackHold [] OTHER -> 0)
         /\ hold = (IF full THEN 0 ELSE FallbackHold)
  BY <1>1
<1>3. SetHeld(i, full, down) = [i EXCEPT !.held = down, !.left = hold]
  BY <1>2, Zenon DEF SetHeld
<1>4. /\ SetHeld(i, full, down) \in InputStates
      /\ SetHeld(i, full, down).held = down /\ SetHeld(i, full, down).left = hold
  <2>1. SetHeld(i, full, down) = [i EXCEPT !.left = hold, !.held = down]
    BY <1>3, WithHold, Zenon
  <2>2. [i EXCEPT !.left = hold, !.held = down].held = down
    BY Zenon DEF InputStates
  <2>3. [i EXCEPT !.left = hold, !.held = down] \in InputStates /\ [i EXCEPT !.left = hold, !.held = down].left = hold
    BY WithHold, Zenon
  <2> QED BY <2>1, <2>2, <2>3, Zenon
<1>5. CASE full
  <2>1. hold = 0
    BY <1>2, <1>5
  <2> QED BY <1>4, <1>5, <2>1 DEF Holding
<1>6. CASE ~full
  <2>1. SetHeld(i, full, down).held = TRUE /\ SetHeld(i, full, down).left = FallbackHold /\ down
    BY <1>2, <1>4, <1>6
  <2>2. FallbackHold > 0 /\ FallbackHold + 0 = FallbackHold
    BY <1>1
  <2>3. Holding(SetHeld(i, full, down), full, down, 0)
    BY <1>6, <2>1, <2>2 DEF Holding
  <2> QED BY <1>4, <2>3
<1> QED BY <1>5, <1>6

(* Before the first frame no key is down and every seat's input is fresh.  *)
LEMMA FeedInitOK == FeedInit => FeedInv
<1> SUFFICES ASSUME FeedInit PROVE FeedInv
  OBVIOUS
<1>1. FallbackHold \in Nat \ {0}
  BY TerminalAssumption
<1>2. FreshInput \in InputStates /\ FreshInput.held = FALSE /\ FreshInput.left = 0
  <2>1. <<>> \in Seq(Edges) /\ <<>> \in Seq(Immediates)
    OBVIOUS
  <2> QED BY <1>1, <2>1 DEF FreshInput, InputStates
<1>3. FeedTypeOK
  <2>1. 0 \in 0..FallbackHold
    BY <1>1
  <2>2. run.held = FALSE
    BY DEF FeedInit
  <2> QED BY <1>2, <2>1, <2>2 DEF FeedInit, FeedTypeOK
<1>4. ButtonFollowsTheHand
  <2>1. run.held = FALSE /\ sent["infiltrator"] = FALSE /\ sent["hacker"] = FALSE
    BY DEF FeedInit, Role
  <2> QED BY <2>1, Zenon DEF ButtonFollowsTheHand
<1>5. ASSUME NEW r \in Role PROVE Holding(input[r], enhanced[r], finger[r], quiet[r])
  <2>1. input[r] = FreshInput /\ finger[r] = FALSE
    BY DEF FeedInit
  <2>2. ~(0 > 0)
    OBVIOUS
  <2> QED BY <1>2, <2>1, <2>2, Zenon DEF Holding
<1> QED BY <1>3, <1>4, <1>5 DEF FeedInv

(* What becomes of one seat's keyboard leaves the other's alone. *)
LEMMA OneKeyboard ==
  ASSUME FeedInv, NEW r \in Role, NEW i \in InputStates, NEW down \in BOOLEAN, NEW since \in 0..FallbackHold,
         input' = [input EXCEPT ![r] = i], finger' = [finger EXCEPT ![r] = down],
         quiet' = [quiet EXCEPT ![r] = since], enhanced' = enhanced,
         Holding(i, enhanced[r], down, since)
  PROVE  /\ enhanced' \in [Role -> BOOLEAN] /\ finger' \in [Role -> BOOLEAN]
         /\ input' \in [Role -> InputStates] /\ quiet' \in [Role -> 0..FallbackHold]
         /\ \A s \in Role : Holding(input'[s], enhanced'[s], finger'[s], quiet'[s])
<1>1. /\ enhanced \in [Role -> BOOLEAN] /\ finger \in [Role -> BOOLEAN]
      /\ input \in [Role -> InputStates] /\ quiet \in [Role -> 0..FallbackHold]
      /\ \A s \in Role : Holding(input[s], enhanced[s], finger[s], quiet[s])
  BY DEF FeedInv, FeedTypeOK
<1>2. ASSUME NEW s \in Role PROVE Holding(input'[s], enhanced'[s], finger'[s], quiet'[s])
  <2>1. CASE s = r
    <3>1. input'[s] = i /\ finger'[s] = down /\ quiet'[s] = since
      BY <1>1, <2>1
    <3> QED BY <2>1, <3>1
  <2>2. CASE s # r
    <3>1. input'[s] = input[s] /\ finger'[s] = finger[s] /\ quiet'[s] = quiet[s]
      BY <1>1, <2>2
    <3> QED BY <1>1, <3>1
  <2> QED BY <2>1, <2>2
<1>3. /\ enhanced' \in [Role -> BOOLEAN] /\ finger' \in [Role -> BOOLEAN]
      /\ input' \in [Role -> InputStates] /\ quiet' \in [Role -> 0..FallbackHold]
  BY <1>1
<1> QED BY <1>2, <1>3

(* What is queued beside the button does not touch a hold. *)
LEMMA QueuedHolds ==
  ASSUME NEW i \in InputStates, NEW j \in InputStates, j.held = i.held, j.left = i.left,
         NEW full \in BOOLEAN, NEW down \in BOOLEAN, NEW since \in 0..FallbackHold, Holding(i, full, down, since)
  PROVE  Holding(j, full, down, since)
BY Zenon DEF Holding

(* What one seat's keyboard is, and the button's facts. *)
LEMMA KeyboardIs ==
  ASSUME FeedInv, NEW r \in Role
  PROVE  /\ input[r] \in InputStates /\ enhanced[r] \in BOOLEAN /\ finger[r] \in BOOLEAN
         /\ quiet[r] \in 0..FallbackHold /\ sent[r] \in BOOLEAN
         /\ Holding(input[r], enhanced[r], finger[r], quiet[r])
         /\ finger = [finger EXCEPT ![r] = finger[r]] /\ quiet = [quiet EXCEPT ![r] = quiet[r]]
         /\ input = [input EXCEPT ![r] = input[r]]
         /\ run.held \in BOOLEAN /\ orphaned \in BOOLEAN /\ sent \in [Role -> BOOLEAN]
         /\ ButtonFollowsTheHand
BY DEF FeedInv, FeedTypeOK

(* A step that moves only keyboards. *)
LEMMA KeyboardStep ==
  ASSUME FeedInv, NEW r \in Role, NEW i \in InputStates, NEW down \in BOOLEAN, NEW since \in 0..FallbackHold,
         input' = [input EXCEPT ![r] = i], finger' = [finger EXCEPT ![r] = down],
         quiet' = [quiet EXCEPT ![r] = since], UNCHANGED <<enhanced, sent, run, orphaned>>,
         Holding(i, enhanced[r], down, since)
  PROVE  FeedInv'
<1>1. /\ enhanced' \in [Role -> BOOLEAN] /\ finger' \in [Role -> BOOLEAN]
      /\ input' \in [Role -> InputStates] /\ quiet' \in [Role -> 0..FallbackHold]
      /\ \A s \in Role : Holding(input'[s], enhanced'[s], finger'[s], quiet'[s])
  BY OneKeyboard
<1>2. ButtonFollowsTheHand'
  BY KeyboardIs DEF ButtonFollowsTheHand
<1>3. sent' \in [Role -> BOOLEAN] /\ run.held' \in BOOLEAN /\ orphaned' \in BOOLEAN
  BY KeyboardIs
<1> QED BY <1>1, <1>2, <1>3 DEF FeedInv, FeedTypeOK

(* A press sets the key down and starts the hold over.                     *)
LEMMA PressKeyOK == ASSUME FeedInv, NEW r \in Role, PressKey(r) PROVE FeedInv'
<1> DEFINE i == SetHeld(input[r], enhanced[r], TRUE)
<1>1. input[r] \in InputStates /\ enhanced[r] \in BOOLEAN /\ (enhanced[r] => input[r].left = 0)
  BY KeyboardIs DEF Holding
<1>2. i \in InputStates /\ Holding(i, enhanced[r], TRUE, 0) /\ 0 \in 0..FallbackHold
  <2>1. TRUE \in BOOLEAN /\ 0 \in 0..FallbackHold
    BY TerminalAssumption
  <2> QED BY <1>1, <2>1, SetHolds
<1>3. /\ input' = [input EXCEPT ![r] = i] /\ finger' = [finger EXCEPT ![r] = TRUE]
      /\ quiet' = [quiet EXCEPT ![r] = 0] /\ UNCHANGED <<enhanced, sent, run, orphaned>>
  BY DEF PressKey
<1> HIDE DEF i
<1> QED BY <1>2, <1>3, KeyboardStep

(* A release lifts the finger; only an enhanced terminal tells it.         *)
LEMMA ReleaseKeyOK == ASSUME FeedInv, NEW r \in Role, ReleaseKey(r) PROVE FeedInv'
<1>1. /\ finger[r] /\ finger' = [finger EXCEPT ![r] = FALSE]
      /\ quiet' = [quiet EXCEPT ![r] = quiet[r]] /\ UNCHANGED <<enhanced, sent, run, orphaned>>
  BY KeyboardIs DEF ReleaseKey
<1>2. /\ input[r] \in InputStates /\ enhanced[r] \in BOOLEAN /\ quiet[r] \in 0..FallbackHold
      /\ Holding(input[r], enhanced[r], finger[r], quiet[r])
  BY KeyboardIs
<1>3. CASE enhanced[r]
  <2> DEFINE i == SetHeld(input[r], TRUE, FALSE)
  <2>1. input[r].left = 0
    BY <1>2, <1>3 DEF Holding
  <2>2. i \in InputStates /\ Holding(i, TRUE, FALSE, 0)
    BY <1>2, <2>1, SetHolds
  <2>3. input' = [input EXCEPT ![r] = i]
    BY <1>3 DEF ReleaseKey
  <2> HIDE DEF i
  <2>4. Holding(i, enhanced[r], FALSE, quiet[r])
    BY <1>3, <2>2 DEF Holding
  <2> QED BY <1>1, <1>2, <2>2, <2>3, <2>4, KeyboardStep
<1>4. CASE ~enhanced[r]
  <2>1. input' = [input EXCEPT ![r] = input[r]]
    BY <1>4, KeyboardIs DEF ReleaseKey
  <2>2. Holding(input[r], enhanced[r], FALSE, quiet[r])
    BY <1>2, <1>4 DEF Holding
  <2> QED BY <1>1, <1>2, <2>1, <2>2, KeyboardStep
<1> QED BY <1>2, <1>3, <1>4

(* A step that only queues. *)
LEMMA QueueStep ==
  ASSUME FeedInv, NEW r \in Role, NEW i \in InputStates, i.held = input[r].held, i.left = input[r].left,
         input' = [input EXCEPT ![r] = i], UNCHANGED <<enhanced, finger, sent, quiet, run, orphaned>>
  PROVE  FeedInv'
<1>1. Holding(i, enhanced[r], finger[r], quiet[r])
  BY KeyboardIs, QueuedHolds
<1>2. finger' = [finger EXCEPT ![r] = finger[r]] /\ quiet' = [quiet EXCEPT ![r] = quiet[r]]
  BY KeyboardIs
<1>3. finger[r] \in BOOLEAN /\ quiet[r] \in 0..FallbackHold
  BY KeyboardIs
<1> QED BY <1>1, <1>2, <1>3, KeyboardStep

(* A tap queues one command and moves no hold.                             *)
LEMMA TapKeyOK == ASSUME FeedInv, NEW r \in Role, NEW c \in {"Jump", "Uplink"}, TapKey(r, c) PROVE FeedInv'
<1>1. PICK x \in InputStates : x = input[r]
  BY KeyboardIs
<1>2. x.edges \in Seq(Edges) /\ x.immediates \in Seq(Immediates)
  BY DEF InputStates
<1>3. /\ UNCHANGED <<enhanced, finger, sent, quiet, run, orphaned>>
      /\ input' = IF c = "Jump" THEN [input EXCEPT ![r].edges = Append(@, c)]
                  ELSE [input EXCEPT ![r].immediates = Append(@, c)]
  BY DEF TapKey
<1>4. CASE c = "Jump"
  <2>1. PICK e \in Seq(Edges) : e = Append(x.edges, c)
    <3>1. Append(x.edges, c) \in Seq(Edges)
      BY <1>2, <1>4 DEF Edges
    <3> QED BY <3>1, Zenon
  <2>2. input' = [input EXCEPT ![r] = [x EXCEPT !.edges = e]]
    BY <1>1, <1>3, <1>4, <2>1, Zenon
  <2>3. /\ [x EXCEPT !.edges = e] \in InputStates
        /\ [x EXCEPT !.edges = e].held = x.held /\ [x EXCEPT !.edges = e].left = x.left
    BY DEF InputStates
  <2> QED BY <1>1, <1>3, <2>2, <2>3, QueueStep
<1>5. CASE c = "Uplink"
  <2>1. PICK m \in Seq(Immediates) : m = Append(x.immediates, c)
    <3>1. Append(x.immediates, c) \in Seq(Immediates)
      BY <1>2, <1>5 DEF Immediates
    <3> QED BY <3>1, Zenon
  <2>2. input' = [input EXCEPT ![r] = [x EXCEPT !.immediates = m]]
    BY <1>1, <1>3, <1>5, <2>1, Zenon
  <2>3. /\ [x EXCEPT !.immediates = m] \in InputStates
        /\ [x EXCEPT !.immediates = m].held = x.held /\ [x EXCEPT !.immediates = m].left = x.left
    BY DEF InputStates
  <2> QED BY <1>1, <1>3, <2>2, <2>3, QueueStep
<1> QED BY <1>4, <1>5

(* The pause latch and a session command, queued together. *)
LEMMA LatchStep ==
  ASSUME FeedInv, NEW r \in Role, NEW p \in BOOLEAN, NEW c \in Immediates,
         input' = [input EXCEPT ![r].paused = p, ![r].immediates = Append(@, c)],
         UNCHANGED <<enhanced, finger, sent, quiet, run, orphaned>>
  PROVE  FeedInv'
<1>1. PICK x \in InputStates : x = input[r]
  BY KeyboardIs
<1>2. x.immediates \in Seq(Immediates)
  BY DEF InputStates
<1>3. PICK m \in Seq(Immediates) : m = Append(x.immediates, c)
  <2>1. Append(x.immediates, c) \in Seq(Immediates)
    BY <1>2
  <2> QED BY <2>1, Zenon
<1>4. input' = [input EXCEPT ![r] = [x EXCEPT !.paused = p, !.immediates = m]]
  BY <1>1, <1>3, Zenon
<1>5. /\ [x EXCEPT !.paused = p, !.immediates = m] \in InputStates
      /\ [x EXCEPT !.paused = p, !.immediates = m].held = x.held
      /\ [x EXCEPT !.paused = p, !.immediates = m].left = x.left
  BY DEF InputStates
<1> QED BY <1>1, <1>4, <1>5, QueueStep

(* The pause key changes the latch and queues it; no hold is moved.        *)
LEMMA TogglePauseOK == ASSUME FeedInv, NEW r \in Role, TogglePause(r) PROVE FeedInv'
<1>1. PICK p \in BOOLEAN, c \in Immediates :
         p = (~input[r].paused) /\ c = IF input[r].paused THEN "Resume" ELSE "Pause"
  <2>1. (~input[r].paused) \in BOOLEAN /\ (IF input[r].paused THEN "Resume" ELSE "Pause") \in Immediates
    BY DEF Immediates
  <2> QED BY <2>1, Zenon
<1>2. UNCHANGED <<enhanced, finger, sent, quiet, run, orphaned>>
  BY DEF TogglePause
<1>3. input' = [input EXCEPT ![r].paused = p, ![r].immediates = Append(@, c)]
  BY <1>1, Zenon DEF TogglePause
<1> QED BY <1>2, <1>3, LatchStep

(* The restart key lifts the pause and queues one command.                 *)
LEMMA RestartKeyOK == ASSUME FeedInv, NEW r \in Role, RestartKey(r) PROVE FeedInv'
<1>1. "Restart" \in Immediates /\ FALSE \in BOOLEAN
  BY DEF Immediates
<1>2. /\ UNCHANGED <<enhanced, finger, sent, quiet, run, orphaned>>
      /\ input' = [input EXCEPT ![r].paused = FALSE, ![r].immediates = Append(@, "Restart")]
  BY DEF RestartKey
<1> QED BY <1>1, <1>2, LatchStep, Zenon

(* A frame decays the hold, hands over what changed since the last one and *)
(* spends the taps.                                                        *)
LEMMA CommandsForOK == ASSUME FeedInv, NEW r \in Role, CommandsFor(r) PROVE FeedInv'
<1>1. PICK i : i = Decayed(input[r], enhanced[r])
  OBVIOUS
<1>2. PICK s : s = Sampled(i, sent[r])
  OBVIOUS
<1>3. PICK cmds : cmds = Mine(r, s.out)
  OBVIOUS
<1>4. PICK since : since = (IF quiet[r] < FallbackHold THEN quiet[r] + 1 ELSE quiet[r])
  OBVIOUS
<1>5. /\ input' = [input EXCEPT ![r] = s.input]
      /\ sent' = [sent EXCEPT ![r] = BaseAfter(r, sent[r], i.held)]
      /\ run'.held = HeldAfter(cmds, run.held)
      /\ quiet' = [quiet EXCEPT ![r] = since]
      /\ orphaned' = (orphaned /\ \A n \in DOMAIN cmds : cmds[n] \notin ButtonCommands)
      /\ enhanced' = enhanced /\ finger' = [finger EXCEPT ![r] = finger[r]]
  BY <1>1, <1>2, <1>3, <1>4, KeyboardIs DEF CommandsFor
<1>6. /\ input[r] \in InputStates /\ enhanced[r] \in BOOLEAN /\ finger[r] \in BOOLEAN
      /\ quiet[r] \in 0..FallbackHold /\ sent[r] \in BOOLEAN /\ sent \in [Role -> BOOLEAN]
      /\ Holding(input[r], enhanced[r], finger[r], quiet[r])
      /\ run.held \in BOOLEAN /\ orphaned \in BOOLEAN /\ ButtonFollowsTheHand
  BY KeyboardIs
<1>7. i \in InputStates /\ Holding(i, enhanced[r], finger[r], since) /\ since \in 0..FallbackHold
  <2>1. since \in 0..FallbackHold
    BY <1>4, <1>6, TerminalAssumption
  <2> QED BY <1>1, <1>4, <1>6, <2>1, DecayHolds
<1>8. /\ s.out \in Seq(Commands) /\ s.input \in InputStates
      /\ s.input.held = i.held /\ s.input.left = i.left
      /\ i.held = sent[r] => NoButton(s.out)
      /\ \A down \in BOOLEAN : HeldAfter(s.out, down) = IF i.held = sent[r] THEN down ELSE i.held
  BY <1>2, <1>6, <1>7, SampleIs
<1>9. /\ enhanced' \in [Role -> BOOLEAN] /\ finger' \in [Role -> BOOLEAN]
      /\ input' \in [Role -> InputStates] /\ quiet' \in [Role -> 0..FallbackHold]
      /\ \A q \in Role : Holding(input'[q], enhanced'[q], finger'[q], quiet'[q])
  <2>1. Holding(s.input, enhanced[r], finger[r], since)
    BY <1>6, <1>7, <1>8, QueuedHolds
  <2> QED BY <1>5, <1>6, <1>7, <1>8, <2>1, OneKeyboard
<1>10. cmds \in Seq(Commands) /\ \A j \in 1..Len(cmds) : \E k \in 1..Len(s.out) : cmds[j] = s.out[k]
  <2>1. /\ Mine(r, s.out) \in Seq(Commands)
        /\ \A j \in 1..Len(Mine(r, s.out)) :
             \E k \in 1..Len(s.out) : Mine(r, s.out)[j] = s.out[k] /\ r \in SeatFor(s.out[k])
    BY <1>8, MineIs
  <2> QED BY <1>3, <2>1
<1>11. (\A n \in DOMAIN cmds : cmds[n] \notin ButtonCommands) <=> NoButton(cmds)
  BY <1>10 DEF NoButton
<1>12. i.held \in BOOLEAN
  BY <1>7 DEF InputStates
<1>13. CASE r = "hacker"
  <2>1. NoButton(cmds)
    BY <1>3, <1>8, <1>13, HackerPressesNothing
  <2>2. HeldAfter(cmds, run.held) = run.held
    BY <1>6, <1>10, <2>1, ButtonAfter
  <2>3. BaseAfter(r, sent[r], i.held) = sent[r]
    BY <1>13 DEF BaseAfter
  <2>4. sent' = sent /\ run'.held = run.held /\ orphaned' = orphaned
    BY <1>5, <1>6, <1>11, <2>1, <2>2, <2>3
  <2> QED BY <1>6, <1>9, <2>4 DEF FeedInv, FeedTypeOK, ButtonFollowsTheHand
<1>14. CASE r = "infiltrator"
  <2>1. HeldAfter(cmds, run.held) = IF i.held = sent[r] THEN run.held ELSE i.held
    BY <1>3, <1>6, <1>8, <1>14, MineHolds
  <2>2. sent' \in [Role -> BOOLEAN] /\ sent'["infiltrator"] = i.held /\ sent'["hacker"] = sent["hacker"]
    BY <1>5, <1>6, <1>12, <1>14 DEF BaseAfter, Role
  <2>3. run'.held \in BOOLEAN /\ orphaned' \in BOOLEAN
    BY <1>5, <1>6, <1>12, <2>1, Zenon
  <2>4. CASE i.held = sent[r]
    <3>1. NoButton(cmds)
      BY <1>8, <1>10, <2>4 DEF NoButton
    <3>2. run'.held = run.held /\ orphaned' = orphaned /\ sent'["infiltrator"] = sent["infiltrator"]
      BY <1>5, <1>6, <1>11, <1>14, <2>1, <2>2, <2>4, <3>1
    <3> QED BY <1>6, <1>9, <2>2, <2>3, <3>2 DEF FeedInv, FeedTypeOK, ButtonFollowsTheHand
  <2>5. CASE i.held # sent[r]
    <3>1. run'.held = sent'["infiltrator"]
      BY <1>5, <2>1, <2>2, <2>5
    <3> QED BY <1>6, <1>9, <2>2, <2>3, <3>1 DEF FeedInv, FeedTypeOK, ButtonFollowsTheHand
  <2> QED BY <2>4, <2>5
<1> QED BY <1>13, <1>14 DEF Role

(* A terminal that comes back holds nothing; what the run was left holding *)
(* is orphaned.                                                            *)
LEMMA RejoinTerminalOK == ASSUME FeedInv, NEW r \in Role, RejoinTerminal(r) PROVE FeedInv'
<1>1. /\ finger' = [finger EXCEPT ![r] = FALSE] /\ input' = [input EXCEPT ![r] = FreshInput]
      /\ sent' = [sent EXCEPT ![r] = FALSE] /\ quiet' = [quiet EXCEPT ![r] = 0]
      /\ orphaned' = (IF r = "infiltrator" THEN run.held ELSE orphaned)
      /\ enhanced' = enhanced /\ run' = run
  BY DEF RejoinTerminal
<1>2. /\ sent \in [Role -> BOOLEAN] /\ run.held \in BOOLEAN /\ orphaned \in BOOLEAN
      /\ enhanced[r] \in BOOLEAN /\ ButtonFollowsTheHand
  BY KeyboardIs
<1>3. FreshInput \in InputStates /\ FreshInput.held = FALSE /\ FreshInput.left = 0
  <2>1. <<>> \in Seq(Edges) /\ <<>> \in Seq(Immediates)
    OBVIOUS
  <2> QED BY <2>1, TerminalAssumption DEF FreshInput, InputStates
<1>4. Holding(FreshInput, enhanced[r], FALSE, 0)
  <2>1. ~(0 > 0)
    OBVIOUS
  <2> QED BY <1>3, <2>1, Zenon DEF Holding
<1>5. 0 \in 0..FallbackHold /\ FALSE \in BOOLEAN
  BY TerminalAssumption
<1>6. /\ enhanced' \in [Role -> BOOLEAN] /\ finger' \in [Role -> BOOLEAN]
      /\ input' \in [Role -> InputStates] /\ quiet' \in [Role -> 0..FallbackHold]
      /\ \A q \in Role : Holding(input'[q], enhanced'[q], finger'[q], quiet'[q])
  BY <1>1, <1>3, <1>4, <1>5, OneKeyboard
<1>7. sent' \in [Role -> BOOLEAN] /\ run'.held \in BOOLEAN /\ orphaned' \in BOOLEAN
  BY <1>1, <1>2
<1>8. ButtonFollowsTheHand'
  <2>1. CASE r = "infiltrator"
    <3>1. sent'["infiltrator"] = FALSE /\ sent'["hacker"] = sent["hacker"] /\ orphaned' = run.held
      BY <1>1, <1>2, <2>1 DEF Role
    <3> QED BY <1>1, <1>2, <3>1 DEF ButtonFollowsTheHand
  <2>2. CASE r = "hacker"
    <3>1. sent'["infiltrator"] = sent["infiltrator"] /\ ~sent'["hacker"] /\ orphaned' = orphaned
      BY <1>1, <1>2, <2>2 DEF Role
    <3>2. run'.held = run.held
      BY <1>1
    <3> QED BY <1>2, <3>1, <3>2, Zenon DEF ButtonFollowsTheHand
  <2> QED BY <2>1, <2>2 DEF Role
<1> QED BY <1>6, <1>7, <1>8 DEF FeedInv, FeedTypeOK

(* Every step of the feed keeps the invariant.                             *)
LEMMA FeedNextOK == FeedInv /\ [FeedNext]_feedVars => FeedInv'
<1> SUFFICES ASSUME FeedInv, [FeedNext]_feedVars PROVE FeedInv'
  OBVIOUS
<1>1. CASE UNCHANGED feedVars
  BY <1>1 DEF feedVars, FeedInv, FeedTypeOK, ButtonFollowsTheHand
<1>2. CASE FeedNext
  <2>1. PICK r \in Role :
           \/ PressKey(r) \/ ReleaseKey(r) \/ TogglePause(r) \/ RestartKey(r)
           \/ \E c \in {"Jump", "Uplink"} : TapKey(r, c)
           \/ CommandsFor(r) \/ RejoinTerminal(r)
    BY <1>2 DEF FeedNext
  <2> QED BY <2>1, PressKeyOK, ReleaseKeyOK, TogglePauseOK, RestartKeyOK, TapKeyOK, CommandsForOK, RejoinTerminalOK
<1> QED BY <1>1, <1>2

(* The invariant says of the feed what the run checks of it.               *)
LEMMA FeedInvIsFaithful == FeedInv => FeedIsFaithful
<1> SUFFICES ASSUME FeedInv PROVE FeedIsFaithful
  OBVIOUS
<1>1. ButtonFollowsTheHand
  BY DEF FeedInv
<1>2. ASSUME NEW r \in Role
      PROVE  /\ ~enhanced[r] /\ input[r].held => quiet[r] < FallbackHold
             /\ enhanced[r] => input[r].held = finger[r]
             /\ ~enhanced[r] /\ finger[r] /\ quiet[r] < FallbackHold => input[r].held
  <2>1. /\ input[r].left \in 0..FallbackHold /\ quiet[r] \in 0..FallbackHold /\ FallbackHold \in Nat
        /\ Holding(input[r], enhanced[r], finger[r], quiet[r])
    BY KeyboardIs, TerminalAssumption DEF InputStates
  <2> QED BY <2>1 DEF Holding
<1> QED BY <1>1, <1>2 DEF FeedIsFaithful, HoldsEnd

(* Through presses, releases, repeats, samples, pauses and restarts, in any    *)
(* order and at any pace, the button of the run is the infiltrator's, and no   *)
(* terminal without releases holds it past its count (keymap.rs, input.rs and *)
(* commands_for of interactive.rs).                                           *)
THEOREM FeedFaithful == FeedSpec => []FeedIsFaithful
<1>1. FeedInit => FeedInv
  BY FeedInitOK
<1>2. FeedInv /\ [FeedNext]_feedVars => FeedInv'
  BY FeedNextOK
<1>3. FeedInv => FeedIsFaithful
  BY FeedInvIsFaithful
<1> QED BY <1>1, <1>2, <1>3, PTL DEF FeedSpec

-------------------------------------------------------------------------------
(* The windowed client: what is queued holds what the keys hold, what is drawn *)
(* lies between two ticks.                                                  *)

(* What holds first and goes on holding holds at the end. *)
LEMMA ClimbTo ==
  ASSUME NEW n \in Nat, NEW B, 0 \in B, \A k \in 0..(n - 1) : k \in B => k + 1 \in B
  PROVE  n \in B
<1> DEFINE D == {k \in 0..n : k \notin B}
<1>1. D = {}
  <2> SUFFICES ASSUME D # {} PROVE FALSE
    OBVIOUS
  <2>1. PICK k \in D : \A i \in D : k <= i
    <3>1. D \in SUBSET Nat
      OBVIOUS
    <3> HIDE DEF D
    <3> QED BY <3>1, LeastNumber
  <2>2. PICK m \in Nat : k = m + 1
    BY <2>1, Before
  <2>3. m \in 0..(n - 1) /\ m \in 0..n /\ m \notin D
    BY <2>1, <2>2
  <2> QED BY <2>1, <2>2, <2>3
<1> QED BY <1>1

(* A restart is told of; without one nothing of the session moves the runner. *)
Moved(acc, x) == (acc.over => Restarted(acc.events)) /\ (~acc.over => acc.run.x = x)

(* One command of a session leaves the ship where it was, unless it        *)
(* restarts.                                                               *)
LEMMA SessionOneMoves ==
  ASSUME NEW acc \in SessionStates, NEW c \in Commands, NEW x, Moved(acc, x)
  PROVE  Moved(SessionOne(acc, c), x)
<1>1. CASE acc.over
  BY <1>1 DEF SessionOne
<1>2. CASE ~acc.over /\ c = "Restart"
  <2> DEFINE told == acc.events \o <<"Restarted">> \o Start
             new == [run |-> FreshRun, events |-> told, over |-> TRUE]
  <2>1. SessionOne(acc, c) = new
    BY <1>2 DEF SessionOne
  <2>2. Len(acc.events) + 1 \in DOMAIN told /\ told[Len(acc.events) + 1] = "Restarted"
    <3>1. /\ acc.events \in Seq(TickEvents) /\ <<"Restarted">> \in Seq(TickEvents) /\ Start \in Seq(TickEvents)
          /\ Len(<<"Restarted">>) = 1 /\ <<"Restarted">>[1] = "Restarted"
      BY DEF SessionStates, TickEvents, Start
    <3> QED BY <3>1
  <2> HIDE DEF told
  <2>3. new.over = TRUE /\ new.events = told
    OBVIOUS
  <2> HIDE DEF new
  <2> QED BY <2>1, <2>2, <2>3 DEF Moved, Restarted
<1>3. CASE ~acc.over /\ c # "Restart"
  <2>1. /\ SessionOne(acc, c).over = acc.over
        /\ SessionOne(acc, c).run.x = acc.run.x
    BY <1>3 DEF SessionOne, SessionStates, RunStates
  <2> QED BY <1>3, <2>1 DEF Moved
<1> QED BY <1>1, <1>2, <1>3

(* So does a whole list of commands that were given at once.               *)
LEMMA SessionMoves ==
  ASSUME NEW s \in Sims, NEW immediates \in Seq(Commands)
  PROVE  SessionPass(s, immediates) \in SessionStates /\ Moved(SessionPass(s, immediates), s.run.x)
<1> DEFINE n == Len(immediates)
<1>1. PICK h \in [0..n -> SessionStates] :
         /\ h[0] = [run |-> s.run, events |-> s.events, over |-> FALSE]
         /\ \A k \in 0..(n - 1) : h[k + 1] = SessionOne(h[k], immediates[k + 1])
         /\ SessionPass(s, immediates) = h[n]
  BY SessionThrough
<1> DEFINE B == {k \in 0..n : Moved(h[k], s.run.x)}
<1>2. n \in Nat
  OBVIOUS
<1>3. 0 \in B
  BY <1>1, <1>2 DEF Moved
<1>4. ASSUME NEW k \in 0..(n - 1), k \in B PROVE k + 1 \in B
  <2>1. k \in 0..n /\ k + 1 \in 0..n /\ k + 1 \in 1..n
    BY <1>2
  <2>2. h[k] \in SessionStates /\ immediates[k + 1] \in Commands /\ Moved(h[k], s.run.x)
    BY <1>4, <2>1, ElementOfSeq
  <2>3. Moved(SessionOne(h[k], immediates[k + 1]), s.run.x)
    BY <2>2, SessionOneMoves
  <2> QED BY <1>1, <2>1, <2>3
<1>5. n \in B
  <2> HIDE DEF B, n
  <2> QED BY <1>2, <1>3, <1>4, ClimbTo
<1> QED BY <1>1, <1>2, <1>5

(* The work on the uplink moves nobody. *)
LEMMA WorkMoves ==
  ASSUME NEW s \in Sims, NEW immediates \in Seq(Commands)
  PROVE  WorkPass(s, immediates) \in Sims /\ WorkPass(s, immediates).run.x = s.run.x
<1> DEFINE n == Len(immediates)
<1>1. PICK h \in [0..n -> Sims] :
         /\ h[0] = s
         /\ \A k \in 0..(n - 1) : h[k + 1] = WorkOne(h[k], immediates[k + 1])
         /\ WorkPass(s, immediates) = h[n]
  BY WorkThrough
<1> DEFINE B == {k \in 0..n : h[k].run.x = s.run.x}
<1>2. n \in Nat
  OBVIOUS
<1>3. 0 \in B
  BY <1>1, <1>2
<1>4. ASSUME NEW k \in 0..(n - 1), k \in B PROVE k + 1 \in B
  <2>1. k \in 0..n /\ k + 1 \in 0..n
    BY <1>2
  <2>2. \A t \in Sims : \A c : WorkOne(t, c).run.x = t.run.x
    BY DEF WorkOne, Sims
  <2> QED BY <1>1, <1>4, <2>1, <2>2
<1>5. n \in B
  <2> HIDE DEF B, n
  <2> QED BY <1>2, <1>3, <1>4, ClimbTo
<1> QED BY <1>1, <1>2, <1>5

(* A tick tells of a restart or moves nobody back. *)
LEMMA TickedMoves ==
  ASSUME NEW s \in Sims, NEW given \in Inputs
  PROVE  Restarted(Ticked(s, given).events) \/ Ticked(s, given).run.x >= s.run.x
<1> DEFINE session == SessionPass(s, given.immediates)
           here == [run |-> session.run, events |-> session.events]
           worked == WorkPass(here, given.immediates)
<1>1. given.immediates \in Seq(Commands)
  BY DEF Inputs
<1>2. session \in SessionStates /\ Moved(session, s.run.x)
  BY <1>1, SessionMoves
<1>3. s.run.x \in Nat
  BY DEF Sims
<1>4. Ticked(s, given) = IF session.over \/ here.run.paused THEN here ELSE Updated(worked, given)
  BY DEF Ticked
<1> HIDE DEF session
<1>5. here \in Sims /\ here.run = session.run /\ here.events = session.events
  BY <1>2 DEF SessionStates, RunStates, Sims
<1> HIDE DEF here
<1>6. worked \in Sims /\ worked.run.x = here.run.x
  BY <1>1, <1>5, WorkMoves
<1> HIDE DEF worked
<1>7. CASE session.over
  BY <1>2, <1>4, <1>5, <1>7 DEF Moved
<1>8. CASE ~session.over
  <2>1. here.run.x = s.run.x
    BY <1>2, <1>5, <1>8 DEF Moved
  <2>2. Updated(worked, given).run.x >= worked.run.x
    BY <1>6 DEF Updated, Sims
  <2> QED BY <1>3, <1>4, <1>6, <2>1, <2>2
<1> QED BY <1>7, <1>8

(* What a frame's ticks work on, with the button the queue leaves. *)
Queues == [pending : Seq(Commands), held : BOOLEAN, paused : BOOLEAN]
Trails == {t \in Seq(Nat) : Len(t) \in 1..2 /\ t[1] <= t[Len(t)]}
Drawn(p, x, t) == p = [prev |-> t[1], curr |-> x] /\ x = t[Len(t)]
Driven(soon) ==
  {d \in [queue : Queues, sim : Sims, picture : [prev : Nat, curr : Nat], trail : Trails] :
     Drawn(d.picture, d.sim.run.x, d.trail) /\ HeldAfter(d.queue.pending, d.queue.held) = soon}

(* A tick takes the queue's button over and draws from where it was. *)
LEMMA SteppedIs ==
  ASSUME NEW soon \in BOOLEAN, NEW d \in Driven(soon)
  PROVE  Stepped(d) \in Driven(soon)
<1> DEFINE given == FoldCommands(d.queue.pending, d.queue.held)
           after == Ticked(d.sim, given)
           again == Restarted(after.events)
           x == after.run.x
           queue1 == [d.queue EXCEPT !.pending = <<>>, !.held = HeldAfter(d.queue.pending, @)]
           picture1 == Committed(d.picture, x, again)
           trail1 == IF again THEN <<x>> ELSE <<Last(d.trail), x>>
<1>1. /\ d.queue \in Queues /\ d.sim \in Sims /\ d.trail \in Trails
      /\ d.picture = [prev |-> d.trail[1], curr |-> d.sim.run.x] /\ d.sim.run.x = d.trail[Len(d.trail)]
      /\ HeldAfter(d.queue.pending, d.queue.held) = soon
  BY DEF Driven, Drawn
<1>2. d.queue.pending \in Seq(Commands) /\ d.queue.held \in BOOLEAN
  BY <1>1 DEF Queues
<1>3. given \in Inputs
  BY <1>2, FoldedType
<1>4. after \in Sims /\ (again \/ x >= d.sim.run.x) /\ x \in Nat /\ d.sim.run.x \in Nat
  <2> HIDE DEF given
  <2>1. after \in Sims /\ (again \/ x >= d.sim.run.x)
    BY <1>1, <1>3, TickedType, TickedMoves
  <2>2. \A s \in Sims : s.run.x \in Nat
    BY DEF Sims
  <2> QED BY <1>1, <2>1, <2>2
<1>5. Stepped(d) = [queue |-> queue1, sim |-> Drained(after), picture |-> picture1, trail |-> trail1]
  BY Zenon DEF Stepped
<1>6. queue1 \in Queues /\ queue1.pending = <<>> /\ queue1.held = soon
  <2>1. queue1 = [d.queue EXCEPT !.pending = <<>>, !.held = soon]
    BY <1>1, Zenon
  <2>2. <<>> \in Seq(Commands)
    OBVIOUS
  <2>3. [d.queue EXCEPT !.pending = <<>>, !.held = soon] \in Queues
    BY <1>1, <2>2 DEF Queues
  <2>4. \A q \in Queues, b \in BOOLEAN :
          [q EXCEPT !.pending = <<>>, !.held = b].pending = <<>> /\ [q EXCEPT !.pending = <<>>, !.held = b].held = b
    BY Zenon DEF Queues
  <2> QED BY <1>1, <2>1, <2>3, <2>4, Zenon
<1>7. HeldAfter(queue1.pending, queue1.held) = soon
  <2>1. <<>> \in Seq(Commands) /\ NoButton(<<>>)
    BY DEF NoButton
  <2>2. HeldAfter(<<>>, soon) = soon
    BY <2>1, ButtonAfter
  <2> QED BY <1>6, <2>2, Zenon
<1>8. Drained(after) \in Sims /\ Drained(after).run = after.run
  <2> HIDE DEF after
  <2> QED BY <1>4, DrainedIs
<1> HIDE DEF queue1, given, after
<1>9. Last(d.trail) = d.sim.run.x
  BY <1>1 DEF Last
<1>10. trail1 \in Trails /\ Drawn(picture1, x, trail1) /\ picture1 \in [prev : Nat, curr : Nat]
  <2>1. CASE again
    <3>1. trail1 = <<x>> /\ picture1 = [prev |-> x, curr |-> x]
      BY <2>1 DEF Committed
    <3> QED BY <1>4, <3>1 DEF Trails, Drawn
  <2>2. CASE ~again
    <3>1. trail1 = <<d.sim.run.x, x>> /\ picture1 = [prev |-> d.sim.run.x, curr |-> x]
      BY <1>1, <1>9, <2>2 DEF Committed
    <3>2. d.sim.run.x <= x
      BY <1>4, <2>2
    <3> QED BY <1>4, <3>1, <3>2 DEF Trails, Drawn
  <2> QED BY <2>1, <2>2
<1> HIDE DEF trail1, picture1, again
<1> QED BY <1>5, <1>6, <1>7, <1>8, <1>10 DEF Driven

(* So do the ticks of a frame. *)
LEMMA FrameIs ==
  ASSUME NEW soon \in BOOLEAN, NEW begun \in Driven(soon), NEW n \in Nat
  PROVE  FoldLeft(LAMBDA acc, i : Stepped(acc), begun, [i \in 1..n |-> i]) \in Driven(soon)
<1> DEFINE A == Driven(soon)
           seq == [i \in 1..n |-> i]
           done == FoldLeft(LAMBDA acc, i : Stepped(acc), begun, seq)
           step == [e \in A \X (1..n) |-> Stepped(e[1])]
           Recurs(f) == f = [s \in SUBSET (1..n) |-> IF s = {} THEN begun ELSE Stepped(f[s \ {Max(s)}])]
<1>1. DOMAIN seq = 1..n
  OBVIOUS
<1>2. \A a \in A : Stepped(a) \in A
  BY SteppedIs
<1>3. done = (CHOOSE f : Recurs(f))[1..n]
  BY <1>1 DEF FoldLeft, MapThenFoldSet
<1> HIDE DEF seq, A, done
<1>4. /\ step \in [A \X (1..n) -> A]
      /\ \A a \in A, k \in 1..n : step[<<a, k>>] = Stepped(a)
  BY <1>2
<1>5. PICK h, g : /\ Through(h, n, A, begun, step)
                  /\ g \in [SUBSET (1..n) -> A] /\ Folding(g, n, begun, step)
  <2> HIDE DEF step
  <2>1. begun \in A
    BY DEF A
  <2> QED BY <1>4, <2>1, FoldThrough
<1>6. Recurs(g)
  <2>1. ASSUME NEW s \in SUBSET (1..n), s # {}
        PROVE  step[<<g[s \ {Max(s)}], Max(s)>>] = Stepped(g[s \ {Max(s)}])
    <3>1. Max(s) \in 1..n /\ g[s \ {Max(s)}] \in A
      BY <1>5, <2>1, MaxIsIn
    <3> QED BY <1>4, <3>1
  <2> HIDE DEF step
  <2> QED BY <1>5, <2>1 DEF Folding
<1>7. PICK f : Recurs(f) /\ done = f[1..n]
  BY <1>3, <1>6
<1>8. GoesOn(f, n, A, begun, step)
  <2>1. f[{}] = begun
    BY <1>7
  <2>2. ASSUME NEW k \in 0..(n - 1), f[1..k] \in A PROVE f[1..(k + 1)] = step[<<f[1..k], k + 1>>]
    <3> DEFINE t == 1..(k + 1)
    <3>1. k \in Nat /\ k + 1 \in 1..n /\ t \in SUBSET (1..n)
      OBVIOUS
    <3>2. t # {} /\ Max(t) = k + 1 /\ t \ {k + 1} = 1..k
      BY <3>1, MaxUpto
    <3> HIDE DEF t
    <3>3. f[t] = Stepped(f[t \ {Max(t)}])
      BY <1>7, <3>1, <3>2
    <3> HIDE DEF step
    <3> QED BY <1>4, <2>2, <3>1, <3>2, <3>3 DEF t
  <2> HIDE DEF step
  <2> QED BY <2>1, <2>2 DEF GoesOn
<1>9. done = h[n]
  <2> HIDE DEF step, Recurs
  <2>1. f[1..n] = h[n]
    BY <1>5, <1>8, FoldUnique
  <2> QED BY <1>7, <2>1
<1>10. h[n] \in A
  BY <1>5 DEF Through
<1> QED BY <1>9, <1>10 DEF A, done, seq

(* Commands that are not the button's leave it. *)
LEMMA HeldQuiet ==
  ASSUME NEW a \in Seq(Commands), NEW b \in Seq(Commands), NoButton(b), NEW down \in BOOLEAN
  PROVE  a \o b \in Seq(Commands) /\ HeldAfter(a \o b, down) = HeldAfter(a, down)
<1>1. HeldAfter(a, down) \in BOOLEAN /\ HeldAfter(a \o b, down) = HeldAfter(b, HeldAfter(a, down))
  BY HeldTwice
<1>2. HeldAfter(b, HeldAfter(a, down)) = HeldAfter(a, down)
  BY <1>1, ButtonAfter
<1> QED BY <1>1, <1>2

(* A list of one command, and what it makes of the button at the end of    *)
(* another.                                                                *)
LEMMA OneCommand ==
  ASSUME NEW c \in Commands
  PROVE  /\ <<c>> \in Seq(Commands) /\ (c \notin ButtonCommands => NoButton(<<c>>))
         /\ \A a \in Seq(Commands), down \in BOOLEAN :
              c \in ButtonCommands => HeldAfter(a \o <<c>>, down) = (c = "Down")
<1>1. <<c>> \in Seq(Commands) /\ Len(<<c>>) = 1 /\ <<c>>[1] = c
  OBVIOUS
<1>2. c \notin ButtonCommands => NoButton(<<c>>)
  BY <1>1 DEF NoButton
<1>3. ASSUME NEW a \in Seq(Commands), NEW down \in BOOLEAN, c \in ButtonCommands
      PROVE  HeldAfter(a \o <<c>>, down) = (c = "Down")
  <2>1. Append(a, c) = a \o <<c>>
    OBVIOUS
  <2>2. HeldAfter(Append(a, c), down) = (c = "Down")
    BY <1>3, HeldOneMore
  <2> QED BY <2>1, <2>2, Zenon
<1> QED BY <1>1, <1>2, <1>3

(* A tap that is not of the button gives a list that leaves the button     *)
(* alone.                                                                  *)
LEMMA TapIs ==
  ASSUME NEW k, NEW c \in Commands \ ButtonCommands
  PROVE  Tap(k, c) \in Seq(Commands) /\ NoButton(Tap(k, c))
<1>1. <<>> \in Seq(Commands) /\ NoButton(<<>>)
  BY DEF NoButton
<1>2. <<c>> \in Seq(Commands) /\ NoButton(<<c>>)
  BY OneCommand
<1> QED BY <1>1, <1>2 DEF Tap

(* What the keys of a frame make of the button. *)
DecodedHeld ==
  IF KeysDriveInfiltrator /\ HoldKeys \cap justPressed # {} THEN TRUE
  ELSE IF KeysDriveInfiltrator /\ HoldKeys \cap justReleased # {} /\ HoldKeys \cap pressed = {} THEN FALSE
  ELSE HeldSoon

(* Decoding the keys leaves a queue, and the button as the keys have it.   *)
LEMMA DecodedIs ==
  ASSUME queue \in Queues
  PROVE  /\ Decoded(queue) \in Queues
         /\ HeldAfter(Decoded(queue).pending, Decoded(queue).held) = DecodedHeld
         /\ DecodedHeld \in BOOLEAN /\ HeldSoon \in BOOLEAN
<1> DEFINE sync == IF KeysDriveInfiltrator THEN SyncHold ELSE <<>>
           jump == IF KeysDriveInfiltrator THEN Tap("W", "Jump") ELSE <<>>
           body == IF KeysDriveInfiltrator THEN SyncHold \o Tap("W", "Jump") ELSE <<>>
           latch == IF "Tab" \in justPressed THEN ~queue.paused ELSE queue.paused
           pause == IF "Tab" \in justPressed THEN <<IF latch THEN "Pause" ELSE "Resume">> ELSE <<>>
           one == Tap("1", "Uplink")
           restart == Tap("R", "Restart")
           was == queue.pending
           down == queue.held
           all == (((was \o body) \o one) \o pause) \o restart
           on == latch /\ "R" \notin justPressed
<1>1. was \in Seq(Commands) /\ down \in BOOLEAN /\ queue.paused \in BOOLEAN
  BY DEF Queues
<1>2. /\ {"Jump", "Uplink", "Pause", "Resume", "Restart"} \subseteq Commands \ ButtonCommands
      /\ "Down" \in Commands /\ "Up" \in Commands /\ "Down" \in ButtonCommands /\ "Up" \in ButtonCommands
  BY DEF Commands, ButtonCommands, EdgeCommands
<1>3. <<>> \in Seq(Commands) /\ NoButton(<<>>)
  BY DEF NoButton
<1>4. SyncHold \in {<<"Down">>, <<"Up">>, <<>>}
  BY DEF SyncHold
<1>5. SyncHold \in Seq(Commands) /\ sync \in Seq(Commands)
  BY <1>2, <1>3, <1>4, OneCommand
<1>6. jump \in Seq(Commands) /\ NoButton(jump) /\ Tap("W", "Jump") \in Seq(Commands)
  BY <1>2, <1>3, TapIs
<1>7. one \in Seq(Commands) /\ NoButton(one) /\ restart \in Seq(Commands) /\ NoButton(restart)
  BY <1>2, TapIs
<1>8. pause \in Seq(Commands) /\ NoButton(pause)
  <2>1. pause \in {<<>>, <<"Pause">>, <<"Resume">>}
    OBVIOUS
  <2>2. \A c \in {"Pause", "Resume"} : <<c>> \in Seq(Commands) /\ NoButton(<<c>>)
    BY <1>2, OneCommand
  <2> HIDE DEF pause
  <2> QED BY <1>3, <2>1, <2>2
<1>9. body = sync \o jump
  BY <1>3, <1>5, <1>6
<1>10. (was \o sync) \o jump = was \o body
  <2>1. \A a, b, c \in Seq(Commands) : (a \o b) \o c = a \o (b \o c)
    OBVIOUS
  <2> HIDE DEF sync, jump, was, body
  <2> QED BY <1>1, <1>5, <1>6, <1>9, <2>1
<1>11. all \in Seq(Commands) /\ HeldAfter(all, down) = HeldAfter(was \o sync, down)
  <2> HIDE DEF sync, jump, was, body, one, pause, restart, down
  <2>1. was \o sync \in Seq(Commands)
    BY <1>1, <1>5
  <2>2. was \o body \in Seq(Commands) /\ HeldAfter(was \o body, down) = HeldAfter(was \o sync, down)
    <3>1. /\ (was \o sync) \o jump \in Seq(Commands)
          /\ HeldAfter((was \o sync) \o jump, down) = HeldAfter(was \o sync, down)
      BY <1>1, <1>6, <2>1, HeldQuiet
    <3> QED BY <1>10, <3>1
  <2>3. /\ (was \o body) \o one \in Seq(Commands)
        /\ HeldAfter((was \o body) \o one, down) = HeldAfter(was \o sync, down)
    BY <1>1, <1>7, <2>2, HeldQuiet
  <2>4. /\ ((was \o body) \o one) \o pause \in Seq(Commands)
        /\ HeldAfter(((was \o body) \o one) \o pause, down) = HeldAfter(was \o sync, down)
    BY <1>1, <1>8, <2>3, HeldQuiet
  <2> QED BY <1>1, <1>7, <2>4, HeldQuiet
<1>12. HeldSoon \in BOOLEAN /\ HeldSoon = HeldAfter(was, down)
  BY <1>1, FoldedType DEF HeldSoon
<1>13. HeldAfter(was \o sync, down) = DecodedHeld
  <2>1. CASE sync = <<>>
    <3>1. was \o sync = was
      <4> HIDE DEF sync, was
      <4>1. was \o <<>> = was
        BY <1>1
      <4> QED BY <2>1, <4>1
    <3>2. ~KeysDriveInfiltrator \/ SyncHold = <<>>
      BY <2>1
    <3>3. DecodedHeld = HeldSoon
      BY <3>2 DEF DecodedHeld, SyncHold
    <3> QED BY <1>12, <3>1, <3>3
  <2>2. CASE sync # <<>>
    <3>1. KeysDriveInfiltrator /\ sync = SyncHold
      BY <2>2
    <3>2. \/ (HoldKeys \cap justPressed # {} /\ SyncHold = <<"Down">>)
          \/ /\ HoldKeys \cap justPressed = {} /\ HoldKeys \cap justReleased # {} /\ HoldKeys \cap pressed = {}
             /\ SyncHold = <<"Up">>
      BY <2>2, <3>1 DEF SyncHold
    <3>3. /\ HeldAfter(was \o <<"Down">>, down) = TRUE
          /\ HeldAfter(was \o <<"Up">>, down) = FALSE
      BY <1>1, <1>2, OneCommand
    <3> HIDE DEF sync, was, down
    <3> QED BY <3>1, <3>2, <3>3 DEF DecodedHeld
  <2> QED BY <2>1, <2>2
<1>14. /\ Decoded(queue) \in Queues /\ Decoded(queue).pending = all /\ Decoded(queue).held = down
  <2>1. PICK p \in Seq(Commands), o \in BOOLEAN : p = all /\ o = on
    <3> HIDE DEF all
    <3>1. on \in BOOLEAN
      OBVIOUS
    <3> HIDE DEF on
    <3> QED BY <1>11, <3>1
  <2>2. Decoded(queue) = [queue EXCEPT !.pending = all, !.paused = on]
    BY Zenon DEF Decoded
  <2> HIDE DEF all, on
  <2>3. Decoded(queue) = [queue EXCEPT !.pending = p, !.paused = o]
    BY <2>1, <2>2
  <2>4. /\ [queue EXCEPT !.pending = p, !.paused = o] \in Queues
        /\ [queue EXCEPT !.pending = p, !.paused = o].pending = p
        /\ [queue EXCEPT !.pending = p, !.paused = o].held = queue.held
    BY DEF Queues
  <2> QED BY <2>1, <2>3, <2>4, Zenon
<1>15. DecodedHeld \in BOOLEAN
  BY <1>12 DEF DecodedHeld
<1> HIDE DEF all, down
<1> QED BY <1>11, <1>12, <1>13, <1>14, <1>15

(* The hold keys that went down while the keyboard was the infiltrator's. *)
Moving == (HoldKeys \cap pressed) \ (handed \cup justPressed)

DriverTypeOK ==
  /\ view \in {"Both", "Floor", "Van"}
  /\ queue \in Queues /\ sim \in Sims /\ picture \in [prev : Nat, curr : Nat] /\ trail \in Trails

DriverInv ==
  /\ DriverTypeOK /\ Drawn(picture, sim.run.x, trail)
  /\ HeldKeysMove /\ VanHoldsNothing
  /\ view = "Van" => Moving = {}

(* The first frame finds no key down and draws where the run begins.       *)
LEMMA DriverInitOK == DriverInit => DriverInv
<1> SUFFICES ASSUME DriverInit PROVE DriverInv
  OBVIOUS
<1>1. FreshSim \in Sims /\ FreshSim.run.x = 0
  BY DEF FreshSim, FreshRun, Start, Sims, TickEvents
<1>2. sim \in Sims /\ sim.run.x = 0
  <2>1. Drained(FreshSim).run = FreshSim.run /\ Drained(FreshSim) \in Sims
    BY <1>1, DrainedIs
  <2> QED BY <1>1, <2>1 DEF DriverInit
<1>3. queue = [pending |-> <<>>, held |-> FALSE, paused |-> FALSE] /\ queue \in Queues
  <2>1. <<>> \in Seq(Commands)
    OBVIOUS
  <2> QED BY <2>1 DEF DriverInit, Queues
<1>4. trail \in Trails /\ Drawn(picture, 0, trail) /\ picture \in [prev : Nat, curr : Nat]
  BY DEF DriverInit, Trails, Drawn, Primed
<1>5. pressed = {} /\ view = "Both"
  BY DEF DriverInit
<1> QED BY <1>2, <1>3, <1>4, <1>5 DEF DriverInv, DriverTypeOK, HeldKeysMove, VanHoldsNothing, Moving

(* A key going down is seen by the next frame only.                        *)
LEMMA KeyDownOK == ASSUME DriverInv, NEW k, KeyDown(k) PROVE DriverInv'
<1>1. /\ pressed' = pressed \cup {k} /\ justPressed' = justPressed \cup {k}
      /\ UNCHANGED <<view, queue, sim, picture, trail, handed>>
  BY DEF KeyDown
<1>2. Moving' \subseteq Moving /\ (HoldKeys \cap justPressed' = {} => HoldKeys \cap justPressed = {})
  BY <1>1 DEF Moving
<1>3. HeldSoon' = HeldSoon
  BY <1>1 DEF HeldSoon
<1> QED BY <1>1, <1>2, <1>3 DEF DriverInv, DriverTypeOK, HeldKeysMove, VanHoldsNothing, Moving

(* A key coming up is seen at once by what moves, and never moves more.    *)
LEMMA KeyUpOK == ASSUME DriverInv, NEW k, KeyUp(k) PROVE DriverInv'
<1>1. /\ pressed' = pressed \ {k} /\ handed' = handed \ {k}
      /\ UNCHANGED <<justPressed, view, queue, sim, picture, trail>>
  BY DEF KeyUp
<1>2. Moving' \subseteq Moving
  BY <1>1 DEF Moving
<1>3. HeldSoon' = HeldSoon
  BY <1>1 DEF HeldSoon
<1> QED BY <1>1, <1>2, <1>3 DEF DriverInv, DriverTypeOK, HeldKeysMove, VanHoldsNothing, Moving

(* A frame decodes the keys once, runs its ticks and draws what they came  *)
(* to.                                                                     *)
LEMMA DriverFrameOK == ASSUME DriverInv, NEW n \in Nat, DriverFrame(n) PROVE DriverInv'
<1> DEFINE begun == [queue |-> Decoded(queue), sim |-> sim, picture |-> picture, trail |-> trail]
           d == FoldLeft(LAMBDA acc, i : Stepped(acc), begun, [i \in 1..n |-> i])
           handing == "B" \in justPressed /\ NextView = "Van"
<1>1. /\ queue \in Queues /\ sim \in Sims /\ picture \in [prev : Nat, curr : Nat] /\ trail \in Trails
      /\ Drawn(picture, sim.run.x, trail) /\ view \in {"Both", "Floor", "Van"}
  BY DEF DriverInv, DriverTypeOK
<1>2. /\ Decoded(queue) \in Queues
      /\ HeldAfter(Decoded(queue).pending, Decoded(queue).held) = DecodedHeld
      /\ DecodedHeld \in BOOLEAN /\ HeldSoon \in BOOLEAN
  BY <1>1, DecodedIs
<1>3. begun \in Driven(DecodedHeld)
  BY <1>1, <1>2 DEF Driven
<1>4. d \in Driven(DecodedHeld)
  <2> HIDE DEF begun
  <2> QED BY <1>2, <1>3, FrameIs
<1>5. /\ queue' = IF handing THEN LetGo(d.queue) ELSE d.queue
      /\ sim' = d.sim /\ picture' = d.picture /\ trail' = d.trail
      /\ view' = IF "B" \in justPressed THEN NextView ELSE view
      /\ handed' = CASE handing -> pressed \cap HoldKeys
                     [] ~handing /\ view = "Van" -> handed \cup (justPressed \cap HoldKeys \cap pressed)
                     [] OTHER -> handed
      /\ justPressed' = {} /\ pressed' = pressed
  BY Zenon DEF DriverFrame
<1> HIDE DEF d
<1>6. /\ sim' \in Sims /\ picture' \in [prev : Nat, curr : Nat] /\ trail' \in Trails
      /\ Drawn(picture', sim'.run.x, trail')
      /\ d.queue \in Queues /\ HeldAfter(d.queue.pending, d.queue.held) = DecodedHeld
  BY <1>4, <1>5 DEF Driven
<1>7. view' \in {"Both", "Floor", "Van"}
  BY <1>1, <1>5 DEF NextView
<1>8. handing => view # "Van"
  BY DEF NextView
<1>9. queue' \in Queues /\ HeldSoon' = (~handing /\ DecodedHeld)
  <2>1. CASE ~handing
    BY <1>2, <1>5, <1>6, <2>1 DEF HeldSoon
  <2>2. CASE handing
    <3> DEFINE p == Append(d.queue.pending, "Up")
    <3>1. d.queue.pending \in Seq(Commands) /\ d.queue.held \in BOOLEAN
      BY <1>6 DEF Queues
    <3>2. "Up" \in Commands /\ "Up" \in ButtonCommands
      BY DEF Commands, ButtonCommands
    <3>3. p \in Seq(Commands)
      BY <3>1, <3>2
    <3>4. HeldAfter(p, d.queue.held) = FALSE
      <4>1. HeldAfter(p, d.queue.held) = ("Up" = "Down")
        BY <3>1, <3>2, HeldOneMore
      <4>2. ("Up" = "Down") = FALSE
        OBVIOUS
      <4> HIDE DEF p
      <4> QED BY <4>1, <4>2, Zenon
    <3>5. PICK q : q = d.queue
      OBVIOUS
    <3>6. PICK e : e = p
      OBVIOUS
    <3>7. queue' = [q EXCEPT !.pending = e]
      BY <1>5, <2>2, <3>5, <3>6, Zenon DEF LetGo
    <3>8. /\ [q EXCEPT !.pending = e] \in Queues /\ [q EXCEPT !.pending = e].pending = e
          /\ [q EXCEPT !.pending = e].held = q.held
      BY <1>6, <3>3, <3>5, <3>6 DEF Queues
    <3>9. queue' \in Queues /\ queue'.pending = p /\ queue'.held = d.queue.held
      BY <3>5, <3>6, <3>7, <3>8, Zenon
    <3> HIDE DEF p
    <3> QED BY <2>2, <3>4, <3>9 DEF HeldSoon
  <2> QED BY <2>1, <2>2
<1> HIDE DEF handing, begun
<1>10. Moving' = (HoldKeys \cap pressed) \ handed'
  BY <1>5 DEF Moving
<1>11. CASE handing
  <2>1. Moving' = {}
    BY <1>5, <1>10, <1>11
  <2> QED BY <1>6, <1>7, <1>9, <1>11, <2>1 DEF DriverInv, DriverTypeOK, HeldKeysMove, VanHoldsNothing, Moving
<1>12. CASE view = "Van"
  <2>1. HeldSoon' = FALSE
    BY <1>9, <1>12 DEF DecodedHeld, KeysDriveInfiltrator, DriverInv, VanHoldsNothing
  <2>2. Moving' = {}
    <3>1. handed' = handed \cup (justPressed \cap HoldKeys \cap pressed)
      BY <1>5, <1>8, <1>12
    <3> QED BY <1>10, <1>12, <3>1 DEF DriverInv, Moving
  <2> QED BY <1>6, <1>7, <1>9, <2>1, <2>2 DEF DriverInv, DriverTypeOK, HeldKeysMove, VanHoldsNothing, Moving
<1>13. CASE ~handing /\ view # "Van"
  <2>1. handed' = handed /\ view' # "Van" /\ HeldSoon' = DecodedHeld
    BY <1>2, <1>5, <1>9, <1>13 DEF handing
  <2>2. ASSUME Moving' # {} PROVE DecodedHeld
    <3>1. HoldKeys \cap pressed # {}
      BY <1>10, <2>2
    <3>2. CASE HoldKeys \cap justPressed # {}
      BY <1>13, <3>2 DEF DecodedHeld, KeysDriveInfiltrator
    <3>3. CASE HoldKeys \cap justPressed = {}
      <4>1. Moving # {}
        BY <1>10, <2>1, <2>2, <3>3 DEF Moving
      <4>2. HeldSoon
        BY <3>3, <4>1 DEF DriverInv, HeldKeysMove, Moving
      <4> QED BY <3>1, <3>3, <4>2 DEF DecodedHeld
    <3> QED BY <3>2, <3>3
  <2> QED BY <1>6, <1>7, <1>9, <2>1, <2>2 DEF DriverInv, DriverTypeOK, HeldKeysMove, VanHoldsNothing, Moving
<1> QED BY <1>11, <1>12, <1>13

(* Every step of the driver keeps the invariant.                           *)
LEMMA DriverNextOK == DriverInv /\ [DriverNext]_driverVars => DriverInv'
<1> SUFFICES ASSUME DriverInv, [DriverNext]_driverVars PROVE DriverInv'
  OBVIOUS
<1>1. CASE UNCHANGED driverVars
  BY <1>1 DEF driverVars, DriverInv, DriverTypeOK, HeldKeysMove, VanHoldsNothing, HeldSoon, Moving
<1>2. CASE \E k \in HoldKeys \cup TapKeys : KeyDown(k) \/ KeyUp(k)
  BY <1>2, KeyDownOK, KeyUpOK
<1>3. CASE \E n \in 0..TicksPerFrame : DriverFrame(n)
  <2>1. PICK n \in Nat : DriverFrame(n)
    BY <1>3, DriverAssumption
  <2> QED BY <2>1, DriverFrameOK
<1> QED BY <1>1, <1>2, <1>3 DEF DriverNext

(* The invariant says of the driver what the run checks of it.             *)
LEMMA DriverInvIsFaithful == DriverInv => DriverIsFaithful
<1> SUFFICES ASSUME DriverInv PROVE DriverIsFaithful
  OBVIOUS
<1>1. DrawnInBetween
  <2>1. trail \in Trails /\ picture = [prev |-> trail[1], curr |-> trail[Len(trail)]]
    BY DEF DriverInv, DriverTypeOK, Drawn
  <2>2. /\ trail[1] \in Nat /\ trail[Len(trail)] \in Nat /\ trail[1] <= trail[Len(trail)]
        /\ Last(trail) = trail[Len(trail)]
    BY <2>1 DEF Trails, Last
  <2>3. \A lo \in Nat, hi \in Nat, alpha \in Alphas :
          lo <= hi => lo <= lo + ((hi - lo) * alpha) \div 2 /\ lo + ((hi - lo) * alpha) \div 2 <= hi
    <3> SUFFICES ASSUME NEW lo \in Nat, NEW hi \in Nat, NEW alpha \in Alphas, lo <= hi
                 PROVE  lo <= lo + ((hi - lo) * alpha) \div 2 /\ lo + ((hi - lo) * alpha) \div 2 <= hi
      OBVIOUS
    <3>1. alpha = 0 \/ alpha = 1 \/ alpha = 2
      BY DEF Alphas
    <3>2. (hi - lo) * 0 = 0 /\ (hi - lo) * 1 = hi - lo /\ (hi - lo) * 2 = 2 * (hi - lo)
      OBVIOUS
    <3> QED BY <3>1, <3>2
  <2>4. \A alpha \in Alphas : Sample(picture, alpha) = trail[1] + ((trail[Len(trail)] - trail[1]) * alpha) \div 2
    BY <2>1 DEF Sample
  <2> QED BY <2>2, <2>3, <2>4 DEF DrawnInBetween
<1> QED BY <1>1 DEF DriverInv, DriverIsFaithful

(* Whatever keys change in a frame, however many ticks fall due and whoever    *)
(* the keyboard is handed to: a key held down moves the infiltrator, the van   *)
(* holds nothing, and no frame is drawn outside the last two ticks, a restart *)
(* between them or not (keymap.rs, driver.rs, seats.rs, interp.rs).           *)
THEOREM DriverFaithful == DriverSpec => []DriverIsFaithful
<1>1. DriverInit => DriverInv
  BY DriverInitOK
<1>2. DriverInv /\ [DriverNext]_driverVars => DriverInv'
  BY DriverNextOK
<1>3. DriverInv => DriverIsFaithful
  BY DriverInvIsFaithful
<1> QED BY <1>1, <1>2, <1>3, PTL DEF DriverSpec

-------------------------------------------------------------------------------
(* The batch seats: what a schedule brings at a tick.                       *)

Timed == [at : Nat, cmd : Commands]

(* The values it goes through. *)
RunsAt(h, tick, sched) ==
  /\ h \in [0..Len(sched) -> Seq(Commands)] /\ h[0] = <<>>
  /\ \A k \in 0..(Len(sched) - 1) : h[k + 1] = (IF sched[k + 1].at = tick
                                                   THEN Append(h[k], sched[k + 1].cmd)
                                                   ELSE h[k])
  /\ At(sched, tick) = h[Len(sched)]

(* What is due at a tick is picked a command at a time. *)
LEMMA AtThrough ==
  ASSUME NEW tick, NEW sched \in Seq(Timed)
  PROVE  \E h : RunsAt(h, tick, sched)
<1> DEFINE n == Len(sched)
           base == <<>>
           step == [e \in Seq(Commands) \X (1..n) |-> (IF sched[e[2]].at = tick
                                                          THEN Append(e[1], sched[e[2]].cmd)
                                                          ELSE e[1])]
           Recurs(f) == f = [s \in SUBSET (1..n) |->
                               IF s = {} THEN base ELSE (IF sched[Max(s)].at = tick
                                                            THEN Append(f[s \ {Max(s)}], sched[Max(s)].cmd)
                                                            ELSE f[s \ {Max(s)}])]
<1>1. n \in Nat /\ DOMAIN sched = 1..n
  OBVIOUS
<1>2. base \in Seq(Commands)
  OBVIOUS
<1>3. \A a \in Seq(Commands), k \in 1..n : (IF sched[k].at = tick
                                               THEN Append(a, sched[k].cmd)
                                               ELSE a) \in Seq(Commands)
  <2>1. \A k \in 1..n : sched[k] \in Timed
    BY <1>1, ElementOfSeq
  <2>2. \A k \in 1..n : sched[k].cmd \in Commands
    BY <2>1 DEF Timed
  <2> QED BY <2>1, <2>2
<1>4. /\ step \in [Seq(Commands) \X (1..n) -> Seq(Commands)]
      /\ \A a \in Seq(Commands), k \in 1..n : step[<<a, k>>] = (IF sched[k].at = tick
                                                                   THEN Append(a, sched[k].cmd)
                                                                   ELSE a)
  BY <1>3
<1>5. At(sched, tick) = (CHOOSE f : Recurs(f))[1..n]
  BY <1>1 DEF At, FoldLeft, MapThenFoldSet
<1>6. PICK h, g : /\ Through(h, n, Seq(Commands), base, step)
                  /\ g \in [SUBSET (1..n) -> Seq(Commands)] /\ Folding(g, n, base, step)
  BY <1>1, <1>2, <1>4, FoldThrough
<1>7. Recurs(g)
  <2>1. ASSUME NEW s \in SUBSET (1..n), s # {}
        PROVE  step[<<g[s \ {Max(s)}], Max(s)>>] = (IF sched[Max(s)].at = tick
                                                       THEN Append(g[s \ {Max(s)}], sched[Max(s)].cmd)
                                                       ELSE g[s \ {Max(s)}])
    <3>1. Max(s) \in 1..n /\ g[s \ {Max(s)}] \in Seq(Commands)
      BY <1>1, <1>6, <2>1, MaxIsIn
    <3> QED BY <1>4, <3>1
  <2> HIDE DEF step
  <2> QED BY <1>6, <2>1 DEF Folding
<1>8. PICK f : Recurs(f) /\ At(sched, tick) = f[1..n]
  BY <1>5, <1>7
<1>9. GoesOn(f, n, Seq(Commands), base, step)
  <2>1. f[{}] = base
    BY <1>8
  <2>2. ASSUME NEW k \in 0..(n - 1), f[1..k] \in Seq(Commands) PROVE f[1..(k + 1)] = step[<<f[1..k], k + 1>>]
    <3> DEFINE t == 1..(k + 1)
    <3>1. k \in Nat /\ k + 1 \in 1..n /\ t \in SUBSET (1..n)
      BY <1>1
    <3>2. t # {} /\ Max(t) = k + 1 /\ t \ {k + 1} = 1..k
      BY <3>1, MaxUpto
    <3> HIDE DEF t
    <3>3. f[t] = (IF sched[Max(t)].at = tick THEN Append(f[t \ {Max(t)}], sched[Max(t)].cmd) ELSE f[t \ {Max(t)}])
      BY <1>8, <3>1, <3>2
    <3>4. f[t] = (IF sched[k + 1].at = tick THEN Append(f[1..k], sched[k + 1].cmd) ELSE f[1..k])
      BY <3>2, <3>3
    <3> HIDE DEF step
    <3> QED BY <1>4, <2>2, <3>1, <3>4 DEF t
  <2> HIDE DEF step
  <2> QED BY <2>1, <2>2 DEF GoesOn
<1>10. At(sched, tick) = h[n]
  <2> HIDE DEF step, base, n, Recurs
  <2>1. f[1..n] = h[n]
    BY <1>1, <1>6, <1>9, FoldUnique
  <2> QED BY <1>8, <2>1
<1>11. \A k \in 0..(n - 1) : h[k + 1] = (IF sched[k + 1].at = tick THEN Append(h[k], sched[k + 1].cmd) ELSE h[k])
  <2> SUFFICES ASSUME NEW k \in 0..(n - 1)
               PROVE  h[k + 1] = (IF sched[k + 1].at = tick THEN Append(h[k], sched[k + 1].cmd) ELSE h[k])
    OBVIOUS
  <2> HIDE DEF step, base
  <2>1. k \in 0..n /\ k + 1 \in 1..n
    BY <1>1
  <2>2. h[k] \in Seq(Commands)
    BY <1>6, <2>1 DEF Through
  <2> QED BY <1>4, <1>6, <2>1, <2>2 DEF Through
<1> QED BY <1>6, <1>10, <1>11 DEF Through, RunsAt

(* What one command more makes due. *)
LEMMA AtMore ==
  ASSUME NEW tick
  PROVE  /\ At(<<>>, tick) = <<>>
         /\ \A a \in Seq(Timed) : At(a, tick) \in Seq(Commands)
         /\ \A a \in Seq(Timed), x \in Timed : At(Append(a, x), tick) = (IF x.at = tick
                                                                            THEN Append(At(a, tick), x.cmd)
                                                                            ELSE At(a, tick))
<1> DEFINE e == <<>>
<1>1. e \in Seq(Timed) /\ Len(e) = 0
  OBVIOUS
<1>2. At(<<>>, tick) = <<>>
  <2> HIDE DEF e
  <2>1. PICK h : RunsAt(h, tick, e)
    BY <1>1, AtThrough
  <2>2. At(e, tick) = <<>>
    BY <1>1, <2>1 DEF RunsAt
  <2> QED BY <2>2 DEF e
<1> HIDE DEF e
<1>3. ASSUME NEW a \in Seq(Timed) PROVE At(a, tick) \in Seq(Commands)
  <2>1. PICK h : RunsAt(h, tick, a)
    BY AtThrough
  <2>2. Len(a) \in 0..Len(a)
    OBVIOUS
  <2> QED BY <2>1, <2>2 DEF RunsAt
<1>4. ASSUME NEW a \in Seq(Timed), NEW x \in Timed
      PROVE  At(Append(a, x), tick) = (IF x.at = tick THEN Append(At(a, tick), x.cmd) ELSE At(a, tick))
  <2> DEFINE b == Append(a, x)
  <2>1. /\ b \in Seq(Timed) /\ Len(b) = Len(a) + 1 /\ Len(a) \in Nat /\ b[Len(a) + 1] = x
        /\ \A k \in 0..(Len(a) - 1) : b[k + 1] = a[k + 1]
    OBVIOUS
  <2>a. PICK h : RunsAt(h, tick, a)
    BY AtThrough
  <2>2. /\ h[0] = <<>>
        /\ \A k \in 0..(Len(a) - 1) : h[k + 1] = (IF a[k + 1].at = tick THEN Append(h[k], a[k + 1].cmd) ELSE h[k])
        /\ At(a, tick) = h[Len(a)]
    BY <2>a DEF RunsAt
  <2> HIDE DEF b
  <2>b. PICK g : RunsAt(g, tick, b)
    BY <2>1, AtThrough
  <2>3. /\ g[0] = <<>>
        /\ \A k \in 0..(Len(b) - 1) : g[k + 1] = (IF b[k + 1].at = tick THEN Append(g[k], b[k + 1].cmd) ELSE g[k])
        /\ At(b, tick) = g[Len(b)]
    BY <2>b DEF RunsAt
  <2> DEFINE n == Len(a)
  <2>4. g[n] = h[n]
    <3> DEFINE D == {k \in 0..n : g[k] = h[k]}
    <3>1. 0 \in D
      BY <2>1, <2>2, <2>3
    <3>2. \A k \in 0..(n - 1) : k \in D => k + 1 \in D
      <4> SUFFICES ASSUME NEW k \in 0..(n - 1), k \in D PROVE k + 1 \in D
        OBVIOUS
      <4>1. k \in 0..(Len(b) - 1) /\ k + 1 \in 0..n /\ g[k] = h[k] /\ b[k + 1] = a[k + 1]
        BY <2>1
      <4>2. /\ g[k + 1] = (IF b[k + 1].at = tick THEN Append(g[k], b[k + 1].cmd) ELSE g[k])
            /\ h[k + 1] = (IF a[k + 1].at = tick THEN Append(h[k], a[k + 1].cmd) ELSE h[k])
        BY <2>2, <2>3, <4>1
      <4> QED BY <4>1, <4>2
    <3> HIDE DEF D
    <3>3. n \in D
      BY <2>1, <3>1, <3>2, ClimbTo
    <3> QED BY <3>3 DEF D
  <2>5. n \in 0..(Len(b) - 1)
    BY <2>1
  <2> HIDE DEF n
  <2>6. g[n + 1] = (IF b[n + 1].at = tick THEN Append(g[n], b[n + 1].cmd) ELSE g[n])
    BY <2>3, <2>5
  <2>7. b[n + 1] = x /\ g[n] = At(a, tick) /\ g[n + 1] = At(b, tick)
    BY <2>1, <2>2, <2>3, <2>4 DEF n
  <2>8. At(b, tick) = (IF x.at = tick THEN Append(At(a, tick), x.cmd) ELSE At(a, tick))
    BY <2>6, <2>7
  <2> QED BY <2>8 DEF b
<1> QED BY <1>2, <1>3, <1>4

(* A seat's share of a schedule. *)
ShareOf(sched, r) ==
  FoldLeft(LAMBDA mine, s : IF Sender(s.cmd) = r THEN Append(mine, s) ELSE mine, <<>>, sched)

(* The values it goes through. *)
RunsShare(h, r, sched) ==
  /\ h \in [0..Len(sched) -> Seq(Timed)] /\ h[0] = <<>>
  /\ \A k \in 0..(Len(sched) - 1) : h[k + 1] = (IF Sender(sched[k + 1].cmd) = r
                                                   THEN Append(h[k], sched[k + 1])
                                                   ELSE h[k])
  /\ ShareOf(sched, r) = h[Len(sched)]

(* A seat's share is picked a command at a time. *)
LEMMA ShareThrough ==
  ASSUME NEW r, NEW sched \in Seq(Timed)
  PROVE  \E h : RunsShare(h, r, sched)
<1> DEFINE n == Len(sched)
           base == <<>>
           step == [e \in Seq(Timed) \X (1..n) |-> (IF Sender(sched[e[2]].cmd) = r
                                                       THEN Append(e[1], sched[e[2]])
                                                       ELSE e[1])]
           Recurs(f) == f = [s \in SUBSET (1..n) |->
                               IF s = {} THEN base ELSE (IF Sender(sched[Max(s)].cmd) = r
                                                            THEN Append(f[s \ {Max(s)}], sched[Max(s)])
                                                            ELSE f[s \ {Max(s)}])]
<1>1. n \in Nat /\ DOMAIN sched = 1..n
  OBVIOUS
<1>2. base \in Seq(Timed)
  OBVIOUS
<1>3. \A a \in Seq(Timed), k \in 1..n : (IF Sender(sched[k].cmd) = r THEN Append(a, sched[k]) ELSE a) \in Seq(Timed)
  <2>1. \A k \in 1..n : sched[k] \in Timed
    BY <1>1, ElementOfSeq
  <2>2. \A k \in 1..n : sched[k].cmd \in Commands
    BY <2>1 DEF Timed
  <2> QED BY <2>1, <2>2
<1>4. /\ step \in [Seq(Timed) \X (1..n) -> Seq(Timed)]
      /\ \A a \in Seq(Timed), k \in 1..n : step[<<a, k>>] = (IF Sender(sched[k].cmd) = r
                                                                THEN Append(a, sched[k])
                                                                ELSE a)
  BY <1>3
<1>5. ShareOf(sched, r) = (CHOOSE f : Recurs(f))[1..n]
  BY <1>1 DEF ShareOf, FoldLeft, MapThenFoldSet
<1>6. PICK h, g : /\ Through(h, n, Seq(Timed), base, step)
                  /\ g \in [SUBSET (1..n) -> Seq(Timed)] /\ Folding(g, n, base, step)
  BY <1>1, <1>2, <1>4, FoldThrough
<1>7. Recurs(g)
  <2>1. ASSUME NEW s \in SUBSET (1..n), s # {}
        PROVE  step[<<g[s \ {Max(s)}], Max(s)>>] = (IF Sender(sched[Max(s)].cmd) = r
                                                       THEN Append(g[s \ {Max(s)}], sched[Max(s)])
                                                       ELSE g[s \ {Max(s)}])
    <3>1. Max(s) \in 1..n /\ g[s \ {Max(s)}] \in Seq(Timed)
      BY <1>1, <1>6, <2>1, MaxIsIn
    <3> QED BY <1>4, <3>1
  <2> HIDE DEF step
  <2> QED BY <1>6, <2>1 DEF Folding
<1>8. PICK f : Recurs(f) /\ ShareOf(sched, r) = f[1..n]
  BY <1>5, <1>7
<1>9. GoesOn(f, n, Seq(Timed), base, step)
  <2>1. f[{}] = base
    BY <1>8
  <2>2. ASSUME NEW k \in 0..(n - 1), f[1..k] \in Seq(Timed) PROVE f[1..(k + 1)] = step[<<f[1..k], k + 1>>]
    <3> DEFINE t == 1..(k + 1)
    <3>1. k \in Nat /\ k + 1 \in 1..n /\ t \in SUBSET (1..n)
      BY <1>1
    <3>2. t # {} /\ Max(t) = k + 1 /\ t \ {k + 1} = 1..k
      BY <3>1, MaxUpto
    <3> HIDE DEF t
    <3>3. f[t] = (IF Sender(sched[Max(t)].cmd) = r THEN Append(f[t \ {Max(t)}], sched[Max(t)]) ELSE f[t \ {Max(t)}])
      BY <1>8, <3>1, <3>2
    <3>4. f[t] = (IF Sender(sched[k + 1].cmd) = r THEN Append(f[1..k], sched[k + 1]) ELSE f[1..k])
      BY <3>2, <3>3
    <3> HIDE DEF step
    <3> QED BY <1>4, <2>2, <3>1, <3>4 DEF t
  <2> HIDE DEF step
  <2> QED BY <2>1, <2>2 DEF GoesOn
<1>10. ShareOf(sched, r) = h[n]
  <2> HIDE DEF step, base, n, Recurs
  <2>1. f[1..n] = h[n]
    BY <1>1, <1>6, <1>9, FoldUnique
  <2> QED BY <1>8, <2>1
<1>11. \A k \in 0..(n - 1) : h[k + 1] = (IF Sender(sched[k + 1].cmd) = r THEN Append(h[k], sched[k + 1]) ELSE h[k])
  <2> SUFFICES ASSUME NEW k \in 0..(n - 1)
               PROVE  h[k + 1] = (IF Sender(sched[k + 1].cmd) = r THEN Append(h[k], sched[k + 1]) ELSE h[k])
    OBVIOUS
  <2> HIDE DEF step, base
  <2>1. k \in 0..n /\ k + 1 \in 1..n
    BY <1>1
  <2>2. h[k] \in Seq(Timed)
    BY <1>6, <2>1 DEF Through
  <2> QED BY <1>4, <1>6, <2>1, <2>2 DEF Through
<1> QED BY <1>6, <1>10, <1>11 DEF Through, RunsShare

(* What one command more makes a share. *)
LEMMA ShareMore ==
  ASSUME NEW r
  PROVE  /\ ShareOf(<<>>, r) = <<>>
         /\ \A a \in Seq(Timed) : ShareOf(a, r) \in Seq(Timed)
         /\ \A a \in Seq(Timed), x \in Timed : ShareOf(Append(a, x), r) = (IF Sender(x.cmd) = r
                                                                              THEN Append(ShareOf(a, r), x)
                                                                              ELSE ShareOf(a, r))
<1> DEFINE e == <<>>
<1>1. e \in Seq(Timed) /\ Len(e) = 0
  OBVIOUS
<1>2. ShareOf(<<>>, r) = <<>>
  <2> HIDE DEF e
  <2>1. PICK h : RunsShare(h, r, e)
    BY <1>1, ShareThrough
  <2>2. ShareOf(e, r) = <<>>
    BY <1>1, <2>1 DEF RunsShare
  <2> QED BY <2>2 DEF e
<1> HIDE DEF e
<1>3. ASSUME NEW a \in Seq(Timed) PROVE ShareOf(a, r) \in Seq(Timed)
  <2>1. PICK h : RunsShare(h, r, a)
    BY ShareThrough
  <2>2. Len(a) \in 0..Len(a)
    OBVIOUS
  <2> QED BY <2>1, <2>2 DEF RunsShare
<1>4. ASSUME NEW a \in Seq(Timed), NEW x \in Timed
      PROVE  ShareOf(Append(a, x), r) = (IF Sender(x.cmd) = r THEN Append(ShareOf(a, r), x) ELSE ShareOf(a, r))
  <2> DEFINE b == Append(a, x)
  <2>1. /\ b \in Seq(Timed) /\ Len(b) = Len(a) + 1 /\ Len(a) \in Nat /\ b[Len(a) + 1] = x
        /\ \A k \in 0..(Len(a) - 1) : b[k + 1] = a[k + 1]
    OBVIOUS
  <2>a. PICK h : RunsShare(h, r, a)
    BY ShareThrough
  <2>2. /\ h[0] = <<>>
        /\ \A k \in 0..(Len(a) - 1) : h[k + 1] = (IF Sender(a[k + 1].cmd) = r THEN Append(h[k], a[k + 1]) ELSE h[k])
        /\ ShareOf(a, r) = h[Len(a)]
    BY <2>a DEF RunsShare
  <2> HIDE DEF b
  <2>b. PICK g : RunsShare(g, r, b)
    BY <2>1, ShareThrough
  <2>3. /\ g[0] = <<>>
        /\ \A k \in 0..(Len(b) - 1) : g[k + 1] = (IF Sender(b[k + 1].cmd) = r THEN Append(g[k], b[k + 1]) ELSE g[k])
        /\ ShareOf(b, r) = g[Len(b)]
    BY <2>b DEF RunsShare
  <2> DEFINE n == Len(a)
  <2>4. g[n] = h[n]
    <3> DEFINE D == {k \in 0..n : g[k] = h[k]}
    <3>1. 0 \in D
      BY <2>1, <2>2, <2>3
    <3>2. \A k \in 0..(n - 1) : k \in D => k + 1 \in D
      <4> SUFFICES ASSUME NEW k \in 0..(n - 1), k \in D PROVE k + 1 \in D
        OBVIOUS
      <4>1. k \in 0..(Len(b) - 1) /\ k + 1 \in 0..n /\ g[k] = h[k] /\ b[k + 1] = a[k + 1]
        BY <2>1
      <4>2. /\ g[k + 1] = (IF Sender(b[k + 1].cmd) = r THEN Append(g[k], b[k + 1]) ELSE g[k])
            /\ h[k + 1] = (IF Sender(a[k + 1].cmd) = r THEN Append(h[k], a[k + 1]) ELSE h[k])
        BY <2>2, <2>3, <4>1
      <4> QED BY <4>1, <4>2
    <3> HIDE DEF D
    <3>3. n \in D
      BY <2>1, <3>1, <3>2, ClimbTo
    <3> QED BY <3>3 DEF D
  <2>5. n \in 0..(Len(b) - 1)
    BY <2>1
  <2> HIDE DEF n
  <2>6. g[n + 1] = (IF Sender(b[n + 1].cmd) = r THEN Append(g[n], b[n + 1]) ELSE g[n])
    BY <2>3, <2>5
  <2>7. b[n + 1] = x /\ g[n] = ShareOf(a, r) /\ g[n + 1] = ShareOf(b, r)
    BY <2>1, <2>2, <2>3, <2>4 DEF n
  <2>8. ShareOf(b, r) = (IF Sender(x.cmd) = r THEN Append(ShareOf(a, r), x) ELSE ShareOf(a, r))
    BY <2>6, <2>7
  <2> QED BY <2>8 DEF b
<1> QED BY <1>2, <1>3, <1>4

(* The values an input goes through. *)
RunsFolds(h, down, cmds) ==
  /\ h \in [0..Len(cmds) -> Inputs] /\ h[0] = [button |-> down, edges |-> <<>>, immediates |-> <<>>]
  /\ \A k \in 0..(Len(cmds) - 1) : h[k + 1] = FoldOne(h[k], cmds[k + 1])
  /\ FoldCommands(cmds, down) = h[Len(cmds)]

(* There are such values. *)
LEMMA FoldThroughs ==
  ASSUME NEW down \in BOOLEAN, NEW cmds \in Seq(Commands)
  PROVE  \E h : RunsFolds(h, down, cmds)
BY CommandsThrough DEF RunsFolds

(* One command more folded into an input. *)
LEMMA FoldMore ==
  ASSUME NEW down \in BOOLEAN
  PROVE  /\ FoldCommands(<<>>, down) = [button |-> down, edges |-> <<>>, immediates |-> <<>>]
         /\ \A a \in Seq(Commands) : FoldCommands(a, down) \in Inputs
         /\ \A a \in Seq(Commands), x \in Commands : FoldCommands(Append(a, x), down) = FoldOne(FoldCommands(a, down), x)
<1> DEFINE e == <<>>
<1>1. e \in Seq(Commands) /\ Len(e) = 0
  OBVIOUS
<1>2. FoldCommands(<<>>, down) = [button |-> down, edges |-> <<>>, immediates |-> <<>>]
  <2> HIDE DEF e
  <2>1. PICK h : RunsFolds(h, down, e)
    BY <1>1, FoldThroughs
  <2>2. FoldCommands(e, down) = [button |-> down, edges |-> <<>>, immediates |-> <<>>]
    BY <1>1, <2>1 DEF RunsFolds
  <2> QED BY <2>2 DEF e
<1> HIDE DEF e
<1>3. ASSUME NEW a \in Seq(Commands) PROVE FoldCommands(a, down) \in Inputs
  <2>1. PICK h : RunsFolds(h, down, a)
    BY FoldThroughs
  <2>2. Len(a) \in 0..Len(a)
    OBVIOUS
  <2> QED BY <2>1, <2>2 DEF RunsFolds
<1>4. ASSUME NEW a \in Seq(Commands), NEW x \in Commands
      PROVE  FoldCommands(Append(a, x), down) = FoldOne(FoldCommands(a, down), x)
  <2> DEFINE b == Append(a, x)
  <2>1. /\ b \in Seq(Commands) /\ Len(b) = Len(a) + 1 /\ Len(a) \in Nat /\ b[Len(a) + 1] = x
        /\ \A k \in 0..(Len(a) - 1) : b[k + 1] = a[k + 1]
    OBVIOUS
  <2>a. PICK h : RunsFolds(h, down, a)
    BY FoldThroughs
  <2>2. /\ h[0] = [button |-> down, edges |-> <<>>, immediates |-> <<>>]
        /\ \A k \in 0..(Len(a) - 1) : h[k + 1] = FoldOne(h[k], a[k + 1])
        /\ FoldCommands(a, down) = h[Len(a)]
    BY <2>a DEF RunsFolds
  <2> HIDE DEF b
  <2>b. PICK g : RunsFolds(g, down, b)
    BY <2>1, FoldThroughs
  <2>3. /\ g[0] = [button |-> down, edges |-> <<>>, immediates |-> <<>>]
        /\ \A k \in 0..(Len(b) - 1) : g[k + 1] = FoldOne(g[k], b[k + 1])
        /\ FoldCommands(b, down) = g[Len(b)]
    BY <2>b DEF RunsFolds
  <2> DEFINE n == Len(a)
  <2>4. g[n] = h[n]
    <3> DEFINE D == {k \in 0..n : g[k] = h[k]}
    <3>1. 0 \in D
      BY <2>1, <2>2, <2>3
    <3>2. \A k \in 0..(n - 1) : k \in D => k + 1 \in D
      <4> SUFFICES ASSUME NEW k \in 0..(n - 1), k \in D PROVE k + 1 \in D
        OBVIOUS
      <4>1. k \in 0..(Len(b) - 1) /\ k + 1 \in 0..n /\ g[k] = h[k] /\ b[k + 1] = a[k + 1]
        BY <2>1
      <4>2. g[k + 1] = FoldOne(g[k], b[k + 1]) /\ h[k + 1] = FoldOne(h[k], a[k + 1])
        BY <2>2, <2>3, <4>1
      <4> QED BY <4>1, <4>2
    <3> HIDE DEF D
    <3>3. n \in D
      BY <2>1, <3>1, <3>2, ClimbTo
    <3> QED BY <3>3 DEF D
  <2>5. n \in 0..(Len(b) - 1)
    BY <2>1
  <2> HIDE DEF n
  <2>6. g[n + 1] = FoldOne(g[n], b[n + 1])
    BY <2>3, <2>5
  <2>7. b[n + 1] = x /\ g[n] = FoldCommands(a, down) /\ g[n + 1] = FoldCommands(b, down)
    BY <2>1, <2>2, <2>3, <2>4 DEF n
  <2>8. FoldCommands(b, down) = FoldOne(FoldCommands(a, down), x)
    BY <2>6, <2>7
  <2> QED BY <2>8 DEF b
<1> QED BY <1>2, <1>3, <1>4

(* What a line sends, and the hold it leaves. *)
Progress == [out : Seq(Timed), held : BOOLEAN]
SendLine(s, acc, l) ==
  IF l.at >= s.maxTicks THEN acc
  ELSE [out |-> acc.out \o Stamped(l.at, LineCommands(l, acc.held)),
        held |-> IF l.hold = None THEN acc.held ELSE l.hold]

(* Stamped commands are timed. *)
LEMMA StampedType ==
  ASSUME NEW t \in Nat, NEW cmds \in Seq(Commands)
  PROVE  /\ Stamped(t, cmds) \in Seq(Timed) /\ Len(Stamped(t, cmds)) = Len(cmds)
         /\ \A i \in 1..Len(cmds) : Stamped(t, cmds)[i] = [at |-> t, cmd |-> cmds[i]]
<1>1. Len(cmds) \in Nat /\ DOMAIN cmds = 1..Len(cmds) /\ \A i \in 1..Len(cmds) : cmds[i] \in Commands
  OBVIOUS
<1>2. Stamped(t, cmds) = [i \in 1..Len(cmds) |-> [at |-> t, cmd |-> cmds[i]]]
  BY <1>1 DEF Stamped
<1>3. \A i \in 1..Len(cmds) : [at |-> t, cmd |-> cmds[i]] \in Timed
  BY <1>1 DEF Timed
<1>4. Stamped(t, cmds) \in [1..Len(cmds) -> Timed]
  BY <1>2, <1>3
<1>5. Stamped(t, cmds) \in Seq(Timed)
  BY <1>1, <1>4
<1> QED BY <1>1, <1>2, <1>4, <1>5

(* A script's lines are lines. *)
LEMMA LineIs ==
  ASSUME NEW s \in Scripts, NEW k \in 1..Len(s.lines)
  PROVE  s.lines[k] \in Lines
<1>1. s.lines \in Seq(Lines)
  BY BatchAssumption
<1> QED BY <1>1, ElementOfSeq

(* What a line sends are commands, its presses none of the button's. *)
LEMMA LineSends ==
  ASSUME NEW l \in Lines, NEW kept \in BOOLEAN
  PROVE  /\ PressesOf(l) \in Seq(Commands) /\ NoButton(PressesOf(l))
         /\ LineCommands(l, kept) \in Seq(Commands)
         /\ l.at \in Nat /\ (l.hold # None => l.hold \in BOOLEAN)
<1>1. /\ l.press \in Seq(Commands \ ButtonCommands) /\ l.test \in (Commands \ ButtonCommands) \cup {None}
      /\ l.at \in Nat /\ l.hold \in BOOLEAN \cup {None}
  BY DEF Lines
<1> DEFINE test == IF l.test = None THEN <<>> ELSE <<l.test>>
           hold == IF l.hold \in {None, kept} THEN <<>> ELSE <<IF l.hold THEN "Down" ELSE "Up">>
<1>2. test \in Seq(Commands \ ButtonCommands)
  <2>1. CASE l.test = None
    BY <2>1
  <2>2. CASE l.test # None
    <3>1. l.test \in Commands \ ButtonCommands
      BY <1>1, <2>2
    <3> QED BY <2>2, <3>1
  <2> QED BY <2>1, <2>2
<1>3. hold \in Seq(Commands)
  <2>1. "Down" \in Commands /\ "Up" \in Commands
    BY DEF Commands, ButtonCommands
  <2> QED BY <2>1
<1>4. PressesOf(l) = l.press \o test /\ LineCommands(l, kept) = hold \o PressesOf(l)
  BY DEF PressesOf, LineCommands
<1> HIDE DEF test, hold
<1>5. PressesOf(l) \in Seq(Commands \ ButtonCommands)
  BY <1>1, <1>2, <1>4
<1>6. PressesOf(l) \in Seq(Commands) /\ NoButton(PressesOf(l))
  <2>1. \A i \in 1..Len(PressesOf(l)) : PressesOf(l)[i] \in Commands \ ButtonCommands
    BY <1>5, ElementOfSeq
  <2>2. PressesOf(l) \in Seq(Commands)
    BY <1>5
  <2> QED BY <2>1, <2>2 DEF NoButton
<1>7. LineCommands(l, kept) \in Seq(Commands)
  BY <1>3, <1>4, <1>6
<1> QED BY <1>1, <1>6, <1>7

(* A line sent leaves a schedule and a hold. *)
LEMMA SendLineType ==
  ASSUME NEW s \in Scripts, NEW acc \in Progress, NEW l \in Lines
  PROVE  SendLine(s, acc, l) \in Progress
<1>1. acc.out \in Seq(Timed) /\ acc.held \in BOOLEAN
  BY DEF Progress
<1>2. /\ l.at \in Nat /\ LineCommands(l, acc.held) \in Seq(Commands) /\ (l.hold # None => l.hold \in BOOLEAN)
  BY <1>1, LineSends
<1>3. Stamped(l.at, LineCommands(l, acc.held)) \in Seq(Timed)
  BY <1>2, StampedType
<1>4. acc.out \o Stamped(l.at, LineCommands(l, acc.held)) \in Seq(Timed)
  BY <1>1, <1>3
<1> QED BY <1>1, <1>2, <1>4 DEF SendLine, Progress

(* The values it goes through. *)
RunsSent(h, s) ==
  /\ h \in [0..Len(s.lines) -> Progress] /\ h[0] = [out |-> <<>>, held |-> FALSE]
  /\ \A k \in 0..(Len(s.lines) - 1) : h[k + 1] = SendLine(s, h[k], s.lines[k + 1])
  /\ Sent(s) = h[Len(s.lines)]

(* A script is sent a line at a time. *)
LEMMA SentThrough ==
  ASSUME NEW s \in Scripts
  PROVE  \E h : RunsSent(h, s)
<1> DEFINE n == Len(s.lines)
           base == [out |-> <<>>, held |-> FALSE]
           step == [e \in Progress \X (1..n) |-> SendLine(s, e[1], s.lines[e[2]])]
           Recurs(f) == f = [z \in SUBSET (1..n) |->
                               IF z = {} THEN base ELSE SendLine(s, f[z \ {Max(z)}], s.lines[Max(z)])]
<1>1. n \in Nat /\ DOMAIN s.lines = 1..n
  OBVIOUS
<1>2. base \in Progress
  BY DEF Progress
<1>3. \A a \in Progress, k \in 1..n : SendLine(s, a, s.lines[k]) \in Progress
  BY <1>1, LineIs, SendLineType
<1>4. /\ step \in [Progress \X (1..n) -> Progress]
      /\ \A a \in Progress, k \in 1..n : step[<<a, k>>] = SendLine(s, a, s.lines[k])
  BY <1>3
<1>5. Sent(s) = (CHOOSE f : Recurs(f))[1..n]
  BY <1>1 DEF Sent, SendLine, FoldLeft, MapThenFoldSet
<1>6. PICK h, g : /\ Through(h, n, Progress, base, step)
                  /\ g \in [SUBSET (1..n) -> Progress] /\ Folding(g, n, base, step)
  BY <1>1, <1>2, <1>4, FoldThrough
<1>7. Recurs(g)
  <2>1. ASSUME NEW z \in SUBSET (1..n), z # {}
        PROVE  step[<<g[z \ {Max(z)}], Max(z)>>] = SendLine(s, g[z \ {Max(z)}], s.lines[Max(z)])
    <3>1. Max(z) \in 1..n /\ g[z \ {Max(z)}] \in Progress
      BY <1>1, <1>6, <2>1, MaxIsIn
    <3> QED BY <1>4, <3>1
  <2> HIDE DEF step
  <2> QED BY <1>6, <2>1 DEF Folding
<1>8. PICK f : Recurs(f) /\ Sent(s) = f[1..n]
  BY <1>5, <1>7
<1>9. GoesOn(f, n, Progress, base, step)
  <2>1. f[{}] = base
    BY <1>8
  <2>2. ASSUME NEW k \in 0..(n - 1), f[1..k] \in Progress PROVE f[1..(k + 1)] = step[<<f[1..k], k + 1>>]
    <3> DEFINE t == 1..(k + 1)
    <3>1. k \in Nat /\ k + 1 \in 1..n /\ t \in SUBSET (1..n)
      BY <1>1
    <3>2. t # {} /\ Max(t) = k + 1 /\ t \ {k + 1} = 1..k
      BY <3>1, MaxUpto
    <3> HIDE DEF t
    <3>3. f[t] = SendLine(s, f[t \ {Max(t)}], s.lines[Max(t)])
      BY <1>8, <3>1, <3>2
    <3>4. f[t] = SendLine(s, f[1..k], s.lines[k + 1])
      BY <3>2, <3>3
    <3> HIDE DEF step
    <3> QED BY <1>4, <2>2, <3>1, <3>4 DEF t
  <2> HIDE DEF step
  <2> QED BY <2>1, <2>2 DEF GoesOn
<1>10. Sent(s) = h[n]
  <2> HIDE DEF step, base, n, Recurs
  <2>1. f[1..n] = h[n]
    BY <1>1, <1>6, <1>9, FoldUnique
  <2> QED BY <1>8, <2>1
<1>11. \A k \in 0..(n - 1) : h[k + 1] = SendLine(s, h[k], s.lines[k + 1])
  <2> SUFFICES ASSUME NEW k \in 0..(n - 1) PROVE h[k + 1] = SendLine(s, h[k], s.lines[k + 1])
    OBVIOUS
  <2> HIDE DEF step, base
  <2>1. k \in 0..n /\ k + 1 \in 1..n
    BY <1>1
  <2>2. h[k] \in Progress
    BY <1>6, <2>1 DEF Through
  <2> QED BY <1>4, <1>6, <2>1, <2>2 DEF Through
<1> QED BY <1>6, <1>10, <1>11 DEF Through, RunsSent

(* The values it goes through. *)
RunsHold(h, tick, s) ==
  /\ h \in [0..Len(s.lines) -> BOOLEAN] /\ h[0] = FALSE
  /\ \A k \in 0..(Len(s.lines) - 1) : h[k + 1] = (IF s.lines[k + 1].at <= tick /\ s.lines[k + 1].hold # None
                                                     THEN s.lines[k + 1].hold
                                                     ELSE h[k])
  /\ HoldAt(s, tick) = h[Len(s.lines)]

(* A script's hold at a tick is found a line at a time. *)
LEMMA HoldThrough ==
  ASSUME NEW tick, NEW s \in Scripts
  PROVE  \E h : RunsHold(h, tick, s)
<1> DEFINE n == Len(s.lines)
           base == FALSE
           step == [e \in BOOLEAN \X (1..n) |-> (IF s.lines[e[2]].at <= tick /\ s.lines[e[2]].hold # None
                                                    THEN s.lines[e[2]].hold
                                                    ELSE e[1])]
           Recurs(f) == f = [z \in SUBSET (1..n) |->
                               IF z = {} THEN base ELSE (IF s.lines[Max(z)].at <= tick /\ s.lines[Max(z)].hold # None
                                                            THEN s.lines[Max(z)].hold
                                                            ELSE f[z \ {Max(z)}])]
<1>1. n \in Nat /\ DOMAIN s.lines = 1..n
  OBVIOUS
<1>2. base \in BOOLEAN
  OBVIOUS
<1>3. \A a \in BOOLEAN, k \in 1..n : (IF s.lines[k].at <= tick /\ s.lines[k].hold # None
                                         THEN s.lines[k].hold
                                         ELSE a) \in BOOLEAN
  <2>1. \A k \in 1..n : s.lines[k] \in Lines
    BY <1>1, LineIs
  <2>2. \A k \in 1..n : PressesOf(s.lines[k]) \in Seq(Commands) /\ (s.lines[k].hold # None => s.lines[k].hold \in BOOLEAN)
    BY <2>1, LineSends
  <2> QED BY <2>2
<1>4. /\ step \in [BOOLEAN \X (1..n) -> BOOLEAN]
      /\ \A a \in BOOLEAN, k \in 1..n : step[<<a, k>>] = (IF s.lines[k].at <= tick /\ s.lines[k].hold # None
                                                             THEN s.lines[k].hold
                                                             ELSE a)
  BY <1>3
<1>5. HoldAt(s, tick) = (CHOOSE f : Recurs(f))[1..n]
  BY <1>1 DEF HoldAt, FoldLeft, MapThenFoldSet
<1>6. PICK h, g : /\ Through(h, n, BOOLEAN, base, step)
                  /\ g \in [SUBSET (1..n) -> BOOLEAN] /\ Folding(g, n, base, step)
  BY <1>1, <1>2, <1>4, FoldThrough
<1>7. Recurs(g)
  <2>1. ASSUME NEW z \in SUBSET (1..n), z # {}
        PROVE  step[<<g[z \ {Max(z)}], Max(z)>>] = (IF s.lines[Max(z)].at <= tick /\ s.lines[Max(z)].hold # None
                                                       THEN s.lines[Max(z)].hold
                                                       ELSE g[z \ {Max(z)}])
    <3>1. Max(z) \in 1..n /\ g[z \ {Max(z)}] \in BOOLEAN
      BY <1>1, <1>6, <2>1, MaxIsIn
    <3> QED BY <1>4, <3>1
  <2> HIDE DEF step
  <2> QED BY <1>6, <2>1 DEF Folding
<1>8. PICK f : Recurs(f) /\ HoldAt(s, tick) = f[1..n]
  BY <1>5, <1>7
<1>9. GoesOn(f, n, BOOLEAN, base, step)
  <2>1. f[{}] = base
    BY <1>8
  <2>2. ASSUME NEW k \in 0..(n - 1), f[1..k] \in BOOLEAN PROVE f[1..(k + 1)] = step[<<f[1..k], k + 1>>]
    <3> DEFINE t == 1..(k + 1)
    <3>1. k \in Nat /\ k + 1 \in 1..n /\ t \in SUBSET (1..n)
      BY <1>1
    <3>2. t # {} /\ Max(t) = k + 1 /\ t \ {k + 1} = 1..k
      BY <3>1, MaxUpto
    <3> HIDE DEF t
    <3>3. f[t] = (IF s.lines[Max(t)].at <= tick /\ s.lines[Max(t)].hold # None
                     THEN s.lines[Max(t)].hold
                     ELSE f[t \ {Max(t)}])
      BY <1>8, <3>1, <3>2
    <3>4. f[t] = (IF s.lines[k + 1].at <= tick /\ s.lines[k + 1].hold # None THEN s.lines[k + 1].hold ELSE f[1..k])
      BY <3>2, <3>3
    <3> HIDE DEF step
    <3> QED BY <1>4, <2>2, <3>1, <3>4 DEF t
  <2> HIDE DEF step
  <2> QED BY <2>1, <2>2 DEF GoesOn
<1>10. HoldAt(s, tick) = h[n]
  <2> HIDE DEF step, base, n, Recurs
  <2>1. f[1..n] = h[n]
    BY <1>1, <1>6, <1>9, FoldUnique
  <2> QED BY <1>8, <2>1
<1>11. \A k \in 0..(n - 1) : h[k + 1] = (IF s.lines[k + 1].at <= tick /\ s.lines[k + 1].hold # None
                                            THEN s.lines[k + 1].hold
                                            ELSE h[k])
  <2> SUFFICES ASSUME NEW k \in 0..(n - 1)
               PROVE  h[k + 1] = (IF s.lines[k + 1].at <= tick /\ s.lines[k + 1].hold # None
                                     THEN s.lines[k + 1].hold
                                     ELSE h[k])
    OBVIOUS
  <2> HIDE DEF step, base
  <2>1. k \in 0..n /\ k + 1 \in 1..n
    BY <1>1
  <2>2. h[k] \in BOOLEAN
    BY <1>6, <2>1 DEF Through
  <2> QED BY <1>4, <1>6, <2>1, <2>2 DEF Through
<1> QED BY <1>6, <1>10, <1>11 DEF Through, RunsHold

(* The values it goes through. *)
RunsFired(h, tick, s) ==
  /\ h \in [0..Len(s.lines) -> Seq(Commands)] /\ h[0] = <<>>
  /\ \A k \in 0..(Len(s.lines) - 1) : h[k + 1] = (IF s.lines[k + 1].at = tick
                                                     THEN h[k] \o PressesOf(s.lines[k + 1])
                                                     ELSE h[k])
  /\ FiredAt(s, tick) = h[Len(s.lines)]

(* What a script fires at a tick is found a line at a time. *)
LEMMA FiredThrough ==
  ASSUME NEW tick, NEW s \in Scripts
  PROVE  \E h : RunsFired(h, tick, s)
<1> DEFINE n == Len(s.lines)
           base == <<>>
           step == [e \in Seq(Commands) \X (1..n) |-> (IF s.lines[e[2]].at = tick
                                                          THEN e[1] \o PressesOf(s.lines[e[2]])
                                                          ELSE e[1])]
           Recurs(f) == f = [z \in SUBSET (1..n) |->
                               IF z = {} THEN base ELSE (IF s.lines[Max(z)].at = tick
                                                            THEN f[z \ {Max(z)}] \o PressesOf(s.lines[Max(z)])
                                                            ELSE f[z \ {Max(z)}])]
<1>1. n \in Nat /\ DOMAIN s.lines = 1..n
  OBVIOUS
<1>2. base \in Seq(Commands)
  OBVIOUS
<1>3. \A a \in Seq(Commands), k \in 1..n : (IF s.lines[k].at = tick
                                               THEN a \o PressesOf(s.lines[k])
                                               ELSE a) \in Seq(Commands)
  <2>1. \A k \in 1..n : s.lines[k] \in Lines
    BY <1>1, LineIs
  <2>2. \A k \in 1..n : PressesOf(s.lines[k]) \in Seq(Commands) /\ (s.lines[k].hold # None => s.lines[k].hold \in BOOLEAN)
    BY <2>1, LineSends
  <2> QED BY <2>2
<1>4. /\ step \in [Seq(Commands) \X (1..n) -> Seq(Commands)]
      /\ \A a \in Seq(Commands), k \in 1..n : step[<<a, k>>] = (IF s.lines[k].at = tick
                                                                   THEN a \o PressesOf(s.lines[k])
                                                                   ELSE a)
  BY <1>3
<1>5. FiredAt(s, tick) = (CHOOSE f : Recurs(f))[1..n]
  BY <1>1 DEF FiredAt, FoldLeft, MapThenFoldSet
<1>6. PICK h, g : /\ Through(h, n, Seq(Commands), base, step)
                  /\ g \in [SUBSET (1..n) -> Seq(Commands)] /\ Folding(g, n, base, step)
  BY <1>1, <1>2, <1>4, FoldThrough
<1>7. Recurs(g)
  <2>1. ASSUME NEW z \in SUBSET (1..n), z # {}
        PROVE  step[<<g[z \ {Max(z)}], Max(z)>>] = (IF s.lines[Max(z)].at = tick
                                                       THEN g[z \ {Max(z)}] \o PressesOf(s.lines[Max(z)])
                                                       ELSE g[z \ {Max(z)}])
    <3>1. Max(z) \in 1..n /\ g[z \ {Max(z)}] \in Seq(Commands)
      BY <1>1, <1>6, <2>1, MaxIsIn
    <3> QED BY <1>4, <3>1
  <2> HIDE DEF step
  <2> QED BY <1>6, <2>1 DEF Folding
<1>8. PICK f : Recurs(f) /\ FiredAt(s, tick) = f[1..n]
  BY <1>5, <1>7
<1>9. GoesOn(f, n, Seq(Commands), base, step)
  <2>1. f[{}] = base
    BY <1>8
  <2>2. ASSUME NEW k \in 0..(n - 1), f[1..k] \in Seq(Commands) PROVE f[1..(k + 1)] = step[<<f[1..k], k + 1>>]
    <3> DEFINE t == 1..(k + 1)
    <3>1. k \in Nat /\ k + 1 \in 1..n /\ t \in SUBSET (1..n)
      BY <1>1
    <3>2. t # {} /\ Max(t) = k + 1 /\ t \ {k + 1} = 1..k
      BY <3>1, MaxUpto
    <3> HIDE DEF t
    <3>3. f[t] = (IF s.lines[Max(t)].at = tick
                     THEN f[t \ {Max(t)}] \o PressesOf(s.lines[Max(t)])
                     ELSE f[t \ {Max(t)}])
      BY <1>8, <3>1, <3>2
    <3>4. f[t] = (IF s.lines[k + 1].at = tick THEN f[1..k] \o PressesOf(s.lines[k + 1]) ELSE f[1..k])
      BY <3>2, <3>3
    <3> HIDE DEF step
    <3> QED BY <1>4, <2>2, <3>1, <3>4 DEF t
  <2> HIDE DEF step
  <2> QED BY <2>1, <2>2 DEF GoesOn
<1>10. FiredAt(s, tick) = h[n]
  <2> HIDE DEF step, base, n, Recurs
  <2>1. f[1..n] = h[n]
    BY <1>1, <1>6, <1>9, FoldUnique
  <2> QED BY <1>8, <2>1
<1>11. \A k \in 0..(n - 1) : h[k + 1] = (IF s.lines[k + 1].at = tick THEN h[k] \o PressesOf(s.lines[k + 1]) ELSE h[k])
  <2> SUFFICES ASSUME NEW k \in 0..(n - 1)
               PROVE  h[k + 1] = (IF s.lines[k + 1].at = tick THEN h[k] \o PressesOf(s.lines[k + 1]) ELSE h[k])
    OBVIOUS
  <2> HIDE DEF step, base
  <2>1. k \in 0..n /\ k + 1 \in 1..n
    BY <1>1
  <2>2. h[k] \in Seq(Commands)
    BY <1>6, <2>1 DEF Through
  <2> QED BY <1>4, <1>6, <2>1, <2>2 DEF Through
<1> QED BY <1>6, <1>10, <1>11 DEF Through, RunsFired

(* What the ticks have been given, and the hold they leave. *)
Feeding == [inputs : Seq(Inputs), held : BOOLEAN]

(* The values it goes through. *)
RunsFed(h, merged) ==
  /\ h \in [0..Len(merged) -> Feeding] /\ h[0] = [inputs |-> <<>>, held |-> FALSE]
  /\ \A k \in 0..(Len(merged) - 1) : h[k + 1] =
           [inputs |-> Append(h[k].inputs, FoldCommands(merged[k + 1], h[k].held)),
            held |-> HeldAfter(merged[k + 1], h[k].held)]
  /\ Fed(merged) = h[Len(merged)]

(* Ticks are given their inputs one after another. *)
LEMMA FedThrough ==
  ASSUME NEW merged \in Seq(Seq(Commands))
  PROVE  \E h : RunsFed(h, merged)
<1> DEFINE n == Len(merged)
           base == [inputs |-> <<>>, held |-> FALSE]
           step == [e \in Feeding \X (1..n) |-> [inputs |-> Append(e[1].inputs, FoldCommands(merged[e[2]], e[1].held)),
                                                 held |-> HeldAfter(merged[e[2]], e[1].held)]]
           Recurs(f) == f = [s \in SUBSET (1..n) |->
                               IF s = {} THEN base ELSE
                                        [inputs |-> Append(f[s \ {Max(s)}].inputs, FoldCommands(merged[Max(s)], f[s \ {Max(s)}].held)),
                                         held |-> HeldAfter(merged[Max(s)], f[s \ {Max(s)}].held)]]
<1>1. n \in Nat /\ DOMAIN merged = 1..n
  OBVIOUS
<1>2. base \in Feeding
  BY DEF Feeding
<1>3. \A a \in Feeding, k \in 1..n : [inputs |-> Append(a.inputs, FoldCommands(merged[k], a.held)),
                                      held |-> HeldAfter(merged[k], a.held)] \in Feeding
  BY <1>1, FoldedType DEF Feeding
<1>4. /\ step \in [Feeding \X (1..n) -> Feeding]
      /\ \A a \in Feeding, k \in 1..n : step[<<a, k>>] = [inputs |-> Append(a.inputs, FoldCommands(merged[k], a.held)),
                                                          held |-> HeldAfter(merged[k], a.held)]
  BY <1>3
<1>5. Fed(merged) = (CHOOSE f : Recurs(f))[1..n]
  BY <1>1 DEF Fed, FoldLeft, MapThenFoldSet
<1>6. PICK h, g : /\ Through(h, n, Feeding, base, step)
                  /\ g \in [SUBSET (1..n) -> Feeding] /\ Folding(g, n, base, step)
  BY <1>1, <1>2, <1>4, FoldThrough
<1>7. Recurs(g)
  <2>1. ASSUME NEW s \in SUBSET (1..n), s # {}
        PROVE  step[<<g[s \ {Max(s)}], Max(s)>>] =
                 [inputs |-> Append(g[s \ {Max(s)}].inputs, FoldCommands(merged[Max(s)], g[s \ {Max(s)}].held)),
                  held |-> HeldAfter(merged[Max(s)], g[s \ {Max(s)}].held)]
    <3>1. Max(s) \in 1..n /\ g[s \ {Max(s)}] \in Feeding
      BY <1>1, <1>6, <2>1, MaxIsIn
    <3> QED BY <1>4, <3>1
  <2> HIDE DEF step
  <2> QED BY <1>6, <2>1 DEF Folding
<1>8. PICK f : Recurs(f) /\ Fed(merged) = f[1..n]
  BY <1>5, <1>7
<1>9. GoesOn(f, n, Feeding, base, step)
  <2>1. f[{}] = base
    BY <1>8
  <2>2. ASSUME NEW k \in 0..(n - 1), f[1..k] \in Feeding PROVE f[1..(k + 1)] = step[<<f[1..k], k + 1>>]
    <3> DEFINE t == 1..(k + 1)
    <3>1. k \in Nat /\ k + 1 \in 1..n /\ t \in SUBSET (1..n)
      BY <1>1
    <3>2. t # {} /\ Max(t) = k + 1 /\ t \ {k + 1} = 1..k
      BY <3>1, MaxUpto
    <3> HIDE DEF t
    <3>3. f[t] = [inputs |-> Append(f[t \ {Max(t)}].inputs, FoldCommands(merged[Max(t)], f[t \ {Max(t)}].held)),
                  held |-> HeldAfter(merged[Max(t)], f[t \ {Max(t)}].held)]
      BY <1>8, <3>1, <3>2
    <3>4. f[t] = [inputs |-> Append(f[1..k].inputs, FoldCommands(merged[k + 1], f[1..k].held)),
                  held |-> HeldAfter(merged[k + 1], f[1..k].held)]
      BY <3>2, <3>3
    <3> HIDE DEF step
    <3> QED BY <1>4, <2>2, <3>1, <3>4 DEF t
  <2> HIDE DEF step
  <2> QED BY <2>1, <2>2 DEF GoesOn
<1>10. Fed(merged) = h[n]
  <2> HIDE DEF step, base, n, Recurs
  <2>1. f[1..n] = h[n]
    BY <1>1, <1>6, <1>9, FoldUnique
  <2> QED BY <1>8, <2>1
<1>11. \A k \in 0..(n - 1) : h[k + 1] = [inputs |-> Append(h[k].inputs, FoldCommands(merged[k + 1], h[k].held)),
                                         held |-> HeldAfter(merged[k + 1], h[k].held)]
  <2> SUFFICES ASSUME NEW k \in 0..(n - 1)
               PROVE  h[k + 1] = [inputs |-> Append(h[k].inputs, FoldCommands(merged[k + 1], h[k].held)),
                                  held |-> HeldAfter(merged[k + 1], h[k].held)]
    OBVIOUS
  <2> HIDE DEF step, base
  <2>1. k \in 0..n /\ k + 1 \in 1..n
    BY <1>1
  <2>2. h[k] \in Feeding
    BY <1>6, <2>1 DEF Through
  <2> QED BY <1>4, <1>6, <2>1, <2>2 DEF Through
<1> QED BY <1>6, <1>10, <1>11 DEF Through, RunsFed

(* What holds of no elements and goes on holding at each holds of all lists. *)
LEMMA ListClimb ==
  ASSUME NEW S, NEW B, <<>> \in B,
         \A a \in Seq(S), x \in S : a \in B => Append(a, x) \in B
  PROVE  \A a \in Seq(S) : a \in B
<1> SUFFICES ASSUME NEW a \in Seq(S) PROVE a \in B
  OBVIOUS
<1> DEFINE n == Len(a)
           D == {k \in 0..n : SubSeq(a, 1, k) \in B}
<1>1. n \in Nat /\ SubSeq(a, 1, 0) = <<>> /\ SubSeq(a, 1, n) = a
  OBVIOUS
<1>2. 0 \in D
  <2> HIDE DEF n
  <2>1. 0 \in 0..n
    BY <1>1
  <2>2. SubSeq(a, 1, 0) \in B
    BY <1>1, Zenon
  <2> QED BY <2>1, <2>2
<1>3. ASSUME NEW k \in 0..(n - 1), k \in D PROVE k + 1 \in D
  <2>1. SubSeq(a, 1, k) \in Seq(S) /\ a[k + 1] \in S /\ k + 1 \in 0..n
    BY <1>1
  <2>2. SubSeq(a, 1, k + 1) = Append(SubSeq(a, 1, k), a[k + 1])
    BY <1>1
  <2>3. SubSeq(a, 1, k + 1) \in B
    BY <1>3, <2>1, <2>2
  <2> QED BY <2>1, <2>3
<1>4. n \in D
  <2> HIDE DEF D, n
  <2> QED BY <1>1, <1>2, <1>3, ClimbTo
<1> QED BY <1>1, <1>4

(* Joining lists an element at a time. *)
LEMMA JoinMore ==
  ASSUME NEW S, NEW a \in Seq(S), NEW b \in Seq(S), NEW x \in S
  PROVE  /\ a \o <<>> = a /\ <<>> \o a = a /\ a \o b \in Seq(S)
         /\ Append(a, x) \in Seq(S) /\ a \o Append(b, x) = Append(a \o b, x)
OBVIOUS

(* What two lists joined bring at a tick. *)
LEMMA AtJoined ==
  ASSUME NEW tick, NEW a \in Seq(Timed)
  PROVE  \A b \in Seq(Timed) : At(a \o b, tick) = At(a, tick) \o At(b, tick)
<1> DEFINE B == {b \in Seq(Timed) : At(a \o b, tick) = At(a, tick) \o At(b, tick)}
<1>1. <<>> \in B
  <2>1. At(<<>>, tick) = <<>> /\ At(a, tick) \in Seq(Commands)
    BY AtMore
  <2>2. a \o <<>> = a /\ At(a, tick) \o <<>> = At(a, tick) /\ <<>> \in Seq(Timed)
    BY <2>1
  <2> QED BY <2>1, <2>2
<1>2. ASSUME NEW b \in Seq(Timed), NEW x \in Timed, b \in B PROVE Append(b, x) \in B
  <2> DEFINE p == At(a, tick)
             q == At(b, tick)
             j == At(a \o b, tick)
  <2>1. p \in Seq(Commands) /\ q \in Seq(Commands) /\ x.cmd \in Commands /\ a \o b \in Seq(Timed)
    <3>1. p \in Seq(Commands) /\ q \in Seq(Commands)
      BY AtMore
    <3>2. x.cmd \in Commands
      BY DEF Timed
    <3> QED BY <3>1, <3>2
  <2>2. j = p \o q
    BY <1>2
  <2>3. At(Append(b, x), tick) = (IF x.at = tick THEN Append(q, x.cmd) ELSE q)
    BY AtMore
  <2>4. At(Append(a \o b, x), tick) = (IF x.at = tick THEN Append(j, x.cmd) ELSE j)
    BY <2>1, AtMore
  <2>5. a \o Append(b, x) = Append(a \o b, x) /\ Append(b, x) \in Seq(Timed)
    BY JoinMore
  <2>6. p \o Append(q, x.cmd) = Append(p \o q, x.cmd)
    BY <2>1, JoinMore
  <2>7. At(a \o Append(b, x), tick) = p \o At(Append(b, x), tick)
    <3> HIDE DEF p, q, j
    <3>1. CASE x.at = tick
      BY <2>2, <2>3, <2>4, <2>5, <2>6, <3>1
    <3>2. CASE x.at # tick
      BY <2>2, <2>3, <2>4, <2>5, <3>2
    <3> QED BY <3>1, <3>2
  <2> QED BY <2>5, <2>7
<1> HIDE DEF B
<1>3. \A b \in Seq(Timed) : b \in B
  BY <1>1, <1>2, ListClimb
<1> QED BY <1>3 DEF B

(* Commands stamped with a tick are due at that tick and at no other. *)
LEMMA AtStamped ==
  ASSUME NEW tick, NEW t \in Nat
  PROVE  \A cmds \in Seq(Commands) : At(Stamped(t, cmds), tick) = IF t = tick THEN cmds ELSE <<>>
<1> DEFINE B == {cmds \in Seq(Commands) : At(Stamped(t, cmds), tick) = IF t = tick THEN cmds ELSE <<>>}
<1>1. <<>> \in B
  <2>1. Stamped(t, <<>>) = <<>>
    BY DEF Stamped
  <2>2. At(<<>>, tick) = <<>>
    BY AtMore
  <2> QED BY <2>1, <2>2
<1>2. ASSUME NEW cmds \in Seq(Commands), NEW c \in Commands, cmds \in B PROVE Append(cmds, c) \in B
  <2> DEFINE m == Append(cmds, c)
             x == [at |-> t, cmd |-> c]
             old == Stamped(t, cmds)
             new == Stamped(t, m)
  <2>1. /\ m \in Seq(Commands) /\ Len(m) = Len(cmds) + 1 /\ Len(cmds) \in Nat /\ m[Len(cmds) + 1] = c
        /\ \A i \in 1..Len(cmds) : m[i] = cmds[i]
    OBVIOUS
  <2>2. x \in Timed /\ x.at = t /\ x.cmd = c
    BY DEF Timed
  <2>3. old \in Seq(Timed) /\ Len(old) = Len(cmds) /\ \A i \in 1..Len(cmds) : old[i] = [at |-> t, cmd |-> cmds[i]]
    BY StampedType
  <2> HIDE DEF m
  <2>4. new \in Seq(Timed) /\ Len(new) = Len(m) /\ \A i \in 1..Len(m) : new[i] = [at |-> t, cmd |-> m[i]]
    BY <2>1, StampedType
  <2>5. new = Append(old, x)
    <3> HIDE DEF new, old
    <3> DEFINE ap == Append(old, x)
    <3>1. ap \in Seq(Timed) /\ Len(ap) = Len(cmds) + 1 /\ \A i \in 1..Len(cmds) : ap[i] = old[i]
      BY <2>2, <2>3 DEF x
    <3>2. ap[Len(cmds) + 1] = x
      BY <2>2, <2>3 DEF x
    <3>3. \A i \in 1..Len(new) : new[i] = ap[i]
      <4> HIDE DEF ap
      <4> SUFFICES ASSUME NEW i \in 1..Len(new) PROVE new[i] = ap[i]
        OBVIOUS
      <4>1. i \in 1..Len(m)
        BY <2>4
      <4>2. new[i] = [at |-> t, cmd |-> m[i]]
        BY <2>4, <4>1
      <4>3. CASE i = Len(cmds) + 1
        <5>1. m[i] = c /\ ap[i] = x
          BY <2>1, <3>2, <4>3
        <5> QED BY <4>2, <5>1
      <4>4. CASE i # Len(cmds) + 1
        <5>1. i \in 1..Len(cmds)
          BY <2>1, <4>1, <4>4
        <5>2. m[i] = cmds[i] /\ ap[i] = old[i] /\ old[i] = [at |-> t, cmd |-> cmds[i]]
          BY <2>1, <2>3, <3>1, <5>1
        <5> QED BY <4>2, <5>2
      <4> QED BY <4>3, <4>4
    <3> HIDE DEF ap
    <3>4. Len(new) = Len(ap)
      BY <2>1, <2>4, <3>1
    <3>5. new = ap
      BY <2>4, <3>1, <3>3, <3>4, SeqEqual
    <3> QED BY <3>5 DEF ap
  <2>6. At(old, tick) = IF t = tick THEN cmds ELSE <<>>
    BY <1>2
  <2>7. At(new, tick) = (IF x.at = tick THEN Append(At(old, tick), x.cmd) ELSE At(old, tick))
    <3> HIDE DEF new, old, x
    <3> QED BY <2>2, <2>3, <2>5, AtMore
  <2>8. At(new, tick) = IF t = tick THEN m ELSE <<>>
    <3> HIDE DEF new, old, x
    <3> QED BY <2>2, <2>6, <2>7 DEF m
  <2> QED BY <2>1, <2>8 DEF m
<1> HIDE DEF B
<1>3. \A cmds \in Seq(Commands) : cmds \in B
  BY <1>1, <1>2, ListClimb
<1> QED BY <1>3 DEF B

(* Inputs are the same that agree in their parts. *)
LEMMA SameInput ==
  ASSUME NEW a \in Inputs, NEW b \in Inputs,
         a.button = b.button, a.edges = b.edges, a.immediates = b.immediates
  PROVE  a = b
BY DEF Inputs

(* From one input the same commands make one input. *)
LEMMA FoldsOn ==
  ASSUME NEW a \in Seq(Commands), NEW b \in Seq(Commands), NEW p \in BOOLEAN, NEW q \in BOOLEAN,
         FoldCommands(a, p) = FoldCommands(b, q)
  PROVE  \A c \in Seq(Commands) : FoldCommands(a \o c, p) = FoldCommands(b \o c, q)
<1> DEFINE B == {c \in Seq(Commands) : FoldCommands(a \o c, p) = FoldCommands(b \o c, q)}
<1>1. <<>> \in B
  <2>1. a \o <<>> = a /\ b \o <<>> = b /\ <<>> \in Seq(Commands)
    OBVIOUS
  <2> QED BY <2>1
<1>2. ASSUME NEW c \in Seq(Commands), NEW x \in Commands, c \in B PROVE Append(c, x) \in B
  <2>1. /\ a \o Append(c, x) = Append(a \o c, x) /\ b \o Append(c, x) = Append(b \o c, x)
        /\ Append(c, x) \in Seq(Commands) /\ a \o c \in Seq(Commands) /\ b \o c \in Seq(Commands)
    BY JoinMore
  <2>2. /\ FoldCommands(Append(a \o c, x), p) = FoldOne(FoldCommands(a \o c, p), x)
        /\ FoldCommands(Append(b \o c, x), q) = FoldOne(FoldCommands(b \o c, q), x)
    BY <2>1, FoldMore
  <2>3. FoldCommands(a \o c, p) = FoldCommands(b \o c, q)
    BY <1>2
  <2>4. FoldCommands(a \o Append(c, x), p) = FoldCommands(b \o Append(c, x), q)
    BY <2>1, <2>2, <2>3
  <2> QED BY <2>1, <2>4
<1> HIDE DEF B
<1>3. \A c \in Seq(Commands) : c \in B
  BY <1>1, <1>2, ListClimb
<1> QED BY <1>3 DEF B

(* A button command leaves the lists. *)
LEMMA FoldOnePress ==
  ASSUME NEW a \in Inputs, NEW x \in ButtonCommands
  PROVE  FoldOne(a, x).edges = a.edges /\ FoldOne(a, x).immediates = a.immediates
<1>1. \A y \in Inputs, d \in ButtonCommands : FoldOne(y, d) = [y EXCEPT !.button = d = "Down"]
  BY DEF FoldOne, ButtonCommands, EdgeCommands
<1>2. \A y \in Inputs, d \in ButtonCommands :
        [y EXCEPT !.button = d = "Down"].edges = y.edges /\ [y EXCEPT !.button = d = "Down"].immediates = y.immediates
  BY Zenon DEF Inputs
<1> DEFINE y == [a EXCEPT !.button = x = "Down"]
<1>3. FoldOne(a, x) = y
  BY <1>1
<1>4. y.edges = a.edges /\ y.immediates = a.immediates
  BY <1>2
<1> HIDE DEF y
<1> QED BY <1>3, <1>4, Zenon

(* What one command does to the lists of an input does not look at its button. *)
LEMMA FoldOneRest ==
  ASSUME NEW a \in Inputs, NEW b \in Inputs, NEW x \in Commands, a.edges = b.edges, a.immediates = b.immediates
  PROVE  FoldOne(a, x).edges = FoldOne(b, x).edges /\ FoldOne(a, x).immediates = FoldOne(b, x).immediates
<1>1. CASE x \in ButtonCommands
  BY <1>1, FoldOnePress
<1>2. CASE x \notin ButtonCommands /\ x \in EdgeCommands
  <2>1. FoldOne(a, x) = [a EXCEPT !.edges = Append(@, x)] /\ FoldOne(b, x) = [b EXCEPT !.edges = Append(@, x)]
    BY <1>2 DEF FoldOne
  <2> QED BY <2>1 DEF Inputs
<1>3. CASE x \notin ButtonCommands /\ x \notin EdgeCommands
  <2>1. /\ FoldOne(a, x) = [a EXCEPT !.immediates = Append(@, x)]
        /\ FoldOne(b, x) = [b EXCEPT !.immediates = Append(@, x)]
    BY <1>3 DEF FoldOne
  <2> QED BY <2>1 DEF Inputs
<1> QED BY <1>1, <1>2, <1>3

(* The lists of an input do not depend on the button it started from. *)
LEMMA FoldLists ==
  ASSUME NEW p \in BOOLEAN, NEW q \in BOOLEAN
  PROVE  \A c \in Seq(Commands) : /\ FoldCommands(c, p).edges = FoldCommands(c, q).edges
                                  /\ FoldCommands(c, p).immediates = FoldCommands(c, q).immediates
<1> DEFINE B == {c \in Seq(Commands) : /\ FoldCommands(c, p).edges = FoldCommands(c, q).edges
                                       /\ FoldCommands(c, p).immediates = FoldCommands(c, q).immediates}
<1>1. <<>> \in B
  <2>1. /\ FoldCommands(<<>>, p) = [button |-> p, edges |-> <<>>, immediates |-> <<>>]
        /\ FoldCommands(<<>>, q) = [button |-> q, edges |-> <<>>, immediates |-> <<>>]
    BY FoldMore
  <2> QED BY <2>1
<1>2. ASSUME NEW c \in Seq(Commands), NEW x \in Commands, c \in B PROVE Append(c, x) \in B
  <2>1. FoldCommands(Append(c, x), p) = FoldOne(FoldCommands(c, p), x) /\ FoldCommands(c, p) \in Inputs
    BY FoldMore
  <2>2. FoldCommands(Append(c, x), q) = FoldOne(FoldCommands(c, q), x) /\ FoldCommands(c, q) \in Inputs
    BY FoldMore
  <2>3. /\ FoldCommands(c, p).edges = FoldCommands(c, q).edges
        /\ FoldCommands(c, p).immediates = FoldCommands(c, q).immediates
    BY <1>2
  <2>4. /\ FoldCommands(Append(c, x), p).edges = FoldCommands(Append(c, x), q).edges
        /\ FoldCommands(Append(c, x), p).immediates = FoldCommands(Append(c, x), q).immediates
    BY <2>1, <2>2, <2>3, FoldOneRest
  <2> QED BY <2>4
<1> HIDE DEF B
<1>3. \A c \in Seq(Commands) : c \in B
  BY <1>1, <1>2, ListClimb
<1> QED BY <1>3 DEF B

(* Lists joined that leave the button alone leave it alone. *)
LEMMA QuietJoined ==
  ASSUME NEW a \in Seq(Commands), NEW b \in Seq(Commands), NoButton(a), NoButton(b)
  PROVE  NoButton(a \o b)
<1>1. /\ Len(a \o b) = Len(a) + Len(b) /\ Len(a) \in Nat /\ Len(b) \in Nat
      /\ \A i \in 1..Len(a \o b) : (a \o b)[i] = IF i <= Len(a) THEN a[i] ELSE b[i - Len(a)]
  OBVIOUS
<1>2. ASSUME NEW i \in 1..Len(a \o b) PROVE (a \o b)[i] \notin ButtonCommands
  <2>1. CASE i <= Len(a)
    <3>1. i \in 1..Len(a) /\ (a \o b)[i] = a[i]
      BY <1>1, <2>1
    <3> QED BY <3>1 DEF NoButton
  <2>2. CASE ~(i <= Len(a))
    <3>1. i - Len(a) \in 1..Len(b) /\ (a \o b)[i] = b[i - Len(a)]
      BY <1>1, <2>2
    <3> QED BY <3>1 DEF NoButton
  <2> QED BY <2>1, <2>2
<1> QED BY <1>2 DEF NoButton

(* An element before a list and after another. *)
LEMMA JoinOne ==
  ASSUME NEW S, NEW a \in Seq(S), NEW b \in Seq(S), NEW x \in S
  PROVE  a \o (<<x>> \o b) = Append(a, x) \o b
<1>1. <<x>> \in Seq(S) /\ Append(a, x) = a \o <<x>>
  OBVIOUS
<1> QED BY <1>1, ConcatAssociative

(* Before and after another tick's line a schedule brings a tick the same.   *)
LEMMA OtherLine ==
  ASSUME NEW tick, NEW out \in Seq(Timed), NEW kept \in BOOLEAN, NEW l \in Lines, l.at # tick
  PROVE  At(out \o Stamped(l.at, LineCommands(l, kept)), tick) = At(out, tick)
<1> DEFINE uttered == Stamped(l.at, LineCommands(l, kept))
<1>1. LineCommands(l, kept) \in Seq(Commands) /\ l.at \in Nat
  BY LineSends
<1>2. uttered \in Seq(Timed) /\ At(uttered, tick) = <<>>
  BY <1>1, StampedType, AtStamped
<1>3. At(out, tick) \in Seq(Commands)
  BY AtMore
<1> HIDE DEF uttered
<1>4. At(out \o uttered, tick) = At(out, tick) \o <<>>
  BY <1>2, AtJoined
<1>5. At(out, tick) \o <<>> = At(out, tick)
  BY <1>3, JoinMore
<1> QED BY <1>4, <1>5 DEF uttered

(* A line of a tick makes of the tick's input, sent as differences of the     *)
(* hold, what its hold and its presses make of it.                           *)
LEMMA LineOfTick ==
  ASSUME NEW tick, NEW out \in Seq(Timed), NEW l \in Lines, l.at = tick,
         NEW was \in BOOLEAN, NEW now \in BOOLEAN, NEW fired \in Seq(Commands), NoButton(fired),
         FoldCommands(At(out, tick), was) = FoldCommands(fired, now)
  PROVE  /\ NoButton(fired \o PressesOf(l)) /\ fired \o PressesOf(l) \in Seq(Commands)
         /\ FoldCommands(At(out \o Stamped(l.at, LineCommands(l, now)), tick), was)
              = FoldCommands(fired \o PressesOf(l), IF l.hold = None THEN now ELSE l.hold)
<1> DEFINE uttered == Stamped(l.at, LineCommands(l, now))
           due == At(out, tick)
           fires == PressesOf(l)
           then == IF l.hold = None THEN now ELSE l.hold
<1>1. /\ LineCommands(l, now) \in Seq(Commands) /\ l.at \in Nat /\ (l.hold # None => l.hold \in BOOLEAN)
      /\ fires \in Seq(Commands) /\ NoButton(fires)
  BY LineSends
<1>2. uttered \in Seq(Timed) /\ At(uttered, tick) = LineCommands(l, now)
  BY <1>1, StampedType, AtStamped
<1>3. due \in Seq(Commands)
  BY AtMore
<1>4. At(out \o uttered, tick) = due \o LineCommands(l, now)
  <2> HIDE DEF uttered
  <2> QED BY <1>2, AtJoined
<1>5. NoButton(fired \o fires) /\ fired \o fires \in Seq(Commands)
  BY <1>1, QuietJoined
<1>6. FoldCommands(due \o LineCommands(l, now), was) = FoldCommands(fired \o fires, then)
  <2> HIDE DEF due, fires
  <2>1. CASE l.hold \in {None, now}
    <3>1. then = now
      BY <2>1
    <3>2. LineCommands(l, now) = fires
      <4>1. <<>> \o fires = fires
        BY <1>1, JoinMore
      <4> QED BY <2>1, <4>1 DEF LineCommands, fires
    <3>3. FoldCommands(due \o fires, was) = FoldCommands(fired \o fires, now)
      BY <1>1, <1>3, FoldsOn DEF due
    <3> HIDE DEF then
    <3> QED BY <3>1, <3>2, <3>3
  <2>2. CASE l.hold \notin {None, now}
    <3> DEFINE b == IF l.hold THEN "Down" ELSE "Up"
    <3>1. then = l.hold /\ then \in BOOLEAN
      BY <1>1, <2>2
    <3>2. b \in Commands /\ b \in ButtonCommands /\ (b = "Down") = l.hold
      <4>1. l.hold \in BOOLEAN
        BY <1>1, <2>2
      <4> QED BY <4>1 DEF Commands, ButtonCommands
    <3>3. LineCommands(l, now) = <<b>> \o fires
      BY <2>2 DEF LineCommands, fires
    <3> HIDE DEF then, b
    <3>4. due \o (<<b>> \o fires) = Append(due, b) \o fires /\ Append(due, b) \in Seq(Commands)
      <4>1. fires \in Seq(Commands)
        BY <1>1
      <4> QED BY <1>3, <3>2, <4>1, JoinOne, JoinMore
    <3>5. FoldCommands(Append(due, b), was) = FoldOne(FoldCommands(due, was), b)
      BY <1>3, <3>2, FoldMore
    <3>6. /\ FoldCommands(due, was) \in Inputs /\ FoldCommands(fired, then) \in Inputs
          /\ FoldCommands(fired, now) = FoldCommands(due, was)
          /\ FoldCommands(Append(due, b), was) \in Inputs
      <4>1. FoldCommands(due, was) \in Inputs /\ FoldCommands(Append(due, b), was) \in Inputs
        BY <1>3, <3>4, FoldedType
      <4>2. FoldCommands(fired, then) \in Inputs
        BY <3>1, FoldedType
      <4> QED BY <4>1, <4>2 DEF due
    <3>7. FoldCommands(Append(due, b), was) = FoldCommands(fired, then)
      <4> DEFINE x == FoldCommands(Append(due, b), was)
                 y == FoldCommands(fired, then)
                 z == FoldCommands(due, was)
      <4>1. x = FoldOne(z, b) /\ z \in Inputs /\ x \in Inputs /\ y \in Inputs
        BY <3>5, <3>6
      <4>2. y.edges = z.edges /\ y.immediates = z.immediates
        <5>1. FoldCommands(fired, then).edges = FoldCommands(fired, now).edges
          BY <3>1, FoldLists
        <5>2. FoldCommands(fired, then).immediates = FoldCommands(fired, now).immediates
          BY <3>1, FoldLists
        <5> QED BY <3>6, <5>1, <5>2
      <4>3. y.button = then
        <5>1. HeldAfter(fired, then) = then
          BY <3>1, ButtonAfter
        <5> QED BY <5>1 DEF HeldAfter
      <4> HIDE DEF x, y, z
      <4>4. x.edges = z.edges /\ x.immediates = z.immediates
        BY <3>2, <4>1, FoldOnePress
      <4>5. x.button = (b = "Down")
        <5>1. FoldOne(z, b).button = (b = "Down")
          BY <3>2, <4>1, FoldOneButton
        <5> QED BY <4>1, <5>1, Zenon
      <4>6. x.button = y.button
        <5>1. x.button = l.hold
          BY <3>2, <4>5, Zenon
        <5> QED BY <3>1, <4>3, <5>1, Zenon
      <4>7. x = y
        BY <4>1, <4>2, <4>4, <4>6, SameInput
      <4> QED BY <4>7 DEF x, y
    <3>8. FoldCommands(Append(due, b) \o fires, was) = FoldCommands(fired \o fires, then)
      <4> DEFINE x == Append(due, b)
      <4>1. x \in Seq(Commands) /\ fires \in Seq(Commands) /\ FoldCommands(x, was) = FoldCommands(fired, then)
        BY <1>1, <3>4, <3>7
      <4> HIDE DEF x
      <4>2. FoldCommands(x \o fires, was) = FoldCommands(fired \o fires, then)
        BY <3>1, <4>1, FoldsOn
      <4> QED BY <4>2 DEF x
    <3> QED BY <3>3, <3>4, <3>8
  <2> QED BY <2>1, <2>2
<1> HIDE DEF then, due, fires, uttered
<1>7. FoldCommands(At(out \o uttered, tick), was) = FoldCommands(fired \o fires, then)
  BY <1>4, <1>6
<1> QED BY <1>5, <1>7 DEF then, uttered, fires

(* A tick's input is the same sent as differences of the hold and sampled as  *)
(* the script stands at the tick.                                           *)
LEMMA DueIsFired ==
  ASSUME NEW s \in Scripts, NEW tick \in 0..(s.maxTicks - 1)
  PROVE  /\ FoldCommands(At(Schedule(s), tick), HoldAt(s, tick - 1)) = FoldCommands(FiredAt(s, tick), HoldAt(s, tick))
         /\ NoButton(FiredAt(s, tick))
<1> DEFINE n == Len(s.lines)
           L(k) == s.lines[k]
<1>1. /\ n \in Nat /\ s.maxTicks \in Nat /\ tick \in Nat /\ tick < s.maxTicks
      /\ \A k \in 1..n : L(k) \in Lines /\ L(k).at \in Nat /\ (L(k).hold # None => L(k).hold \in BOOLEAN)
      /\ \A i, j \in 1..n : i <= j => L(i).at <= L(j).at
  <2>1. /\ s.maxTicks \in Nat /\ s.lines \in Seq(Lines)
        /\ \A i, j \in DOMAIN s.lines : i <= j => s.lines[i].at <= s.lines[j].at
    BY BatchAssumption
  <2>2. DOMAIN s.lines = 1..n /\ n \in Nat
    BY <2>1
  <2>3. \A k \in 1..n : L(k) \in Lines
    BY LineIs
  <2>4. \A k \in 1..n : L(k).at \in Nat /\ (L(k).hold # None => L(k).hold \in BOOLEAN)
    BY <2>3, LineSends
  <2> QED BY <2>1, <2>2, <2>3, <2>4
<1>2. PICK g : RunsSent(g, s)
  BY SentThrough
<1>3. PICK f : RunsFired(f, tick, s)
  BY FiredThrough
<1>4. PICK u : RunsHold(u, tick, s)
  BY HoldThrough
<1>5. PICK v : RunsHold(v, tick - 1, s)
  BY HoldThrough
<1>6. /\ g \in [0..n -> Progress] /\ g[0] = [out |-> <<>>, held |-> FALSE]
      /\ \A k \in 0..(n - 1) : g[k + 1] = SendLine(s, g[k], L(k + 1))
      /\ Sent(s) = g[n]
  BY <1>2 DEF RunsSent
<1>7. /\ f \in [0..n -> Seq(Commands)] /\ f[0] = <<>> /\ FiredAt(s, tick) = f[n]
      /\ \A k \in 0..(n - 1) : f[k + 1] = (IF L(k + 1).at = tick THEN f[k] \o PressesOf(L(k + 1)) ELSE f[k])
  BY <1>3 DEF RunsFired
<1>8. /\ u \in [0..n -> BOOLEAN] /\ u[0] = FALSE /\ HoldAt(s, tick) = u[n]
      /\ \A k \in 0..(n - 1) : u[k + 1] = (IF L(k + 1).at <= tick /\ L(k + 1).hold # None
                                              THEN L(k + 1).hold
                                              ELSE u[k])
  BY <1>4 DEF RunsHold
<1>9. /\ v \in [0..n -> BOOLEAN] /\ v[0] = FALSE /\ HoldAt(s, tick - 1) = v[n]
      /\ \A k \in 0..(n - 1) : v[k + 1] = (IF L(k + 1).at <= tick - 1 /\ L(k + 1).hold # None
                                              THEN L(k + 1).hold
                                              ELSE v[k])
  BY <1>5 DEF RunsHold
<1> DEFINE Same(k) == NoButton(f[k]) /\ FoldCommands(At(g[k].out, tick), v[k]) = FoldCommands(f[k], u[k])
           NoLater(k) == (\A i \in 1..k : L(i).at <= tick) => g[k].held = u[k]
           Sooner(k) == (\A i \in 1..k : L(i).at < tick) =>
                          g[k].held = v[k] /\ At(g[k].out, tick) = <<>> /\ f[k] = <<>>
           D == {k \in 0..n : Same(k) /\ NoLater(k) /\ Sooner(k)}
<1>10. 0 \in D
  <2>1. 0 \in 0..n /\ g[0].out = <<>> /\ g[0].held = FALSE /\ At(<<>>, tick) = <<>> /\ NoButton(<<>>)
    <3>1. At(<<>>, tick) = <<>> /\ NoButton(<<>>)
      BY AtMore DEF NoButton
    <3> QED BY <1>1, <1>6, <3>1
  <2> QED BY <1>7, <1>8, <1>9, <2>1
<1> HIDE DEF n, L
<1>11. ASSUME NEW k \in 0..(n - 1), k \in D PROVE k + 1 \in D
  <2> DEFINE l == L(k + 1)
             out == g[k].out
             kept == g[k].held
  <2>1. k \in 0..n /\ k + 1 \in 0..n /\ k + 1 \in 1..n /\ k \in Nat
    BY <1>1
  <2>2. /\ l \in Lines /\ l.at \in Nat /\ (l.hold # None => l.hold \in BOOLEAN)
        /\ \A i \in 1..(k + 1) : L(i).at \in Nat /\ L(i).at <= l.at
    BY <1>1, <2>1
  <2>3. out \in Seq(Timed) /\ kept \in BOOLEAN /\ f[k] \in Seq(Commands) /\ u[k] \in BOOLEAN /\ v[k] \in BOOLEAN
    BY <1>6, <1>7, <1>8, <1>9, <2>1 DEF Progress
  <2>4. Same(k) /\ NoLater(k) /\ Sooner(k)
    BY <1>11
  <2>5. /\ g[k + 1] = SendLine(s, g[k], l)
        /\ f[k + 1] = (IF l.at = tick THEN f[k] \o PressesOf(l) ELSE f[k])
        /\ u[k + 1] = (IF l.at <= tick /\ l.hold # None THEN l.hold ELSE u[k])
        /\ v[k + 1] = (IF l.at <= tick - 1 /\ l.hold # None THEN l.hold ELSE v[k])
    BY <1>6, <1>7, <1>8, <1>9
  <2> DEFINE then == IF l.hold = None THEN kept ELSE l.hold
             more == out \o Stamped(l.at, LineCommands(l, kept))
  <2>6. l.at < s.maxTicks => g[k + 1].out = more /\ g[k + 1].held = then
    <3>1. ASSUME l.at < s.maxTicks PROVE g[k + 1] = [out |-> more, held |-> then]
      <4>1. ~(l.at >= s.maxTicks)
        BY <1>1, <2>2, <3>1
      <4> QED BY <2>5, <4>1 DEF SendLine
    <3> HIDE DEF more, then, l
    <3> QED BY <3>1
  <2>7. l.at >= s.maxTicks => g[k + 1] = g[k]
    BY <2>5 DEF SendLine
  <2>8. l.at # tick => At(g[k + 1].out, tick) = At(out, tick)
    <3>1. l.at # tick => At(more, tick) = At(out, tick)
      BY <2>2, <2>3, OtherLine
    <3>2. l.at < s.maxTicks \/ l.at >= s.maxTicks
      BY <1>1, <2>2
    <3> HIDE DEF more, l
    <3> QED BY <2>6, <2>7, <3>1, <3>2
  <2>9. CASE l.at > tick
    <3>1. l.at # tick /\ ~(l.at <= tick) /\ ~(l.at <= tick - 1) /\ ~(l.at < tick) /\ l = L(k + 1)
      BY <1>1, <2>2, <2>9
    <3>2. f[k + 1] = f[k] /\ u[k + 1] = u[k] /\ v[k + 1] = v[k] /\ At(g[k + 1].out, tick) = At(out, tick)
      BY <2>5, <2>8, <3>1
    <3>3. Same(k + 1)
      BY <2>4, <3>2
    <3>4. NoLater(k + 1) /\ Sooner(k + 1)
      <4>1. k + 1 \in 1..(k + 1)
        BY <2>1
      <4> HIDE DEF l
      <4> QED BY <3>1, <4>1
    <3> HIDE DEF Same, NoLater, Sooner
    <3> QED BY <2>1, <3>3, <3>4
  <2>10. CASE l.at = tick
    <3>1. l.at < s.maxTicks /\ ~(l.at <= tick - 1) /\ l.at <= tick /\ ~(l.at < tick) /\ l = L(k + 1)
      BY <1>1, <2>2, <2>10
    <3>2. kept = u[k]
      <4>1. \A i \in 1..k : L(i).at <= tick
        BY <2>1, <2>2, <2>10
      <4> QED BY <2>4, <4>1
    <3>3. /\ f[k + 1] = f[k] \o PressesOf(l) /\ u[k + 1] = (IF l.hold = None THEN u[k] ELSE l.hold) /\ v[k + 1] = v[k]
          /\ g[k + 1].out = more /\ g[k + 1].held = then
      BY <2>5, <2>6, <2>10, <3>1
    <3>4. /\ NoButton(f[k] \o PressesOf(l))
          /\ FoldCommands(At(out \o Stamped(l.at, LineCommands(l, u[k])), tick), v[k])
               = FoldCommands(f[k] \o PressesOf(l), IF l.hold = None THEN u[k] ELSE l.hold)
      <4> HIDE DEF l, out
      <4> QED BY <2>2, <2>3, <2>4, <2>10, LineOfTick DEF out
    <3>5. Same(k + 1)
      <4> HIDE DEF l, out, kept
      <4> QED BY <3>2, <3>3, <3>4 DEF more
    <3>6. NoLater(k + 1)
      BY <3>2, <3>3
    <3>7. Sooner(k + 1)
      <4>1. k + 1 \in 1..(k + 1)
        BY <2>1
      <4> HIDE DEF l
      <4> QED BY <3>1, <4>1
    <3> HIDE DEF Same, NoLater, Sooner
    <3> QED BY <2>1, <3>5, <3>6, <3>7
  <2>11. CASE l.at < tick
    <3>1. /\ l.at # tick /\ l.at <= tick /\ l.at <= tick - 1 /\ l.at < s.maxTicks
          /\ \A i \in 1..k : L(i).at <= tick /\ L(i).at < tick
      BY <1>1, <2>1, <2>2, <2>11
    <3>2. kept = u[k] /\ kept = v[k] /\ At(out, tick) = <<>> /\ f[k] = <<>> /\ NoButton(f[k])
      BY <2>4, <3>1
    <3>3. /\ f[k + 1] = <<>> /\ NoButton(f[k + 1]) /\ u[k + 1] = then /\ v[k + 1] = then
          /\ At(g[k + 1].out, tick) = <<>> /\ g[k + 1].held = then
      BY <2>5, <2>6, <2>8, <3>1, <3>2
    <3>4. Same(k + 1) /\ NoLater(k + 1) /\ Sooner(k + 1)
      BY <3>3
    <3> HIDE DEF Same, NoLater, Sooner
    <3> QED BY <2>1, <3>4
  <2>12. l.at > tick \/ l.at = tick \/ l.at < tick
    BY <1>1, <2>2
  <2> HIDE DEF D, l
  <2> QED BY <2>9, <2>10, <2>11, <2>12
<1>12. n \in D
  <2> HIDE DEF D
  <2> QED BY <1>1, <1>10, <1>11, ClimbTo
<1>13. Same(n)
  <2> HIDE DEF Same, NoLater, Sooner
  <2> QED BY <1>12
<1>14. Schedule(s) = g[n].out
  BY <1>6 DEF Schedule
<1> QED BY <1>7, <1>8, <1>9, <1>13, <1>14

(* No hacker's command before an infiltrator's in one tick. *)
InOrder(sched) ==
  \A i, j \in DOMAIN sched :
    /\ i < j /\ sched[i].at = sched[j].at
    => ~(Sender(sched[i].cmd) = "hacker" /\ Sender(sched[j].cmd) = "infiltrator")

(* Merged, the shares of a schedule in order bring a tick what it brings.    *)
LEMMA SharesMerge ==
  ASSUME NEW tick
  PROVE  \A b \in Seq(Timed) :
           InOrder(b) => At(ShareOf(b, "infiltrator"), tick) \o At(ShareOf(b, "hacker"), tick) = At(b, tick)
<1> DEFINE ours(b) == At(ShareOf(b, "infiltrator"), tick)
           theirs(b) == At(ShareOf(b, "hacker"), tick)
           known(b) == theirs(b) # <<>> => \E i \in 1..Len(b) : b[i].at = tick /\ Sender(b[i].cmd) = "hacker"
           B == {b \in Seq(Timed) : known(b) /\ (InOrder(b) => ours(b) \o theirs(b) = At(b, tick))}
<1>1. <<>> \in B
  <2>1. ours(<<>>) = <<>> /\ theirs(<<>>) = <<>> /\ At(<<>>, tick) = <<>>
    <3>1. ShareOf(<<>>, "infiltrator") = <<>> /\ ShareOf(<<>>, "hacker") = <<>>
      BY ShareMore
    <3>2. At(<<>>, tick) = <<>>
      BY AtMore
    <3> QED BY <3>1, <3>2
  <2> HIDE DEF ours, theirs
  <2>2. <<>> \o <<>> = <<>> /\ <<>> \in Seq(Timed)
    OBVIOUS
  <2> QED BY <2>1, <2>2
<1>2. ASSUME NEW b \in Seq(Timed), NEW x \in Timed, b \in B PROVE Append(b, x) \in B
  <2> DEFINE c == Append(b, x)
             n == Len(b)
  <2>1. /\ c \in Seq(Timed) /\ Len(c) = n + 1 /\ n \in Nat /\ c[n + 1] = x /\ DOMAIN c = 1..(n + 1) /\ DOMAIN b = 1..n
        /\ \A i \in 1..n : c[i] = b[i]
    OBVIOUS
  <2>2. x.cmd \in Commands /\ Sender(x.cmd) \in {"infiltrator", "hacker"}
    BY DEF Timed, Sender
  <2>3. known(b) /\ (InOrder(b) => ours(b) \o theirs(b) = At(b, tick))
    BY <1>2
  <2>4. /\ At(c, tick) = (IF x.at = tick THEN Append(At(b, tick), x.cmd) ELSE At(b, tick))
        /\ At(b, tick) \in Seq(Commands)
    BY AtMore
  <2>5. ASSUME NEW r
        PROVE  /\ At(ShareOf(c, r), tick)
                    = IF Sender(x.cmd) = r /\ x.at = tick THEN Append(At(ShareOf(b, r), tick), x.cmd)
                      ELSE At(ShareOf(b, r), tick)
               /\ At(ShareOf(b, r), tick) \in Seq(Commands)
    <3> DEFINE mine == ShareOf(b, r)
    <3>1. mine \in Seq(Timed) /\ ShareOf(c, r) = (IF Sender(x.cmd) = r THEN Append(mine, x) ELSE mine)
      BY ShareMore
    <3> HIDE DEF mine, c
    <3>2. At(Append(mine, x), tick) = (IF x.at = tick THEN Append(At(mine, tick), x.cmd) ELSE At(mine, tick))
      BY <3>1, AtMore
    <3>3. At(mine, tick) \in Seq(Commands)
      BY <3>1, AtMore
    <3>4. At(ShareOf(c, r), tick)
            = IF Sender(x.cmd) = r /\ x.at = tick THEN Append(At(mine, tick), x.cmd) ELSE At(mine, tick)
      BY <3>1, <3>2
    <3> QED BY <3>3, <3>4 DEF mine
  <2>6. ours(b) \in Seq(Commands) /\ theirs(b) \in Seq(Commands)
    BY <2>5
  <2>7. /\ ours(c) = IF Sender(x.cmd) = "infiltrator" /\ x.at = tick THEN Append(ours(b), x.cmd) ELSE ours(b)
        /\ theirs(c) = IF Sender(x.cmd) = "hacker" /\ x.at = tick THEN Append(theirs(b), x.cmd) ELSE theirs(b)
    BY <2>5
  <2> HIDE DEF ours, theirs, c
  <2>8. known(c)
    <3>1. CASE Sender(x.cmd) = "hacker" /\ x.at = tick
      <4>1. n + 1 \in 1..Len(c) /\ c[n + 1] = x
        BY <2>1
      <4> QED BY <3>1, <4>1
    <3>2. CASE ~(Sender(x.cmd) = "hacker" /\ x.at = tick)
      <4>1. theirs(c) = theirs(b)
        BY <2>7, <3>2
      <4>2. \A i \in 1..n : i \in 1..Len(c) /\ c[i] = b[i]
        BY <2>1
      <4> QED BY <2>3, <4>1, <4>2
    <3> QED BY <3>1, <3>2
  <2>9. ASSUME InOrder(c) PROVE ours(c) \o theirs(c) = At(c, tick)
    <3>1. InOrder(b)
      <4>1. \A i \in 1..n : i \in 1..(n + 1) /\ c[i] = b[i]
        BY <2>1
      <4> QED BY <2>1, <2>9, <4>1 DEF InOrder
    <3>2. ours(b) \o theirs(b) = At(b, tick)
      BY <2>3, <3>1
    <3>3. CASE x.at # tick
      BY <2>4, <2>7, <3>2, <3>3
    <3>4. CASE x.at = tick /\ Sender(x.cmd) = "hacker"
      <4>1. ours(c) = ours(b) /\ theirs(c) = Append(theirs(b), x.cmd) /\ At(c, tick) = Append(At(b, tick), x.cmd)
        BY <2>4, <2>7, <3>4
      <4>2. ours(b) \o Append(theirs(b), x.cmd) = Append(ours(b) \o theirs(b), x.cmd)
        BY <2>2, <2>6, JoinMore
      <4> QED BY <3>2, <4>1, <4>2
    <3>5. CASE x.at = tick /\ Sender(x.cmd) = "infiltrator"
      <4>1. theirs(b) = <<>>
        <5> SUFFICES ASSUME theirs(b) # <<>> PROVE FALSE
          OBVIOUS
        <5>1. PICK i \in 1..n : b[i].at = tick /\ Sender(b[i].cmd) = "hacker"
          BY <2>3
        <5>2. i \in DOMAIN c /\ n + 1 \in DOMAIN c /\ i < n + 1 /\ c[i] = b[i] /\ c[n + 1] = x
          BY <2>1
        <5> QED BY <2>9, <3>5, <5>1, <5>2 DEF InOrder
      <4>2. ours(c) = Append(ours(b), x.cmd) /\ theirs(c) = theirs(b) /\ At(c, tick) = Append(At(b, tick), x.cmd)
        BY <2>4, <2>7, <3>5
      <4>3. Append(ours(b), x.cmd) \o <<>> = Append(ours(b), x.cmd) /\ ours(b) \o <<>> = ours(b)
        BY <2>2, <2>6, JoinMore
      <4> QED BY <3>2, <4>1, <4>2, <4>3
    <3> QED BY <2>2, <3>3, <3>4, <3>5
  <2> HIDE DEF known
  <2>10. c \in B
    BY <2>1, <2>8, <2>9
  <2> QED BY <2>10 DEF c
<1>3. \A b \in Seq(Timed) : b \in B
  <2> HIDE DEF B
  <2> QED BY <1>1, <1>2, ListClimb
<1> QED BY <1>3

(* A script's schedule and what of it is a seat's. *)
LEMMA SeatScheduleIs ==
  ASSUME NEW s \in Scripts, NEW r
  PROVE  /\ Schedule(s) \in Seq(Timed)
         /\ SeatSchedule(s, r) = ShareOf(Schedule(s), r) /\ SeatSchedule(s, r) \in Seq(Timed)
<1>1. Schedule(s) \in Seq(Timed)
  <2>1. PICK g : RunsSent(g, s)
    BY SentThrough
  <2>2. g \in [0..Len(s.lines) -> Progress] /\ Sent(s) = g[Len(s.lines)]
    BY <2>1 DEF RunsSent
  <2>3. Len(s.lines) \in 0..Len(s.lines)
    <3>1. s.lines \in Seq(Lines)
      BY BatchAssumption
    <3> QED BY <3>1
  <2> QED BY <2>2, <2>3 DEF Schedule, Progress
<1>2. SeatSchedule(s, r) = ShareOf(Schedule(s), r)
  BY DEF SeatSchedule, ShareOf
<1>3. ShareOf(Schedule(s), r) \in Seq(Timed)
  BY <1>1, ShareMore
<1> QED BY <1>1, <1>2, <1>3

(* Before the first tick nothing is held. *)
LEMMA NoHoldBefore ==
  ASSUME NEW s \in Scripts
  PROVE  HoldAt(s, -1) = FALSE
<1>1. PICK h : RunsHold(h, -1, s)
  BY HoldThrough
<1> DEFINE n == Len(s.lines)
           D == {k \in 0..n : h[k] = FALSE}
<1>2. /\ h[0] = FALSE /\ HoldAt(s, -1) = h[n]
      /\ \A k \in 0..(n - 1) : h[k + 1] = (IF s.lines[k + 1].at <= -1 /\ s.lines[k + 1].hold # None
                                              THEN s.lines[k + 1].hold
                                              ELSE h[k])
  BY <1>1 DEF RunsHold
<1>3. n \in Nat
  <2>1. s.lines \in Seq(Lines)
    BY BatchAssumption
  <2> QED BY <2>1
<1> HIDE DEF n
<1>4. ASSUME NEW k \in 0..(n - 1), k \in D PROVE k + 1 \in D
  <2>1. k + 1 \in 1..n /\ k + 1 \in 0..n
    BY <1>3
  <2>2. s.lines[k + 1] \in Lines
    BY <2>1, LineIs DEF n
  <2>3. s.lines[k + 1].at \in Nat
    BY <2>2 DEF Lines
  <2>4. ~(s.lines[k + 1].at <= -1)
    BY <2>3
  <2> QED BY <1>2, <1>4, <2>1, <2>4
<1>5. 0 \in D
  BY <1>2, <1>3
<1>6. n \in D
  <2> HIDE DEF D
  <2> QED BY <1>3, <1>4, <1>5, ClimbTo
<1> QED BY <1>2, <1>6

(* What a script holds and fires. *)
LEMMA ScriptTypes ==
  ASSUME NEW s \in Scripts, NEW tick
  PROVE  HoldAt(s, tick) \in BOOLEAN /\ FiredAt(s, tick) \in Seq(Commands)
<1>1. Len(s.lines) \in 0..Len(s.lines)
  <2>1. s.lines \in Seq(Lines)
    BY BatchAssumption
  <2> QED BY <2>1
<1>2. PICK h : RunsHold(h, tick, s)
  BY HoldThrough
<1>3. PICK f : RunsFired(f, tick, s)
  BY FiredThrough
<1>4. HoldAt(s, tick) \in BOOLEAN
  BY <1>1, <1>2 DEF RunsHold
<1>5. FiredAt(s, tick) \in Seq(Commands)
  BY <1>1, <1>3 DEF RunsFired
<1> QED BY <1>4, <1>5

(* The two seats' schedules of a script, merged. *)
MergedOf(s) == MergedByTick(s, SeatSchedule(s, "infiltrator"), SeatSchedule(s, "hacker"))

(* A script in order is played as a single process plays it. *)
LEMMA SplitIsExpand ==
  ASSUME NEW s \in Scripts, InOrder(Schedule(s))
  PROVE  TickInputs(MergedOf(s)) = Expand(s)
<1> DEFINE n == s.maxTicks
           merged == MergedOf(s)
           want(i) == FoldCommands(FiredAt(s, i - 1), HoldAt(s, i - 1))
<1>1. n \in Nat
  BY BatchAssumption
<1>2. /\ Len(merged) = n /\ merged \in Seq(Seq(Commands))
      /\ \A i \in 1..n : merged[i] = At(Schedule(s), i - 1)
  <2>1. ASSUME NEW i
        PROVE  /\ At(SeatSchedule(s, "infiltrator"), i) \o At(SeatSchedule(s, "hacker"), i) = At(Schedule(s), i)
               /\ At(Schedule(s), i) \in Seq(Commands)
    <3>1. Schedule(s) \in Seq(Timed)
      BY SeatScheduleIs
    <3>2. At(ShareOf(Schedule(s), "infiltrator"), i) \o At(ShareOf(Schedule(s), "hacker"), i) = At(Schedule(s), i)
      BY <3>1, SharesMerge
    <3>3. At(Schedule(s), i) \in Seq(Commands)
      BY <3>1, AtMore
    <3> QED BY <3>2, <3>3, SeatScheduleIs
  <2>2. merged = [i \in 1..n |-> At(Schedule(s), i - 1)]
    BY <2>1 DEF MergedOf, MergedByTick
  <2>3. merged \in [1..n -> Seq(Commands)]
    BY <2>1, <2>2
  <2> HIDE DEF merged, n
  <2>4. merged \in Seq(Seq(Commands)) /\ Len(merged) = n
    BY <1>1, <2>3
  <2> QED BY <2>2, <2>4
<1> HIDE DEF merged, n
<1>3. PICK g : RunsFed(g, merged)
  BY <1>2, FedThrough
<1>4. /\ g \in [0..n -> Feeding] /\ g[0] = [inputs |-> <<>>, held |-> FALSE] /\ Fed(merged) = g[n]
      /\ \A k \in 0..(n - 1) : g[k + 1] = [inputs |-> Append(g[k].inputs, FoldCommands(merged[k + 1], g[k].held)),
                                           held |-> HeldAfter(merged[k + 1], g[k].held)]
  BY <1>2, <1>3 DEF RunsFed
<1> DEFINE D == {k \in 0..n : /\ g[k].held = HoldAt(s, k - 1) /\ Len(g[k].inputs) = k
                              /\ \A i \in 1..k : g[k].inputs[i] = want(i)}
<1>5. 0 \in D
  <2>1. 0 \in 0..n /\ 0 - 1 = -1 /\ 1..0 = {} /\ g[0].held = FALSE /\ g[0].inputs = <<>> /\ Len(<<>>) = 0
    BY <1>1, <1>4
  <2>2. g[0].held = HoldAt(s, 0 - 1)
    BY <2>1, NoHoldBefore
  <2> HIDE DEF want
  <2> QED BY <2>1, <2>2
<1>6. ASSUME NEW k \in 0..(n - 1), k \in D PROVE k + 1 \in D
  <2> DEFINE due == At(Schedule(s), k)
             kept == g[k].held
             new == FoldCommands(due, kept)
  <2>1. k \in 0..n /\ k + 1 \in 1..n /\ k + 1 \in 0..n /\ (k + 1) - 1 = k /\ k \in Nat
    BY <1>1
  <2>2. merged[k + 1] = due
    BY <1>2, <2>1
  <2>3. kept = HoldAt(s, k - 1) /\ Len(g[k].inputs) = k /\ \A i \in 1..k : g[k].inputs[i] = want(i)
    BY <1>6
  <2>4. FoldCommands(due, HoldAt(s, k - 1)) = FoldCommands(FiredAt(s, k), HoldAt(s, k)) /\ NoButton(FiredAt(s, k))
    BY DueIsFired DEF n
  <2>5. new = want(k + 1)
    <3>1. want(k + 1) = FoldCommands(FiredAt(s, k), HoldAt(s, k))
      BY <2>1
    <3> HIDE DEF want, due, kept
    <3> QED BY <2>3, <2>4, <3>1
  <2>6. HeldAfter(due, kept) = HoldAt(s, k)
    <3>1. HeldAfter(FiredAt(s, k), HoldAt(s, k)) = HoldAt(s, k)
      BY <2>4, ScriptTypes, ButtonAfter
    <3> HIDE DEF due, kept
    <3> QED BY <2>3, <2>4, <3>1 DEF HeldAfter
  <2>7. g[k + 1].inputs = Append(g[k].inputs, new) /\ g[k + 1].held = HoldAt(s, k)
    <3>1. g[k + 1] = [inputs |-> Append(g[k].inputs, FoldCommands(due, kept)), held |-> HeldAfter(due, kept)]
      BY <1>4, <2>2
    <3> HIDE DEF due, kept
    <3> QED BY <2>6, <3>1
  <2>8. g[k].inputs \in Seq(Inputs) /\ new \in Inputs
    <3>1. kept \in BOOLEAN /\ g[k].inputs \in Seq(Inputs)
      BY <1>4, <2>1 DEF Feeding
    <3>2. due \in Seq(Commands)
      BY SeatScheduleIs, AtMore
    <3> QED BY <3>1, <3>2, FoldedType
  <2> HIDE DEF new, want
  <2>9. Len(g[k + 1].inputs) = k + 1 /\ \A i \in 1..(k + 1) : g[k + 1].inputs[i] = want(i)
    <3>1. Len(g[k + 1].inputs) = k + 1
      BY <2>3, <2>7, <2>8
    <3>2. ASSUME NEW i \in 1..(k + 1) PROVE g[k + 1].inputs[i] = want(i)
      <4>1. CASE i = k + 1
        BY <2>3, <2>5, <2>7, <2>8, <4>1
      <4>2. CASE i # k + 1
        <5>1. i \in 1..k
          BY <2>1, <4>2
        <5> QED BY <2>3, <2>7, <2>8, <5>1
      <4> QED BY <4>1, <4>2
    <3> QED BY <3>1, <3>2
  <2> QED BY <2>1, <2>7, <2>9
<1>7. n \in D
  <2> HIDE DEF D
  <2> QED BY <1>1, <1>5, <1>6, ClimbTo
<1>8. TickInputs(merged) = g[n].inputs /\ g[n].inputs \in Seq(Inputs)
  <2>1. n \in 0..n
    BY <1>1
  <2> QED BY <1>4, <2>1 DEF TickInputs, Feeding
<1>9. Expand(s) = [i \in 1..n |-> want(i)]
  BY DEF Expand, n
<1>10. g[n].inputs = [i \in 1..n |-> want(i)]
  <2>1. Len(g[n].inputs) = n /\ \A i \in 1..n : g[n].inputs[i] = want(i)
    BY <1>7
  <2> HIDE DEF want
  <2>2. DOMAIN g[n].inputs = 1..n /\ g[n].inputs = [i \in DOMAIN g[n].inputs |-> g[n].inputs[i]]
    BY <1>1, <1>8, <2>1
  <2> QED BY <2>1, <2>2
<1> QED BY <1>8, <1>9, <1>10 DEF merged

-------------------------------------------------------------------------------
(* The batch seats: what they say to one another.                           *)

(* What either seat's run of a script comes to. *)
WholeRun(s) == RunOf(TickInputs(MergedOf(s)))

(* What a seat's peer may have said to it. *)
Sayings(s, q) ==
  [kind : {"peer_joined", "peer_left"}] \cup [kind : {"hello"}, count : {Len(SeatSchedule(s, Peer(q)))}]
    \cup [kind : {"command"}, cmd : Timed] \cup [kind : {"digest"}, log : {WholeRun(s).log}]

(* A command said is timed, a hello counts the peer's schedule, a digest is of  *)
(* the whole.                                                               *)
LEMMA SayingIs ==
  ASSUME NEW s, NEW q, NEW m \in Sayings(s, q)
  PROVE  /\ m.kind = "command" => m.cmd \in Timed
         /\ m.kind = "hello" => m.count = Len(SeatSchedule(s, Peer(q)))
         /\ m.kind = "digest" => m.log = WholeRun(s).log
<1>1. CASE m \in [kind : {"peer_joined", "peer_left"}]
  BY <1>1
<1>2. CASE m \in [kind : {"hello"}, count : {Len(SeatSchedule(s, Peer(q)))}]
  BY <1>2
<1>3. CASE m \in [kind : {"command"}, cmd : Timed]
  BY <1>3
<1>4. CASE m \in [kind : {"digest"}, log : {WholeRun(s).log}]
  BY <1>4
<1> QED BY <1>1, <1>2, <1>3, <1>4 DEF Sayings

(* The values it goes through. *)
RunsComing(h, box) ==
  /\ h \in [0..Len(box) -> Seq(Timed)] /\ h[0] = <<>>
  /\ \A k \in 0..(Len(box) - 1) : h[k + 1] = (IF box[k + 1].kind = "command"
                                                 THEN Append(h[k], box[k + 1].cmd)
                                                 ELSE h[k])
  /\ Coming(box) = h[Len(box)]

(* What is coming is picked a word at a time. *)
LEMMA ComingThrough ==
  ASSUME NEW s, NEW q, NEW box \in Seq(Sayings(s, q))
  PROVE  \E h : RunsComing(h, box)
<1> DEFINE n == Len(box)
           base == <<>>
           step == [e \in Seq(Timed) \X (1..n) |-> (IF box[e[2]].kind = "command"
                                                       THEN Append(e[1], box[e[2]].cmd)
                                                       ELSE e[1])]
           Recurs(f) == f = [z \in SUBSET (1..n) |->
                               IF z = {} THEN base ELSE (IF box[Max(z)].kind = "command"
                                                            THEN Append(f[z \ {Max(z)}], box[Max(z)].cmd)
                                                            ELSE f[z \ {Max(z)}])]
<1>1. n \in Nat /\ DOMAIN box = 1..n
  OBVIOUS
<1>2. base \in Seq(Timed)
  OBVIOUS
<1>3. \A a \in Seq(Timed), k \in 1..n : (IF box[k].kind = "command" THEN Append(a, box[k].cmd) ELSE a) \in Seq(Timed)
  <2>1. \A k \in 1..n : box[k] \in Sayings(s, q)
    BY <1>1, ElementOfSeq
  <2>2. \A k \in 1..n : box[k].kind = "command" => box[k].cmd \in Timed
    BY <2>1, SayingIs
  <2> QED BY <2>2
<1>4. /\ step \in [Seq(Timed) \X (1..n) -> Seq(Timed)]
      /\ \A a \in Seq(Timed), k \in 1..n : step[<<a, k>>] = (IF box[k].kind = "command"
                                                                THEN Append(a, box[k].cmd)
                                                                ELSE a)
  BY <1>3
<1>5. Coming(box) = (CHOOSE f : Recurs(f))[1..n]
  BY <1>1 DEF Coming, FoldLeft, MapThenFoldSet
<1>6. PICK h, g : /\ Through(h, n, Seq(Timed), base, step)
                  /\ g \in [SUBSET (1..n) -> Seq(Timed)] /\ Folding(g, n, base, step)
  BY <1>1, <1>2, <1>4, FoldThrough
<1>7. Recurs(g)
  <2>1. ASSUME NEW z \in SUBSET (1..n), z # {}
        PROVE  step[<<g[z \ {Max(z)}], Max(z)>>] = (IF box[Max(z)].kind = "command"
                                                       THEN Append(g[z \ {Max(z)}], box[Max(z)].cmd)
                                                       ELSE g[z \ {Max(z)}])
    <3>1. Max(z) \in 1..n /\ g[z \ {Max(z)}] \in Seq(Timed)
      BY <1>1, <1>6, <2>1, MaxIsIn
    <3> QED BY <1>4, <3>1
  <2> HIDE DEF step
  <2> QED BY <1>6, <2>1 DEF Folding
<1>8. PICK f : Recurs(f) /\ Coming(box) = f[1..n]
  BY <1>5, <1>7
<1>9. GoesOn(f, n, Seq(Timed), base, step)
  <2>1. f[{}] = base
    BY <1>8
  <2>2. ASSUME NEW k \in 0..(n - 1), f[1..k] \in Seq(Timed) PROVE f[1..(k + 1)] = step[<<f[1..k], k + 1>>]
    <3> DEFINE t == 1..(k + 1)
    <3>1. k \in Nat /\ k + 1 \in 1..n /\ t \in SUBSET (1..n)
      BY <1>1
    <3>2. t # {} /\ Max(t) = k + 1 /\ t \ {k + 1} = 1..k
      BY <3>1, MaxUpto
    <3> HIDE DEF t
    <3>3. f[t] = (IF box[Max(t)].kind = "command" THEN Append(f[t \ {Max(t)}], box[Max(t)].cmd) ELSE f[t \ {Max(t)}])
      BY <1>8, <3>1, <3>2
    <3>4. f[t] = (IF box[k + 1].kind = "command" THEN Append(f[1..k], box[k + 1].cmd) ELSE f[1..k])
      BY <3>2, <3>3
    <3> HIDE DEF step
    <3> QED BY <1>4, <2>2, <3>1, <3>4 DEF t
  <2> HIDE DEF step
  <2> QED BY <2>1, <2>2 DEF GoesOn
<1>10. Coming(box) = h[n]
  <2> HIDE DEF step, base, n, Recurs
  <2>1. f[1..n] = h[n]
    BY <1>1, <1>6, <1>9, FoldUnique
  <2> QED BY <1>8, <2>1
<1>11. \A k \in 0..(n - 1) : h[k + 1] = (IF box[k + 1].kind = "command" THEN Append(h[k], box[k + 1].cmd) ELSE h[k])
  <2> SUFFICES ASSUME NEW k \in 0..(n - 1)
               PROVE  h[k + 1] = (IF box[k + 1].kind = "command" THEN Append(h[k], box[k + 1].cmd) ELSE h[k])
    OBVIOUS
  <2> HIDE DEF step, base
  <2>1. k \in 0..n /\ k + 1 \in 1..n
    BY <1>1
  <2>2. h[k] \in Seq(Timed)
    BY <1>6, <2>1 DEF Through
  <2> QED BY <1>4, <1>6, <2>1, <2>2 DEF Through
<1> QED BY <1>6, <1>10, <1>11 DEF Through, RunsComing

(* What one word more brings. *)
LEMMA ComingMore ==
  ASSUME NEW s, NEW q
  PROVE  /\ Coming(<<>>) = <<>>
         /\ \A a \in Seq(Sayings(s, q)) : Coming(a) \in Seq(Timed)
         /\ \A a \in Seq(Sayings(s, q)), x \in Sayings(s, q) : Coming(Append(a, x)) = (IF x.kind = "command"
                                                                                          THEN Append(Coming(a), x.cmd)
                                                                                          ELSE Coming(a))
<1> DEFINE e == <<>>
<1>1. e \in Seq(Sayings(s, q)) /\ Len(e) = 0
  OBVIOUS
<1>2. Coming(<<>>) = <<>>
  <2> HIDE DEF e
  <2>1. PICK h : RunsComing(h, e)
    BY <1>1, ComingThrough
  <2>2. Coming(e) = <<>>
    BY <1>1, <2>1 DEF RunsComing
  <2> QED BY <2>2 DEF e
<1> HIDE DEF e
<1>3. ASSUME NEW a \in Seq(Sayings(s, q)) PROVE Coming(a) \in Seq(Timed)
  <2>1. PICK h : RunsComing(h, a)
    BY ComingThrough
  <2>2. Len(a) \in 0..Len(a)
    OBVIOUS
  <2> QED BY <2>1, <2>2 DEF RunsComing
<1>4. ASSUME NEW a \in Seq(Sayings(s, q)), NEW x \in Sayings(s, q)
      PROVE  Coming(Append(a, x)) = (IF x.kind = "command" THEN Append(Coming(a), x.cmd) ELSE Coming(a))
  <2> DEFINE b == Append(a, x)
  <2>1. /\ b \in Seq(Sayings(s, q)) /\ Len(b) = Len(a) + 1 /\ Len(a) \in Nat /\ b[Len(a) + 1] = x
        /\ \A k \in 0..(Len(a) - 1) : b[k + 1] = a[k + 1]
    OBVIOUS
  <2>a. PICK h : RunsComing(h, a)
    BY ComingThrough
  <2>2. /\ h[0] = <<>>
        /\ \A k \in 0..(Len(a) - 1) : h[k + 1] = (IF a[k + 1].kind = "command"
                                                     THEN Append(h[k], a[k + 1].cmd)
                                                     ELSE h[k])
        /\ Coming(a) = h[Len(a)]
    BY <2>a DEF RunsComing
  <2> HIDE DEF b
  <2>b. PICK g : RunsComing(g, b)
    BY <2>1, ComingThrough
  <2>3. /\ g[0] = <<>>
        /\ \A k \in 0..(Len(b) - 1) : g[k + 1] = (IF b[k + 1].kind = "command"
                                                     THEN Append(g[k], b[k + 1].cmd)
                                                     ELSE g[k])
        /\ Coming(b) = g[Len(b)]
    BY <2>b DEF RunsComing
  <2> DEFINE n == Len(a)
  <2>4. g[n] = h[n]
    <3> DEFINE D == {k \in 0..n : g[k] = h[k]}
    <3>1. 0 \in D
      BY <2>1, <2>2, <2>3
    <3>2. \A k \in 0..(n - 1) : k \in D => k + 1 \in D
      <4> SUFFICES ASSUME NEW k \in 0..(n - 1), k \in D PROVE k + 1 \in D
        OBVIOUS
      <4>1. k \in 0..(Len(b) - 1) /\ k + 1 \in 0..n /\ g[k] = h[k] /\ b[k + 1] = a[k + 1]
        BY <2>1
      <4>2. /\ g[k + 1] = (IF b[k + 1].kind = "command" THEN Append(g[k], b[k + 1].cmd) ELSE g[k])
            /\ h[k + 1] = (IF a[k + 1].kind = "command" THEN Append(h[k], a[k + 1].cmd) ELSE h[k])
        BY <2>2, <2>3, <4>1
      <4> QED BY <4>1, <4>2
    <3> HIDE DEF D
    <3>3. n \in D
      BY <2>1, <3>1, <3>2, ClimbTo
    <3> QED BY <3>3 DEF D
  <2>5. n \in 0..(Len(b) - 1)
    BY <2>1
  <2> HIDE DEF n
  <2>6. g[n + 1] = (IF b[n + 1].kind = "command" THEN Append(g[n], b[n + 1].cmd) ELSE g[n])
    BY <2>3, <2>5
  <2>7. b[n + 1] = x /\ g[n] = Coming(a) /\ g[n + 1] = Coming(b)
    BY <2>1, <2>2, <2>3, <2>4 DEF n
  <2>8. Coming(b) = (IF x.kind = "command" THEN Append(Coming(a), x.cmd) ELSE Coming(a))
    BY <2>6, <2>7
  <2> QED BY <2>8 DEF b
<1> QED BY <1>2, <1>3, <1>4

(* What the first word of a box brings comes first. *)
LEMMA ComingHead ==
  ASSUME NEW s, NEW q, NEW box \in Seq(Sayings(s, q)), box # <<>>
  PROVE  /\ Head(box) \in Sayings(s, q) /\ Tail(box) \in Seq(Sayings(s, q)) /\ Coming(Tail(box)) \in Seq(Timed)
         /\ Head(box).kind = "command" => Coming(box) = <<Head(box).cmd>> \o Coming(Tail(box))
         /\ Head(box).kind # "command" => Coming(box) = Coming(Tail(box))
<1> DEFINE S == Sayings(s, q)
           x == Head(box)
           first == IF x.kind = "command" THEN <<x.cmd>> ELSE <<>>
           B == {b \in Seq(S) : Coming(<<x>> \o b) = first \o Coming(b)}
<1>1. x \in S /\ Tail(box) \in Seq(S) /\ box = <<x>> \o Tail(box)
  <2>1. box \in Seq(S)
    OBVIOUS
  <2> HIDE DEF S
  <2> QED BY <2>1, HeadTailProperties DEF x
<1>2. first \in Seq(Timed)
  <2>1. x.kind = "command" => x.cmd \in Timed
    BY <1>1, SayingIs
  <2> HIDE DEF x
  <2> QED BY <2>1
<1>3. \A b \in Seq(S) : Coming(b) \in Seq(Timed)
  BY ComingMore
<1>4. <<>> \in B
  <2>1. /\ Coming(<<>>) = <<>>
        /\ Coming(Append(<<>>, x)) = (IF x.kind = "command" THEN Append(Coming(<<>>), x.cmd) ELSE Coming(<<>>))
    <3> DEFINE y == <<>>
    <3>1. y \in Seq(Sayings(s, q)) /\ x \in Sayings(s, q)
      BY <1>1
    <3>2. Coming(<<>>) = <<>>
      BY ComingMore
    <3> HIDE DEF x, y
    <3>3. Coming(Append(y, x)) = (IF x.kind = "command" THEN Append(Coming(y), x.cmd) ELSE Coming(y))
      BY <3>1, ComingMore
    <3> QED BY <3>2, <3>3 DEF y
  <2>2. Append(<<>>, x) = <<x>> /\ <<x>> \o <<>> = <<x>> /\ <<>> \in Seq(S) /\ Append(<<>>, x.cmd) = <<x.cmd>>
    BY <1>1
  <2>3. first \o <<>> = first
    BY <1>2, JoinMore
  <2> HIDE DEF x, S
  <2> QED BY <2>1, <2>2, <2>3
<1>5. ASSUME NEW b \in Seq(S), NEW m \in S, b \in B PROVE Append(b, m) \in B
  <2>1. /\ <<x>> \in Seq(S) /\ Append(b, m) \in Seq(S) /\ <<x>> \o b \in Seq(S)
        /\ <<x>> \o Append(b, m) = Append(<<x>> \o b, m)
    <3>1. <<x>> \in Seq(S)
      BY <1>1
    <3> HIDE DEF x, S
    <3> QED BY <3>1, JoinMore
  <2>2. Coming(Append(<<x>> \o b, m)) = (IF m.kind = "command"
                                            THEN Append(Coming(<<x>> \o b), m.cmd)
                                            ELSE Coming(<<x>> \o b))
    <3> DEFINE y == <<x>> \o b
    <3>1. y \in Seq(Sayings(s, q)) /\ m \in Sayings(s, q)
      BY <2>1
    <3> HIDE DEF y
    <3>2. Coming(Append(y, m)) = (IF m.kind = "command" THEN Append(Coming(y), m.cmd) ELSE Coming(y))
      BY <3>1, ComingMore
    <3> QED BY <3>2 DEF y
  <2>3. Coming(Append(b, m)) = (IF m.kind = "command" THEN Append(Coming(b), m.cmd) ELSE Coming(b))
    BY ComingMore
  <2>4. Coming(<<x>> \o b) = first \o Coming(b)
    BY <1>5
  <2>5. m.kind = "command" => Append(first \o Coming(b), m.cmd) = first \o Append(Coming(b), m.cmd)
    <3>1. m.kind = "command" => m.cmd \in Timed
      BY SayingIs
    <3> DEFINE d == Coming(b)
    <3>2. d \in Seq(Timed)
      BY <1>3
    <3> HIDE DEF first, S, d
    <3>3. ASSUME m.kind = "command" PROVE Append(first \o d, m.cmd) = first \o Append(d, m.cmd)
      <4> DEFINE e == m.cmd
      <4>1. e \in Timed
        BY <3>1, <3>3
      <4> HIDE DEF e
      <4>2. first \o Append(d, e) = Append(first \o d, e)
        BY <1>2, <3>2, <4>1, JoinMore
      <4> QED BY <4>2 DEF e
    <3> QED BY <3>3 DEF d
  <2>6. Coming(<<x>> \o Append(b, m)) = first \o Coming(Append(b, m))
    <3> HIDE DEF first, x
    <3> QED BY <2>1, <2>2, <2>3, <2>4, <2>5
  <2> HIDE DEF first, x, S
  <2> QED BY <2>1, <2>6
<1>6. Tail(box) \in B
  <2> HIDE DEF B, S, x
  <2> QED BY <1>1, <1>4, <1>5, ListClimb
<1>7. Coming(box) = first \o Coming(Tail(box)) /\ Coming(Tail(box)) \in Seq(Timed)
  <2> HIDE DEF first, x, S
  <2> QED BY <1>1, <1>3, <1>6
<1>8. <<>> \o Coming(Tail(box)) = Coming(Tail(box))
  BY <1>7, JoinMore
<1> HIDE DEF S
<1> QED BY <1>1, <1>7, <1>8 DEF S

(* What has come whole and no more is the whole. *)
LEMMA WholeCame ==
  ASSUME NEW S, NEW all \in Seq(S), NEW got \in Seq(S), NEW rest \in Seq(S), NEW n \in Nat,
         n <= Len(all), got \o rest = SubSeq(all, 1, n), Len(got) >= Len(all)
  PROVE  got = all
<1>1. /\ Len(got \o rest) = Len(got) + Len(rest) /\ Len(SubSeq(all, 1, n)) = n /\ Len(got) \in Nat
      /\ Len(rest) \in Nat /\ Len(all) \in Nat
  OBVIOUS
<1>2. n = Len(all) /\ Len(got) = Len(all) /\ Len(rest) = 0
  BY <1>1
<1>3. rest = <<>> /\ got \o rest = got
  BY <1>2
<1>4. SubSeq(all, 1, n) = all
  BY <1>2
<1> QED BY <1>3, <1>4

-------------------------------------------------------------------------------
(* The batch seats: who completes has run the whole script.                 *)

Hearing == {"waiting", "streaming", "collecting"}

(* A seat's record. *)
BatchSeats(s) ==
  [phase : {"out", "gone", "lingering", "digest"} \cup Hearing, sent : Nat, owed : Nat, got : Seq(Timed),
   run : {None, WholeRun(s)},
   status : {None, "NoPeer", "Died", "PeerRejoined", "PeerLost", "Match", "Alone"}]

(* Seat q as it stands with its peer: a is its record, b the peer's, box its   *)
(* inbox, other the peer's.                                                 *)
Stands(s, q, a, b, box, other) ==
  /\ a.phase = "digest" => a.run = WholeRun(s)
  /\ a.phase \in {"streaming", "collecting"} => a.owed = Len(SeatSchedule(s, Peer(q)))
  /\ a.phase \in {"out", "waiting"} => a.sent = 0
  /\ a.phase \in {"out", "waiting", "streaming"} => a.got = <<>>
  /\ a.sent <= Len(SeatSchedule(s, q))
  /\ a.phase = "out" => box = <<>> /\ other = <<>> /\ b.sent = 0 /\ b.phase \in {"out", "waiting", "gone"}
  /\ a.phase \in Hearing => a.got \o Coming(box) = SubSeq(SeatSchedule(s, Peer(q)), 1, b.sent)

BatchInv ==
  /\ script \in Scripts
  /\ seat \in [Role -> BatchSeats(script)]
  /\ DOMAIN inbox = Role
  /\ \A q \in Role : /\ inbox[q] \in Seq(Sayings(script, q))
                     /\ Stands(script, q, seat[q], seat[Peer(q)], inbox[q], inbox[Peer(q)])

(* The two roles are each other's peers. *)
LEMMA BothPeers ==
  ASSUME NEW r \in Role
  PROVE  Peer(r) \in Role /\ Peer(Peer(r)) = r /\ Peer(r) # r /\ \A q \in Role : q = r \/ q = Peer(r)
BY DEF Role, Peer

(* What the invariant says of a seat and of its peer. *)
LEMMA BatchParts ==
  ASSUME BatchInv, NEW r \in Role
  PROVE  /\ Peer(r) \in Role /\ Peer(Peer(r)) = r /\ script \in Scripts /\ DOMAIN inbox = Role
         /\ seat[r] \in BatchSeats(script) /\ seat[Peer(r)] \in BatchSeats(script)
         /\ inbox[r] \in Seq(Sayings(script, r)) /\ inbox[Peer(r)] \in Seq(Sayings(script, Peer(r)))
         /\ Stands(script, r, seat[r], seat[Peer(r)], inbox[r], inbox[Peer(r)])
         /\ Stands(script, Peer(r), seat[Peer(r)], seat[r], inbox[Peer(r)], inbox[r])
<1>1. Peer(r) \in Role /\ Peer(Peer(r)) = r
  BY BothPeers
<1> QED BY <1>1 DEF BatchInv

(* A step of one seat keeps the invariant if both still stand. *)
LEMMA BatchMoves ==
  ASSUME BatchInv, NEW r \in Role, NEW A \in BatchSeats(script), NEW R \in Seq(Sayings(script, r)),
         NEW P \in Seq(Sayings(script, Peer(r))),
         script' = script, seat' = [seat EXCEPT ![r] = A],
         DOMAIN inbox' = Role, inbox'[r] = R, inbox'[Peer(r)] = P,
         Stands(script, r, A, seat[Peer(r)], R, P), Stands(script, Peer(r), seat[Peer(r)], A, P, R)
  PROVE  BatchInv'
<1>1. Peer(r) \in Role /\ Peer(Peer(r)) = r /\ Peer(r) # r /\ \A q \in Role : q = r \/ q = Peer(r)
  BY BothPeers
<1>2. script \in Scripts /\ seat \in [Role -> BatchSeats(script)]
  BY DEF BatchInv
<1>3. seat' \in [Role -> BatchSeats(script)] /\ seat'[r] = A /\ seat'[Peer(r)] = seat[Peer(r)]
  BY <1>1, <1>2
<1>4. ASSUME NEW q \in Role
      PROVE  /\ inbox'[q] \in Seq(Sayings(script, q))
             /\ Stands(script, q, seat'[q], seat'[Peer(q)], inbox'[q], inbox'[Peer(q)])
  <2>1. CASE q = r
    BY <1>3, <2>1
  <2>2. CASE q = Peer(r)
    <3>1. Peer(q) = r
      BY <1>1, <2>2
    <3> QED BY <1>3, <2>2, <3>1
  <2> QED BY <1>1, <2>1, <2>2
<1> QED BY <1>2, <1>3, <1>4 DEF BatchInv

(* What is said reaches the peer's inbox if it is there. *)
Said(b, box, m) == IF b.phase \notin {"out", "gone"} THEN Append(box, m) ELSE box

(* A push changes the peer's inbox alone. *)
LEMMA RelayedIs ==
  ASSUME NEW boxes, DOMAIN boxes = Role, NEW r \in Role, NEW m
  PROVE  /\ DOMAIN Relayed(boxes, r, m) = Role /\ Relayed(boxes, r, m)[r] = boxes[r]
         /\ Relayed(boxes, r, m)[Peer(r)] = Said(seat[Peer(r)], boxes[Peer(r)], m)
<1>1. Peer(r) \in Role /\ Peer(r) # r
  BY BothPeers
<1>2. CASE seat[Peer(r)].phase \notin {"out", "gone"}
  <2>1. Relayed(boxes, r, m) = [boxes EXCEPT ![Peer(r)] = Append(boxes[Peer(r)], m)]
    BY <1>2 DEF Relayed, Joined
  <2>2. Said(seat[Peer(r)], boxes[Peer(r)], m) = Append(boxes[Peer(r)], m)
    BY <1>2 DEF Said
  <2> QED BY <1>1, <2>1, <2>2
<1>3. CASE seat[Peer(r)].phase \in {"out", "gone"}
  <2>1. Relayed(boxes, r, m) = boxes /\ Said(seat[Peer(r)], boxes[Peer(r)], m) = boxes[Peer(r)]
    BY <1>3 DEF Relayed, Joined, Said
  <2> QED BY <1>1, <2>1
<1> QED BY <1>2, <1>3

(* Notices, hellos, digests and commands are sayings. *)
LEMMA Sayable ==
  ASSUME NEW s \in Scripts, NEW q
  PROVE  /\ Notice("peer_joined") \in Sayings(s, q) /\ Notice("peer_left") \in Sayings(s, q)
         /\ Notice("peer_joined").kind # "command" /\ Notice("peer_left").kind # "command"
         /\ [kind |-> "hello", count |-> Len(SeatSchedule(s, Peer(q)))] \in Sayings(s, q)
         /\ [kind |-> "digest", log |-> WholeRun(s).log] \in Sayings(s, q)
         /\ \A c \in Timed : [kind |-> "command", cmd |-> c] \in Sayings(s, q)
BY DEF Sayings, Notice

(* A peer stands as it stood that hears nothing it need notice. *)
LEMMA PeerStands ==
  ASSUME NEW s, NEW q, NEW b, NEW a, NEW A, NEW box, NEW other, NEW P, NEW R,
         Stands(s, q, b, a, box, other),
         b.phase = "out" => P = box /\ R = <<>> /\ A.sent = 0 /\ A.phase \in {"out", "waiting", "gone"},
         b.phase \in Hearing => Coming(P) = Coming(box) /\ A.sent = a.sent
  PROVE  Stands(s, q, b, A, P, R)
BY DEF Stands

(* The initial states. *)
LEMMA BatchInitOK == BatchInit => BatchInv
<1> SUFFICES ASSUME BatchInit PROVE BatchInv
  OBVIOUS
<1> DEFINE fresh == [phase |-> "out", sent |-> 0, owed |-> 0, got |-> <<>>, run |-> None, status |-> None]
<1>1. script \in Scripts /\ seat = [r \in Role |-> fresh] /\ inbox = [r \in Role |-> <<>>]
  BY DEF BatchInit
<1>2. fresh \in BatchSeats(script)
  <2>1. <<>> \in Seq(Timed)
    OBVIOUS
  <2> QED BY <2>1 DEF BatchSeats
<1>3. \A q \in Role : Len(SeatSchedule(script, q)) \in Nat
  BY <1>1, SeatScheduleIs
<1>4. ASSUME NEW q \in Role
      PROVE  /\ inbox[q] \in Seq(Sayings(script, q))
             /\ Stands(script, q, seat[q], seat[Peer(q)], inbox[q], inbox[Peer(q)])
  <2>1. Peer(q) \in Role
    BY BothPeers
  <2>2. seat[q] = fresh /\ seat[Peer(q)] = fresh /\ inbox[q] = <<>> /\ inbox[Peer(q)] = <<>>
    BY <1>1, <2>1
  <2>3. Stands(script, q, fresh, fresh, <<>>, <<>>)
    BY <1>3 DEF Stands, Hearing
  <2> QED BY <2>2, <2>3
<1> HIDE DEF fresh
<1> QED BY <1>1, <1>2, <1>4 DEF BatchInv

(* A seat joins. *)
LEMMA JoinSessionOK ==
  ASSUME BatchInv, NEW r \in Role, JoinSession(r)
  PROVE  BatchInv'
<1> DEFINE p == Peer(r)
           a == seat[r]
           b == seat[p]
           box == inbox[r]
           its == inbox[p]
           Own == SeatSchedule(script, r)
           Other == SeatSchedule(script, p)
<1>1. /\ p \in Role /\ Peer(p) = r /\ script \in Scripts /\ DOMAIN inbox = Role
      /\ a \in BatchSeats(script) /\ b \in BatchSeats(script)
      /\ box \in Seq(Sayings(script, r)) /\ its \in Seq(Sayings(script, p))
      /\ Stands(script, r, a, b, box, its) /\ Stands(script, p, b, a, its, box)
  BY BatchParts
<1>2. Own \in Seq(Timed) /\ Other \in Seq(Timed) /\ Len(Own) \in Nat /\ Len(Other) \in Nat
  <2>1. Own \in Seq(Timed) /\ Other \in Seq(Timed)
    BY <1>1, SeatScheduleIs
  <2> HIDE DEF Own, Other
  <2> QED BY <2>1
<1> DEFINE A == [a EXCEPT !.phase = "waiting"]
           R == box
           told == Said(b, its, Notice("peer_joined"))
           P == Said(b, told, Hello(r))
<1>3. a.phase = "out" /\ script' = script /\ box = <<>> /\ its = <<>> /\ b.sent = 0 /\ a.got = <<>> /\ a.sent = 0
  BY <1>1 DEF JoinSession, Stands
<1>4. Hello(r) \in Sayings(script, p) /\ Hello(r).kind # "command"
  BY <1>1, Sayable DEF Hello
<1>5. A \in BatchSeats(script) /\ A.phase = "waiting" /\ A.sent = a.sent /\ A.got = a.got
  BY <1>1 DEF BatchSeats, Hearing
<1>6. told \in Seq(Sayings(script, p)) /\ Coming(told) = Coming(its) /\ (b.phase = "out" => told = its)
  <2> DEFINE m == Notice("peer_joined")
  <2>1. m \in Sayings(script, p) /\ m.kind # "command" /\ its \in Seq(Sayings(script, p))
    BY <1>1, Sayable
  <2> HIDE DEF m, its, b, p
  <2> DEFINE S == Said(b, its, m)
  <2>2. /\ S \in Seq(Sayings(script, p))
        /\ b.phase \in {"out", "gone"} => S = its
        /\ b.phase \notin {"out", "gone"} => S = Append(its, m)
    BY <2>1 DEF Said
  <2>3. Coming(Append(its, m)) = Coming(its)
    BY <2>1, ComingMore
  <2> HIDE DEF S
  <2>4. S \in Seq(Sayings(script, p)) /\ Coming(S) = Coming(its) /\ (b.phase = "out" => S = its)
    BY <2>2, <2>3
  <2> QED BY <2>4 DEF m, S
<1>7. P \in Seq(Sayings(script, p)) /\ Coming(P) = Coming(told) /\ (b.phase = "out" => P = told)
  <2> DEFINE m == Hello(r)
  <2> HIDE DEF told, b, p, m
  <2> DEFINE S == Said(b, told, m)
  <2>1. /\ S \in Seq(Sayings(script, p))
        /\ b.phase \in {"out", "gone"} => S = told
        /\ b.phase \notin {"out", "gone"} => S = Append(told, m)
    BY <1>4, <1>6 DEF Said, m
  <2>2. Coming(Append(told, m)) = Coming(told)
    BY <1>4, <1>6, ComingMore DEF m
  <2> HIDE DEF S
  <2>3. S \in Seq(Sayings(script, p)) /\ Coming(S) = Coming(told) /\ (b.phase = "out" => S = told)
    BY <2>1, <2>2
  <2> QED BY <2>3 DEF m, S
<1>8. R \in Seq(Sayings(script, r)) /\ P \in Seq(Sayings(script, p))
  BY <1>1, <1>7
<1>9. /\ seat' = [seat EXCEPT ![r] = A] /\ script' = script
       /\ DOMAIN inbox' = Role /\ inbox'[r] = R /\ inbox'[p] = P
  <2> DEFINE first == Relayed(inbox, r, Notice("peer_joined"))
  <2>1. DOMAIN first = Role /\ first[r] = box /\ first[p] = told
    BY <1>1, RelayedIs
  <2>2. inbox' = Relayed(first, r, Hello(r)) /\ seat' = [seat EXCEPT ![r] = A]
    BY DEF JoinSession, Becomes
  <2> HIDE DEF first, A
  <2>3. DOMAIN inbox' = Role /\ inbox'[r] = first[r] /\ inbox'[p] = Said(b, first[p], Hello(r))
    BY <1>1, <2>1, <2>2, RelayedIs
  <2> QED BY <1>3, <2>1, <2>2, <2>3
<1>10. Stands(script, r, A, b, R, P)
  <2>1. Coming(box) = <<>>
    <3>1. Coming(<<>>) = <<>>
      BY ComingMore
    <3> QED BY <1>3, <3>1
  <2>2. A.got \o Coming(R) = SubSeq(Other, 1, b.sent)
    <3>1. SubSeq(Other, 1, 0) = <<>> /\ <<>> \o <<>> = <<>>
      BY <1>2
    <3> HIDE DEF A
    <3> QED BY <1>3, <1>5, <2>1, <3>1
  <2>3. A.sent <= Len(Own)
    BY <1>1, <1>5 DEF Stands
  <2> HIDE DEF A, R, P
  <2> QED BY <1>3, <1>5, <2>2, <2>3 DEF Stands
<1>11. Stands(script, p, b, A, P, R)
  <2> HIDE DEF A, R, P, told
  <2>1. b.phase = "out" => P = its /\ R = <<>> /\ A.sent = 0 /\ A.phase \in {"out", "waiting", "gone"}
    BY <1>3, <1>6, <1>7, <1>5 DEF R
  <2>2. b.phase \in Hearing => Coming(P) = Coming(its) /\ A.sent = a.sent
    BY <1>6, <1>7, <1>5
  <2> QED BY <1>1, <2>1, <2>2, PeerStands
<1> HIDE DEF A, R, P
<1> QED BY <1>5, <1>8, <1>9, <1>10, <1>11, BatchMoves

(* A waiting seat answers a peer that joins. *)
LEMMA AnswerJoinOK ==
  ASSUME BatchInv, NEW r \in Role, AnswerJoin(r)
  PROVE  BatchInv'
<1> DEFINE p == Peer(r)
           a == seat[r]
           b == seat[p]
           box == inbox[r]
           its == inbox[p]
           Own == SeatSchedule(script, r)
           Other == SeatSchedule(script, p)
<1>1. /\ p \in Role /\ Peer(p) = r /\ script \in Scripts /\ DOMAIN inbox = Role
      /\ a \in BatchSeats(script) /\ b \in BatchSeats(script)
      /\ box \in Seq(Sayings(script, r)) /\ its \in Seq(Sayings(script, p))
      /\ Stands(script, r, a, b, box, its) /\ Stands(script, p, b, a, its, box)
  BY BatchParts
<1>2. Own \in Seq(Timed) /\ Other \in Seq(Timed) /\ Len(Own) \in Nat /\ Len(Other) \in Nat
  <2>1. Own \in Seq(Timed) /\ Other \in Seq(Timed)
    BY <1>1, SeatScheduleIs
  <2> HIDE DEF Own, Other
  <2> QED BY <2>1
<1> DEFINE A == a
           R == Tail(box)
           P == Said(b, its, Hello(r))
<1>3. a.phase = "waiting" /\ script' = script /\ seat' = seat
  BY DEF AnswerJoin
<1>4. /\ box # <<>> /\ Tail(box) \in Seq(Sayings(script, r)) /\ Coming(Tail(box)) = Coming(box)
      /\ Head(box) \in Sayings(script, r)
  <2>1. box # <<>> /\ Head(box).kind # "command"
    BY DEF AnswerJoin, Heads
  <2> QED BY <1>1, <2>1, ComingHead
<1>5. DOMAIN Pop(r) = Role /\ Pop(r)[r] = Tail(box) /\ Pop(r)[p] = its
  <2>1. p # r
    BY BothPeers
  <2> QED BY <1>1, <2>1 DEF Pop
<1>6. Hello(r) \in Sayings(script, p) /\ Hello(r).kind # "command"
  BY <1>1, Sayable DEF Hello
<1>7. P \in Seq(Sayings(script, p)) /\ Coming(P) = Coming(its) /\ (b.phase = "out" => P = its)
  <2> DEFINE m == Hello(r)
  <2>1. its \in Seq(Sayings(script, p))
    BY <1>1
  <2> HIDE DEF its, b, p, m
  <2> DEFINE S == Said(b, its, m)
  <2>2. /\ S \in Seq(Sayings(script, p))
        /\ b.phase \in {"out", "gone"} => S = its
        /\ b.phase \notin {"out", "gone"} => S = Append(its, m)
    BY <1>6, <2>1 DEF Said, m
  <2>3. Coming(Append(its, m)) = Coming(its)
    BY <1>6, <2>1, ComingMore DEF m
  <2> HIDE DEF S
  <2>4. S \in Seq(Sayings(script, p)) /\ Coming(S) = Coming(its) /\ (b.phase = "out" => S = its)
    BY <2>2, <2>3
  <2> QED BY <2>4 DEF m, S
<1>8. A \in BatchSeats(script)
  BY <1>1
<1>9. R \in Seq(Sayings(script, r)) /\ P \in Seq(Sayings(script, p))
  BY <1>4, <1>7
<1>10. /\ seat' = [seat EXCEPT ![r] = A] /\ script' = script
       /\ DOMAIN inbox' = Role /\ inbox'[r] = R /\ inbox'[p] = P
  <2>1. inbox' = Relayed(Pop(r), r, Hello(r))
    BY DEF AnswerJoin
  <2>2. seat' = [seat EXCEPT ![r] = A]
    BY <1>3 DEF BatchInv
  <2> DEFINE first == Pop(r)
  <2> HIDE DEF first, A
  <2>3. DOMAIN inbox' = Role /\ inbox'[r] = first[r] /\ inbox'[p] = Said(b, first[p], Hello(r))
    BY <1>1, <1>5, <2>1, RelayedIs DEF first
  <2> QED BY <1>3, <1>5, <2>2, <2>3 DEF first
<1>11. Stands(script, r, A, b, R, P)
  <2> HIDE DEF R, P
  <2> QED BY <1>1, <1>3, <1>4 DEF Stands, R
<1>12. Stands(script, p, b, A, P, R)
  <2>1. b.phase # "out"
    BY <1>1, <1>4 DEF Stands
  <2> HIDE DEF A, R, P
  <2>2. b.phase \in Hearing => Coming(P) = Coming(its) /\ A.sent = a.sent
    BY <1>7 DEF A
  <2> QED BY <1>1, <2>1, <2>2, PeerStands
<1> HIDE DEF A, R, P
<1> QED BY <1>8, <1>9, <1>10, <1>11, <1>12, BatchMoves

(* A seat gives up waiting. *)
LEMMA GiveUpWaitingOK ==
  ASSUME BatchInv, NEW r \in Role, GiveUpWaiting(r)
  PROVE  BatchInv'
<1> DEFINE p == Peer(r)
           a == seat[r]
           b == seat[p]
           box == inbox[r]
           its == inbox[p]
           Own == SeatSchedule(script, r)
           Other == SeatSchedule(script, p)
<1>1. /\ p \in Role /\ Peer(p) = r /\ script \in Scripts /\ DOMAIN inbox = Role
      /\ a \in BatchSeats(script) /\ b \in BatchSeats(script)
      /\ box \in Seq(Sayings(script, r)) /\ its \in Seq(Sayings(script, p))
      /\ Stands(script, r, a, b, box, its) /\ Stands(script, p, b, a, its, box)
  BY BatchParts
<1>2. Own \in Seq(Timed) /\ Other \in Seq(Timed) /\ Len(Own) \in Nat /\ Len(Other) \in Nat
  <2>1. Own \in Seq(Timed) /\ Other \in Seq(Timed)
    BY <1>1, SeatScheduleIs
  <2> HIDE DEF Own, Other
  <2> QED BY <2>1
<1> DEFINE A == [a EXCEPT !.phase = "gone", !.status = "NoPeer"]
           R == <<>>
           P == its
<1>3. a.phase = "waiting" /\ script' = script
  BY DEF GiveUpWaiting
<1>4. A \in BatchSeats(script) /\ A.phase = "gone" /\ A.sent = a.sent
  BY <1>1 DEF BatchSeats, Hearing
<1>5. R \in Seq(Sayings(script, r)) /\ P \in Seq(Sayings(script, p))
  BY <1>1
<1>6. /\ seat' = [seat EXCEPT ![r] = A] /\ script' = script
       /\ DOMAIN inbox' = Role /\ inbox'[r] = R /\ inbox'[p] = P
  <2>1. inbox' = [inbox EXCEPT ![r] = <<>>] /\ seat' = [seat EXCEPT ![r] = A]
    BY DEF GiveUpWaiting, Becomes, Ends
  <2>2. p # r
    BY BothPeers
  <2> HIDE DEF A
  <2> QED BY <1>1, <1>3, <2>1, <2>2
<1>7. Stands(script, r, A, b, R, P)
  <2> HIDE DEF A
  <2> QED BY <1>1, <1>3, <1>4 DEF Stands, Hearing
<1>8. Stands(script, p, b, A, P, R)
  <2>1. b.phase = "out" => a.phase \in {"out", "waiting", "gone"} /\ a.sent = 0
    BY <1>1 DEF Stands
  <2> HIDE DEF A, R, P
  <2>2. b.phase \in Hearing => Coming(P) = Coming(its) /\ A.sent = a.sent
    BY <1>4 DEF P
  <2>3. b.phase = "out" => P = its /\ R = <<>> /\ A.sent = 0 /\ A.phase \in {"out", "waiting", "gone"}
    BY <1>1, <1>4, <2>1 DEF P, R, Stands
  <2> QED BY <1>1, <2>2, <2>3, PeerStands
<1> HIDE DEF A, R, P
<1> QED BY <1>4, <1>5, <1>6, <1>7, <1>8, BatchMoves

(* A seat takes its peer's hello. *)
LEMMA TakeHelloOK ==
  ASSUME BatchInv, NEW r \in Role, TakeHello(r)
  PROVE  BatchInv'
<1> DEFINE p == Peer(r)
           a == seat[r]
           b == seat[p]
           box == inbox[r]
           its == inbox[p]
           Own == SeatSchedule(script, r)
           Other == SeatSchedule(script, p)
<1>1. /\ p \in Role /\ Peer(p) = r /\ script \in Scripts /\ DOMAIN inbox = Role
      /\ a \in BatchSeats(script) /\ b \in BatchSeats(script)
      /\ box \in Seq(Sayings(script, r)) /\ its \in Seq(Sayings(script, p))
      /\ Stands(script, r, a, b, box, its) /\ Stands(script, p, b, a, its, box)
  BY BatchParts
<1>2. Own \in Seq(Timed) /\ Other \in Seq(Timed) /\ Len(Own) \in Nat /\ Len(Other) \in Nat
  <2>1. Own \in Seq(Timed) /\ Other \in Seq(Timed)
    BY <1>1, SeatScheduleIs
  <2> HIDE DEF Own, Other
  <2> QED BY <2>1
<1> DEFINE A == [a EXCEPT !.phase = "streaming", !.owed = Head(box).count]
           R == Tail(box)
           P == its
<1>3. a.phase = "waiting" /\ Head(box).kind = "hello" /\ script' = script
  BY DEF TakeHello, Heads
<1>4. /\ box # <<>> /\ Tail(box) \in Seq(Sayings(script, r)) /\ Coming(Tail(box)) = Coming(box)
      /\ Head(box) \in Sayings(script, r)
  <2>1. box # <<>> /\ Head(box).kind # "command"
    BY DEF TakeHello, Heads
  <2> QED BY <1>1, <2>1, ComingHead
<1>5. DOMAIN Pop(r) = Role /\ Pop(r)[r] = Tail(box) /\ Pop(r)[p] = its
  <2>1. p # r
    BY BothPeers
  <2> QED BY <1>1, <2>1 DEF Pop
<1>6. A \in BatchSeats(script) /\ A.phase = "streaming" /\ A.sent = a.sent /\ A.got = a.got /\ A.owed = Len(Other)
  <2>1. Head(box).count = Len(Other)
    BY <1>3, <1>4, SayingIs
  <2> HIDE DEF Other
  <2> QED BY <1>1, <1>2, <2>1 DEF BatchSeats, Hearing
<1>7. R \in Seq(Sayings(script, r)) /\ P \in Seq(Sayings(script, p))
  BY <1>1, <1>4
<1>8. /\ seat' = [seat EXCEPT ![r] = A] /\ script' = script
       /\ DOMAIN inbox' = Role /\ inbox'[r] = R /\ inbox'[p] = P
  <2>1. inbox' = Pop(r) /\ seat' = [seat EXCEPT ![r] = A]
    BY DEF TakeHello, Becomes
  <2>2. p # r
    BY BothPeers
  <2> HIDE DEF A
  <2> QED BY <1>1, <1>5, <1>3, <2>1, <2>2
<1>9. Stands(script, r, A, b, R, P)
  <2> HIDE DEF A
  <2> QED BY <1>1, <1>3, <1>4, <1>6 DEF Stands, Hearing
<1>10. Stands(script, p, b, A, P, R)
  <2>1. b.phase # "out"
    BY <1>1, <1>4 DEF Stands
  <2> HIDE DEF A, R, P
  <2>2. b.phase \in Hearing => Coming(P) = Coming(its) /\ A.sent = a.sent
    BY <1>6 DEF P
  <2>3. b.phase = "out" => P = its /\ R = <<>> /\ A.sent = 0 /\ A.phase \in {"out", "waiting", "gone"}
    BY <1>1, <1>6, <2>1 DEF P, R, Stands
  <2> QED BY <1>1, <2>2, <2>3, PeerStands
<1> HIDE DEF A, R, P
<1> QED BY <1>6, <1>7, <1>8, <1>9, <1>10, BatchMoves

(* A seat has streamed all it has. *)
LEMMA StreamDoneOK ==
  ASSUME BatchInv, NEW r \in Role, StreamDone(r)
  PROVE  BatchInv'
<1> DEFINE p == Peer(r)
           a == seat[r]
           b == seat[p]
           box == inbox[r]
           its == inbox[p]
           Own == SeatSchedule(script, r)
           Other == SeatSchedule(script, p)
<1>1. /\ p \in Role /\ Peer(p) = r /\ script \in Scripts /\ DOMAIN inbox = Role
      /\ a \in BatchSeats(script) /\ b \in BatchSeats(script)
      /\ box \in Seq(Sayings(script, r)) /\ its \in Seq(Sayings(script, p))
      /\ Stands(script, r, a, b, box, its) /\ Stands(script, p, b, a, its, box)
  BY BatchParts
<1>2. Own \in Seq(Timed) /\ Other \in Seq(Timed) /\ Len(Own) \in Nat /\ Len(Other) \in Nat
  <2>1. Own \in Seq(Timed) /\ Other \in Seq(Timed)
    BY <1>1, SeatScheduleIs
  <2> HIDE DEF Own, Other
  <2> QED BY <2>1
<1> DEFINE A == [a EXCEPT !.phase = "collecting"]
           R == box
           P == its
<1>3. a.phase = "streaming" /\ script' = script
  BY DEF StreamDone
<1>4. A \in BatchSeats(script) /\ A.phase = "collecting" /\ A.sent = a.sent /\ A.got = a.got /\ A.owed = a.owed
  BY <1>1 DEF BatchSeats, Hearing
<1>5. R \in Seq(Sayings(script, r)) /\ P \in Seq(Sayings(script, p))
  BY <1>1
<1>6. /\ seat' = [seat EXCEPT ![r] = A] /\ script' = script
       /\ DOMAIN inbox' = Role /\ inbox'[r] = R /\ inbox'[p] = P
  <2>1. inbox' = inbox /\ seat' = [seat EXCEPT ![r] = A]
    BY DEF StreamDone, Becomes
  <2>2. p # r
    BY BothPeers
  <2> HIDE DEF A
  <2> QED BY <1>1, <1>3, <2>1, <2>2
<1>7. Stands(script, r, A, b, R, P)
  <2> HIDE DEF A
  <2> QED BY <1>1, <1>3, <1>4 DEF Stands, Hearing
<1>8. Stands(script, p, b, A, P, R)
  <2>1. b.phase # "out"
    BY <1>1, <1>3 DEF Stands
  <2> HIDE DEF A, R, P
  <2>2. b.phase \in Hearing => Coming(P) = Coming(its) /\ A.sent = a.sent
    BY <1>4 DEF P
  <2>3. b.phase = "out" => P = its /\ R = <<>> /\ A.sent = 0 /\ A.phase \in {"out", "waiting", "gone"}
    BY <1>1, <1>4, <2>1 DEF P, R, Stands
  <2> QED BY <1>1, <2>2, <2>3, PeerStands
<1> HIDE DEF A, R, P
<1> QED BY <1>4, <1>5, <1>6, <1>7, <1>8, BatchMoves

(* A seat collects a command. *)
LEMMA CollectOK ==
  ASSUME BatchInv, NEW r \in Role, Collect(r)
  PROVE  BatchInv'
<1> DEFINE p == Peer(r)
           a == seat[r]
           b == seat[p]
           box == inbox[r]
           its == inbox[p]
           Own == SeatSchedule(script, r)
           Other == SeatSchedule(script, p)
<1>1. /\ p \in Role /\ Peer(p) = r /\ script \in Scripts /\ DOMAIN inbox = Role
      /\ a \in BatchSeats(script) /\ b \in BatchSeats(script)
      /\ box \in Seq(Sayings(script, r)) /\ its \in Seq(Sayings(script, p))
      /\ Stands(script, r, a, b, box, its) /\ Stands(script, p, b, a, its, box)
  BY BatchParts
<1>2. Own \in Seq(Timed) /\ Other \in Seq(Timed) /\ Len(Own) \in Nat /\ Len(Other) \in Nat
  <2>1. Own \in Seq(Timed) /\ Other \in Seq(Timed)
    BY <1>1, SeatScheduleIs
  <2> HIDE DEF Own, Other
  <2> QED BY <2>1
<1> DEFINE A == [a EXCEPT !.got = Append(a.got, Head(box).cmd)]
           R == Tail(box)
           P == its
<1>3. a.phase = "collecting" /\ Head(box).kind = "command" /\ box # <<>> /\ script' = script
  BY DEF Collect, Owed, Heads
<1>4. /\ Tail(box) \in Seq(Sayings(script, r)) /\ Head(box) \in Sayings(script, r) /\ Head(box).cmd \in Timed
      /\ Coming(Tail(box)) \in Seq(Timed) /\ Coming(box) = <<Head(box).cmd>> \o Coming(Tail(box))
  <2>1. Head(box) \in Sayings(script, r)
    BY <1>1, <1>3, ComingHead
  <2> QED BY <1>1, <1>3, <2>1, ComingHead, SayingIs
<1>5. DOMAIN Pop(r) = Role /\ Pop(r)[r] = Tail(box) /\ Pop(r)[p] = its
  <2>1. p # r
    BY BothPeers
  <2> QED BY <1>1, <2>1 DEF Pop
<1>6. a.got \in Seq(Timed)
  BY <1>1 DEF BatchSeats
<1>7. /\ A \in BatchSeats(script) /\ A.phase = a.phase /\ A.sent = a.sent /\ A.run = a.run /\ A.owed = a.owed
       /\ A.got = Append(a.got, Head(box).cmd)
  <2>1. Append(a.got, Head(box).cmd) \in Seq(Timed)
    BY <1>4, <1>6
  <2> QED BY <1>1, <2>1 DEF BatchSeats
<1>8. R \in Seq(Sayings(script, r)) /\ P \in Seq(Sayings(script, p))
  BY <1>1, <1>4
<1>9. /\ seat' = [seat EXCEPT ![r] = A] /\ script' = script
       /\ DOMAIN inbox' = Role /\ inbox'[r] = R /\ inbox'[p] = P
  <2>1. inbox' = Pop(r) /\ seat' = [seat EXCEPT ![r] = A]
    BY DEF Collect, Becomes
  <2>2. p # r
    BY BothPeers
  <2> HIDE DEF A
  <2> QED BY <1>1, <1>5, <1>3, <2>1, <2>2
<1>10. Stands(script, r, A, b, R, P)
  <2>1. A.got \o Coming(Tail(box)) = a.got \o Coming(box)
    <3>1. a.got \o (<<Head(box).cmd>> \o Coming(Tail(box))) = Append(a.got, Head(box).cmd) \o Coming(Tail(box))
      <4> DEFINE c == Head(box).cmd
                 rest == Coming(Tail(box))
                 had == a.got
      <4>1. c \in Timed /\ rest \in Seq(Timed) /\ had \in Seq(Timed)
        BY <1>4, <1>6
      <4> HIDE DEF c, rest, had
      <4>2. had \o (<<c>> \o rest) = Append(had, c) \o rest
        BY <4>1, JoinOne
      <4> QED BY <4>2 DEF c, rest, had
    <3> HIDE DEF A
    <3> QED BY <1>4, <1>7, <3>1
  <2> HIDE DEF A
  <2> QED BY <1>1, <1>3, <1>7, <2>1 DEF Stands, Hearing
<1>11. Stands(script, p, b, A, P, R)
  <2>1. b.phase # "out"
    BY <1>1, <1>3 DEF Stands
  <2> HIDE DEF A, R, P
  <2>2. b.phase \in Hearing => Coming(P) = Coming(its) /\ A.sent = a.sent
    BY <1>7 DEF P
  <2>3. b.phase = "out" => P = its /\ R = <<>> /\ A.sent = 0 /\ A.phase \in {"out", "waiting", "gone"}
    BY <1>1, <1>7, <2>1 DEF P, R, Stands
  <2> QED BY <1>1, <2>2, <2>3, PeerStands
<1> HIDE DEF A, R, P
<1> QED BY <1>7, <1>8, <1>9, <1>10, <1>11, BatchMoves

(* A collecting seat passes over what is neither a command nor a departure. *)
LEMMA CollectOtherOK ==
  ASSUME BatchInv, NEW r \in Role, CollectOther(r)
  PROVE  BatchInv'
<1> DEFINE p == Peer(r)
           a == seat[r]
           b == seat[p]
           box == inbox[r]
           its == inbox[p]
           Own == SeatSchedule(script, r)
           Other == SeatSchedule(script, p)
<1>1. /\ p \in Role /\ Peer(p) = r /\ script \in Scripts /\ DOMAIN inbox = Role
      /\ a \in BatchSeats(script) /\ b \in BatchSeats(script)
      /\ box \in Seq(Sayings(script, r)) /\ its \in Seq(Sayings(script, p))
      /\ Stands(script, r, a, b, box, its) /\ Stands(script, p, b, a, its, box)
  BY BatchParts
<1>2. Own \in Seq(Timed) /\ Other \in Seq(Timed) /\ Len(Own) \in Nat /\ Len(Other) \in Nat
  <2>1. Own \in Seq(Timed) /\ Other \in Seq(Timed)
    BY <1>1, SeatScheduleIs
  <2> HIDE DEF Own, Other
  <2> QED BY <2>1
<1> DEFINE A == a
           R == Tail(box)
           P == its
<1>3. a.phase = "collecting" /\ script' = script
  BY DEF CollectOther, Owed
<1>4. /\ box # <<>> /\ Tail(box) \in Seq(Sayings(script, r)) /\ Coming(Tail(box)) = Coming(box)
      /\ Head(box) \in Sayings(script, r)
  <2>1. box # <<>> /\ Head(box).kind # "command"
    BY DEF CollectOther, Heads
  <2> QED BY <1>1, <2>1, ComingHead
<1>5. DOMAIN Pop(r) = Role /\ Pop(r)[r] = Tail(box) /\ Pop(r)[p] = its
  <2>1. p # r
    BY BothPeers
  <2> QED BY <1>1, <2>1 DEF Pop
<1>6. A \in BatchSeats(script) /\ A.phase = a.phase /\ A.sent = a.sent /\ A.got = a.got
  BY <1>1
<1>7. R \in Seq(Sayings(script, r)) /\ P \in Seq(Sayings(script, p))
  BY <1>1, <1>4
<1>8. /\ seat' = [seat EXCEPT ![r] = A] /\ script' = script
       /\ DOMAIN inbox' = Role /\ inbox'[r] = R /\ inbox'[p] = P
  <2>1. inbox' = Pop(r) /\ seat' = [seat EXCEPT ![r] = A]
    BY DEF CollectOther, BatchInv
  <2>2. p # r
    BY BothPeers
  <2> HIDE DEF A
  <2> QED BY <1>1, <1>5, <1>3, <2>1, <2>2
<1>9. Stands(script, r, A, b, R, P)
  <2> QED BY <1>1, <1>3, <1>4 DEF Stands, Hearing
<1>10. Stands(script, p, b, A, P, R)
  <2>1. b.phase # "out"
    BY <1>1, <1>3 DEF Stands
  <2> HIDE DEF A, R, P
  <2>2. b.phase \in Hearing => Coming(P) = Coming(its) /\ A.sent = a.sent
    BY <1>6 DEF P
  <2>3. b.phase = "out" => P = its /\ R = <<>> /\ A.sent = 0 /\ A.phase \in {"out", "waiting", "gone"}
    BY <1>1, <1>6, <2>1 DEF P, R, Stands
  <2> QED BY <1>1, <2>2, <2>3, PeerStands
<1> HIDE DEF A, R, P
<1> QED BY <1>6, <1>7, <1>8, <1>9, <1>10, BatchMoves

(* A collecting seat is told that its peer has left. *)
LEMMA CollectLeftOK ==
  ASSUME BatchInv, NEW r \in Role, CollectLeft(r)
  PROVE  BatchInv'
<1> DEFINE p == Peer(r)
           a == seat[r]
           b == seat[p]
           box == inbox[r]
           its == inbox[p]
           Own == SeatSchedule(script, r)
           Other == SeatSchedule(script, p)
<1>1. /\ p \in Role /\ Peer(p) = r /\ script \in Scripts /\ DOMAIN inbox = Role
      /\ a \in BatchSeats(script) /\ b \in BatchSeats(script)
      /\ box \in Seq(Sayings(script, r)) /\ its \in Seq(Sayings(script, p))
      /\ Stands(script, r, a, b, box, its) /\ Stands(script, p, b, a, its, box)
  BY BatchParts
<1>2. Own \in Seq(Timed) /\ Other \in Seq(Timed) /\ Len(Own) \in Nat /\ Len(Other) \in Nat
  <2>1. Own \in Seq(Timed) /\ Other \in Seq(Timed)
    BY <1>1, SeatScheduleIs
  <2> HIDE DEF Own, Other
  <2> QED BY <2>1
<1> DEFINE A == [a EXCEPT !.phase = "lingering"]
           R == Tail(box)
           P == its
<1>3. a.phase = "collecting" /\ script' = script
  BY DEF CollectLeft, Owed
<1>4. /\ box # <<>> /\ Tail(box) \in Seq(Sayings(script, r)) /\ Coming(Tail(box)) = Coming(box)
      /\ Head(box) \in Sayings(script, r)
  <2>1. box # <<>> /\ Head(box).kind # "command"
    BY DEF CollectLeft, Heads
  <2> QED BY <1>1, <2>1, ComingHead
<1>5. DOMAIN Pop(r) = Role /\ Pop(r)[r] = Tail(box) /\ Pop(r)[p] = its
  <2>1. p # r
    BY BothPeers
  <2> QED BY <1>1, <2>1 DEF Pop
<1>6. A \in BatchSeats(script) /\ A.phase = "lingering" /\ A.sent = a.sent
  BY <1>1 DEF BatchSeats, Hearing
<1>7. R \in Seq(Sayings(script, r)) /\ P \in Seq(Sayings(script, p))
  BY <1>1, <1>4
<1>8. /\ seat' = [seat EXCEPT ![r] = A] /\ script' = script
       /\ DOMAIN inbox' = Role /\ inbox'[r] = R /\ inbox'[p] = P
  <2>1. inbox' = Pop(r) /\ seat' = [seat EXCEPT ![r] = A]
    BY DEF CollectLeft, Becomes
  <2>2. p # r
    BY BothPeers
  <2> HIDE DEF A
  <2> QED BY <1>1, <1>5, <1>3, <2>1, <2>2
<1>9. Stands(script, r, A, b, R, P)
  <2> HIDE DEF A
  <2> QED BY <1>1, <1>3, <1>6 DEF Stands, Hearing
<1>10. Stands(script, p, b, A, P, R)
  <2>1. b.phase # "out"
    BY <1>1, <1>3 DEF Stands
  <2> HIDE DEF A, R, P
  <2>2. b.phase \in Hearing => Coming(P) = Coming(its) /\ A.sent = a.sent
    BY <1>6 DEF P
  <2>3. b.phase = "out" => P = its /\ R = <<>> /\ A.sent = 0 /\ A.phase \in {"out", "waiting", "gone"}
    BY <1>1, <1>6, <2>1 DEF P, R, Stands
  <2> QED BY <1>1, <2>2, <2>3, PeerStands
<1> HIDE DEF A, R, P
<1> QED BY <1>6, <1>7, <1>8, <1>9, <1>10, BatchMoves

(* A lingering seat ends. *)
LEMMA LingerOK ==
  ASSUME BatchInv, NEW r \in Role, Linger(r)
  PROVE  BatchInv'
<1> DEFINE p == Peer(r)
           a == seat[r]
           b == seat[p]
           box == inbox[r]
           its == inbox[p]
           Own == SeatSchedule(script, r)
           Other == SeatSchedule(script, p)
<1>1. /\ p \in Role /\ Peer(p) = r /\ script \in Scripts /\ DOMAIN inbox = Role
      /\ a \in BatchSeats(script) /\ b \in BatchSeats(script)
      /\ box \in Seq(Sayings(script, r)) /\ its \in Seq(Sayings(script, p))
      /\ Stands(script, r, a, b, box, its) /\ Stands(script, p, b, a, its, box)
  BY BatchParts
<1>2. Own \in Seq(Timed) /\ Other \in Seq(Timed) /\ Len(Own) \in Nat /\ Len(Other) \in Nat
  <2>1. Own \in Seq(Timed) /\ Other \in Seq(Timed)
    BY <1>1, SeatScheduleIs
  <2> HIDE DEF Own, Other
  <2> QED BY <2>1
<1> DEFINE A == [a EXCEPT !.phase = "gone", !.status = IF Heads(r, "peer_joined") THEN "PeerRejoined" ELSE "PeerLost"]
           R == <<>>
           P == its
<1>3. a.phase = "lingering" /\ script' = script
  BY DEF Linger
<1>4. A \in BatchSeats(script) /\ A.phase = "gone" /\ A.sent = a.sent
  BY <1>1 DEF BatchSeats, Hearing
<1>5. R \in Seq(Sayings(script, r)) /\ P \in Seq(Sayings(script, p))
  BY <1>1
<1>6. /\ seat' = [seat EXCEPT ![r] = A] /\ script' = script
       /\ DOMAIN inbox' = Role /\ inbox'[r] = R /\ inbox'[p] = P
  <2>1. inbox' = [inbox EXCEPT ![r] = <<>>] /\ seat' = [seat EXCEPT ![r] = A]
    BY DEF Linger, Becomes, Ends
  <2>2. p # r
    BY BothPeers
  <2> HIDE DEF A
  <2> QED BY <1>1, <1>3, <2>1, <2>2
<1>7. Stands(script, r, A, b, R, P)
  <2> HIDE DEF A
  <2> QED BY <1>1, <1>3, <1>4 DEF Stands, Hearing
<1>8. Stands(script, p, b, A, P, R)
  <2>1. b.phase # "out"
    BY <1>1, <1>3 DEF Stands
  <2> HIDE DEF A, R, P
  <2>2. b.phase \in Hearing => Coming(P) = Coming(its) /\ A.sent = a.sent
    BY <1>4 DEF P
  <2>3. b.phase = "out" => P = its /\ R = <<>> /\ A.sent = 0 /\ A.phase \in {"out", "waiting", "gone"}
    BY <1>1, <1>4, <2>1 DEF P, R, Stands
  <2> QED BY <1>1, <2>2, <2>3, PeerStands
<1> HIDE DEF A, R, P
<1> QED BY <1>4, <1>5, <1>6, <1>7, <1>8, BatchMoves

(* A collecting seat ends that hears nothing. *)
LEMMA CollectSilenceOK ==
  ASSUME BatchInv, NEW r \in Role, CollectSilence(r)
  PROVE  BatchInv'
<1> DEFINE p == Peer(r)
           a == seat[r]
           b == seat[p]
           box == inbox[r]
           its == inbox[p]
           Own == SeatSchedule(script, r)
           Other == SeatSchedule(script, p)
<1>1. /\ p \in Role /\ Peer(p) = r /\ script \in Scripts /\ DOMAIN inbox = Role
      /\ a \in BatchSeats(script) /\ b \in BatchSeats(script)
      /\ box \in Seq(Sayings(script, r)) /\ its \in Seq(Sayings(script, p))
      /\ Stands(script, r, a, b, box, its) /\ Stands(script, p, b, a, its, box)
  BY BatchParts
<1>2. Own \in Seq(Timed) /\ Other \in Seq(Timed) /\ Len(Own) \in Nat /\ Len(Other) \in Nat
  <2>1. Own \in Seq(Timed) /\ Other \in Seq(Timed)
    BY <1>1, SeatScheduleIs
  <2> HIDE DEF Own, Other
  <2> QED BY <2>1
<1> DEFINE A == [a EXCEPT !.phase = "gone", !.status = "PeerLost"]
           R == box
           P == its
<1>3. a.phase = "collecting" /\ box = <<>> /\ script' = script
  BY DEF CollectSilence, Owed
<1>4. A \in BatchSeats(script) /\ A.phase = "gone" /\ A.sent = a.sent
  BY <1>1 DEF BatchSeats, Hearing
<1>5. R \in Seq(Sayings(script, r)) /\ P \in Seq(Sayings(script, p))
  BY <1>1
<1>6. /\ seat' = [seat EXCEPT ![r] = A] /\ script' = script
       /\ DOMAIN inbox' = Role /\ inbox'[r] = R /\ inbox'[p] = P
  <2>1. inbox' = inbox /\ seat' = [seat EXCEPT ![r] = A]
    BY DEF CollectSilence, Becomes, Ends
  <2>2. p # r
    BY BothPeers
  <2> HIDE DEF A
  <2> QED BY <1>1, <1>3, <2>1, <2>2
<1>7. Stands(script, r, A, b, R, P)
  <2> HIDE DEF A
  <2> QED BY <1>1, <1>3, <1>4 DEF Stands, Hearing
<1>8. Stands(script, p, b, A, P, R)
  <2>1. b.phase # "out"
    BY <1>1, <1>3 DEF Stands
  <2> HIDE DEF A, R, P
  <2>2. b.phase \in Hearing => Coming(P) = Coming(its) /\ A.sent = a.sent
    BY <1>4 DEF P
  <2>3. b.phase = "out" => P = its /\ R = <<>> /\ A.sent = 0 /\ A.phase \in {"out", "waiting", "gone"}
    BY <1>1, <1>4, <2>1 DEF P, R, Stands
  <2> QED BY <1>1, <2>2, <2>3, PeerStands
<1> HIDE DEF A, R, P
<1> QED BY <1>4, <1>5, <1>6, <1>7, <1>8, BatchMoves

(* A seat that waits for a digest passes over what is none. *)
LEMMA PassOverOK ==
  ASSUME BatchInv, NEW r \in Role, PassOver(r)
  PROVE  BatchInv'
<1> DEFINE p == Peer(r)
           a == seat[r]
           b == seat[p]
           box == inbox[r]
           its == inbox[p]
           Own == SeatSchedule(script, r)
           Other == SeatSchedule(script, p)
<1>1. /\ p \in Role /\ Peer(p) = r /\ script \in Scripts /\ DOMAIN inbox = Role
      /\ a \in BatchSeats(script) /\ b \in BatchSeats(script)
      /\ box \in Seq(Sayings(script, r)) /\ its \in Seq(Sayings(script, p))
      /\ Stands(script, r, a, b, box, its) /\ Stands(script, p, b, a, its, box)
  BY BatchParts
<1>2. Own \in Seq(Timed) /\ Other \in Seq(Timed) /\ Len(Own) \in Nat /\ Len(Other) \in Nat
  <2>1. Own \in Seq(Timed) /\ Other \in Seq(Timed)
    BY <1>1, SeatScheduleIs
  <2> HIDE DEF Own, Other
  <2> QED BY <2>1
<1> DEFINE A == a
           R == Tail(box)
           P == its
<1>3. a.phase = "digest" /\ script' = script
  BY DEF PassOver
<1>4. Tail(box) \in Seq(Sayings(script, r))
  <2>1. box # <<>>
    BY DEF PassOver
  <2> QED BY <1>1, <2>1, ComingHead
<1>5. DOMAIN Pop(r) = Role /\ Pop(r)[r] = Tail(box) /\ Pop(r)[p] = its
  <2>1. p # r
    BY BothPeers
  <2> QED BY <1>1, <2>1 DEF Pop
<1>6. A \in BatchSeats(script) /\ A.phase = a.phase /\ A.sent = a.sent
  BY <1>1
<1>7. R \in Seq(Sayings(script, r)) /\ P \in Seq(Sayings(script, p))
  BY <1>1, <1>4
<1>8. /\ seat' = [seat EXCEPT ![r] = A] /\ script' = script
       /\ DOMAIN inbox' = Role /\ inbox'[r] = R /\ inbox'[p] = P
  <2>1. inbox' = Pop(r) /\ seat' = [seat EXCEPT ![r] = A]
    BY DEF PassOver, BatchInv
  <2>2. p # r
    BY BothPeers
  <2> HIDE DEF A
  <2> QED BY <1>1, <1>5, <1>3, <2>1, <2>2
<1>9. Stands(script, r, A, b, R, P)
  <2> QED BY <1>1, <1>3 DEF Stands, Hearing
<1>10. Stands(script, p, b, A, P, R)
  <2>1. b.phase # "out"
    BY <1>1, <1>3 DEF Stands
  <2> HIDE DEF A, R, P
  <2>2. b.phase \in Hearing => Coming(P) = Coming(its) /\ A.sent = a.sent
    BY <1>6 DEF P
  <2>3. b.phase = "out" => P = its /\ R = <<>> /\ A.sent = 0 /\ A.phase \in {"out", "waiting", "gone"}
    BY <1>1, <1>6, <2>1 DEF P, R, Stands
  <2> QED BY <1>1, <2>2, <2>3, PeerStands
<1> HIDE DEF A, R, P
<1> QED BY <1>6, <1>7, <1>8, <1>9, <1>10, BatchMoves

(* A seat that has all runs the whole. *)
LEMMA RunAndDigestOK ==
  ASSUME BatchInv, NEW r \in Role, RunAndDigest(r)
  PROVE  BatchInv'
<1> DEFINE p == Peer(r)
           a == seat[r]
           b == seat[p]
           box == inbox[r]
           its == inbox[p]
           Own == SeatSchedule(script, r)
           Other == SeatSchedule(script, p)
<1>1. /\ p \in Role /\ Peer(p) = r /\ script \in Scripts /\ DOMAIN inbox = Role
      /\ a \in BatchSeats(script) /\ b \in BatchSeats(script)
      /\ box \in Seq(Sayings(script, r)) /\ its \in Seq(Sayings(script, p))
      /\ Stands(script, r, a, b, box, its) /\ Stands(script, p, b, a, its, box)
  BY BatchParts
<1>2. Own \in Seq(Timed) /\ Other \in Seq(Timed) /\ Len(Own) \in Nat /\ Len(Other) \in Nat
  <2>1. Own \in Seq(Timed) /\ Other \in Seq(Timed)
    BY <1>1, SeatScheduleIs
  <2> HIDE DEF Own, Other
  <2> QED BY <2>1
<1> DEFINE art == IF r = "infiltrator" THEN Artifact(script, Own, a.got) ELSE Artifact(script, a.got, Own)
           word == [kind |-> "digest", log |-> art.log]
           A == [a EXCEPT !.phase = "digest", !.run = art]
           R == box
           P == Said(b, its, word)
<1>3. a.phase = "collecting" /\ script' = script /\ ~(Len(a.got) < a.owed)
  BY DEF RunAndDigest, Owed
<1>4. a.got = Other
  <2> DEFINE got == a.got
             rest == Coming(box)
             n == b.sent
  <2>1. /\ got \in Seq(Timed) /\ n \in Nat /\ n <= Len(Other) /\ a.owed = Len(Other)
        /\ got \o rest = SubSeq(Other, 1, n)
    <3>1. got \in Seq(Timed) /\ n \in Nat
      BY <1>1 DEF BatchSeats
    <3>2. n <= Len(Other)
      BY <1>1 DEF Stands
    <3>3. a.owed = Len(Other) /\ got \o rest = SubSeq(Other, 1, n)
      BY <1>1, <1>3 DEF Stands, Hearing
    <3> QED BY <3>1, <3>2, <3>3
  <2>2. rest \in Seq(Timed)
    BY <1>1, ComingMore
  <2>3. Len(got) >= Len(Other)
    <3>1. Len(got) \in Nat
      BY <2>1
    <3> HIDE DEF Other, got
    <3> QED BY <1>2, <1>3, <2>1, <3>1 DEF got
  <2> HIDE DEF got, rest, n, Other
  <2>4. got = Other
    BY <1>2, <2>1, <2>2, <2>3, WholeCame
  <2> QED BY <2>4 DEF got
<1>5. art = WholeRun(script)
  <2>1. r = "infiltrator" => Peer(r) = "hacker"
    BY DEF Peer
  <2>2. r # "infiltrator" => r = "hacker" /\ Peer(r) = "infiltrator"
    BY DEF Peer, Role
  <2>3. Artifact(script, SeatSchedule(script, "infiltrator"), SeatSchedule(script, "hacker")) = WholeRun(script)
    BY DEF Artifact, WholeRun, MergedOf
  <2> QED BY <1>4, <2>1, <2>2, <2>3
<1>6. /\ seat' = [seat EXCEPT ![r] = A] /\ inbox' = Relayed(inbox, r, word)
  BY DEF RunAndDigest, Becomes
<1> HIDE DEF art
<1>7. word \in Sayings(script, p) /\ word.kind # "command"
  <2>1. [kind |-> "digest", log |-> WholeRun(script).log] \in Sayings(script, p)
    BY <1>1, Sayable
  <2> QED BY <1>5, <2>1
<1>8. P \in Seq(Sayings(script, p)) /\ Coming(P) = Coming(its) /\ (b.phase = "out" => P = its)
  <2> DEFINE m == word
  <2>1. its \in Seq(Sayings(script, p)) /\ m \in Sayings(script, p) /\ m.kind # "command"
    BY <1>1, <1>7
  <2> HIDE DEF its, b, p, m
  <2> DEFINE S == Said(b, its, m)
  <2>2. /\ S \in Seq(Sayings(script, p))
        /\ b.phase \in {"out", "gone"} => S = its
        /\ b.phase \notin {"out", "gone"} => S = Append(its, m)
    BY <2>1 DEF Said
  <2>3. Coming(Append(its, m)) = Coming(its)
    BY <2>1, ComingMore
  <2> HIDE DEF S
  <2>4. S \in Seq(Sayings(script, p)) /\ Coming(S) = Coming(its) /\ (b.phase = "out" => S = its)
    BY <2>2, <2>3
  <2> QED BY <2>4 DEF m, S
<1>9. A \in BatchSeats(script) /\ A.phase = "digest" /\ A.sent = a.sent /\ A.run = WholeRun(script)
  BY <1>1, <1>5 DEF BatchSeats
<1>10. R \in Seq(Sayings(script, r)) /\ P \in Seq(Sayings(script, p))
  BY <1>1, <1>8
<1>11. /\ seat' = [seat EXCEPT ![r] = A] /\ script' = script
       /\ DOMAIN inbox' = Role /\ inbox'[r] = R /\ inbox'[p] = P
  <2> HIDE DEF A, word
  <2> QED BY <1>1, <1>3, <1>6, RelayedIs
<1>12. Stands(script, r, A, b, R, P)
  <2> HIDE DEF A
  <2> QED BY <1>1, <1>3, <1>9 DEF Stands, Hearing
<1>13. Stands(script, p, b, A, P, R)
  <2>1. b.phase # "out"
    BY <1>1, <1>3 DEF Stands
  <2> HIDE DEF A, R, P
  <2>2. b.phase \in Hearing => Coming(P) = Coming(its) /\ A.sent = a.sent
    BY <1>8, <1>9
  <2> QED BY <1>1, <2>1, <2>2, PeerStands
<1> HIDE DEF A, R, P
<1> QED BY <1>9, <1>10, <1>11, <1>12, <1>13, BatchMoves

(* A seat completes. *)
LEMMA CompleteRunOK ==
  ASSUME BatchInv, NEW r \in Role, CompleteRun(r)
  PROVE  BatchInv'
<1> DEFINE p == Peer(r)
           a == seat[r]
           b == seat[p]
           box == inbox[r]
           its == inbox[p]
           Own == SeatSchedule(script, r)
           Other == SeatSchedule(script, p)
<1>1. /\ p \in Role /\ Peer(p) = r /\ script \in Scripts /\ DOMAIN inbox = Role
      /\ a \in BatchSeats(script) /\ b \in BatchSeats(script)
      /\ box \in Seq(Sayings(script, r)) /\ its \in Seq(Sayings(script, p))
      /\ Stands(script, r, a, b, box, its) /\ Stands(script, p, b, a, its, box)
  BY BatchParts
<1>2. Own \in Seq(Timed) /\ Other \in Seq(Timed) /\ Len(Own) \in Nat /\ Len(Other) \in Nat
  <2>1. Own \in Seq(Timed) /\ Other \in Seq(Timed)
    BY <1>1, SeatScheduleIs
  <2> HIDE DEF Own, Other
  <2> QED BY <2>1
<1> DEFINE word == Notice("peer_left")
           R == <<>>
           P == Said(b, its, word)
<1>3. a.phase = "digest" /\ script' = script
  BY DEF CompleteRun
<1>4. \E v \in {"Match", "Alone"} : seat' = [seat EXCEPT ![r] = [a EXCEPT !.phase = "gone", !.status = v]]
  <2>1. CASE Heads(r, "digest") /\ Ends(r, a, IF Head(box).log = a.run.log THEN "Match" ELSE "Mismatch")
    <3>1. box # <<>> /\ Head(box).kind = "digest"
      BY <2>1 DEF Heads
    <3>2. Head(box) \in Sayings(script, r)
      BY <1>1, <3>1, ComingHead
    <3>3. Head(box).log = WholeRun(script).log /\ a.run = WholeRun(script)
      BY <1>1, <1>3, <3>1, <3>2, SayingIs DEF Stands
    <3>4. Ends(r, a, "Match")
      BY <2>1, <3>3
    <3> QED BY <3>4 DEF Ends, Becomes
  <2>2. CASE box = <<>> /\ Ends(r, a, "Alone")
    BY <2>2 DEF Ends, Becomes
  <2> QED BY <2>1, <2>2 DEF CompleteRun
<1>5. PICK v \in {"Match", "Alone"} : seat' = [seat EXCEPT ![r] = [a EXCEPT !.phase = "gone", !.status = v]]
  BY <1>4
<1> DEFINE A == [a EXCEPT !.phase = "gone", !.status = v]
<1>6. P \in Seq(Sayings(script, p)) /\ Coming(P) = Coming(its) /\ (b.phase = "out" => P = its)
  <2> DEFINE m == word
  <2>1. its \in Seq(Sayings(script, p)) /\ m \in Sayings(script, p) /\ m.kind # "command"
    BY <1>1, Sayable
  <2> HIDE DEF its, b, p, m
  <2> DEFINE S == Said(b, its, m)
  <2>2. /\ S \in Seq(Sayings(script, p))
        /\ b.phase \in {"out", "gone"} => S = its
        /\ b.phase \notin {"out", "gone"} => S = Append(its, m)
    BY <2>1 DEF Said
  <2>3. Coming(Append(its, m)) = Coming(its)
    BY <2>1, ComingMore
  <2> HIDE DEF S
  <2>4. S \in Seq(Sayings(script, p)) /\ Coming(S) = Coming(its) /\ (b.phase = "out" => S = its)
    BY <2>2, <2>3
  <2> QED BY <2>4 DEF m, S
<1>7. A \in BatchSeats(script) /\ A.phase = "gone" /\ A.sent = a.sent
  BY <1>1 DEF BatchSeats
<1>8. R \in Seq(Sayings(script, r)) /\ P \in Seq(Sayings(script, p))
  BY <1>1, <1>6
<1>9. /\ seat' = [seat EXCEPT ![r] = A] /\ script' = script
       /\ DOMAIN inbox' = Role /\ inbox'[r] = R /\ inbox'[p] = P
  <2> DEFINE first == Relayed(inbox, r, word)
  <2>1. DOMAIN first = Role /\ first[r] = box /\ first[p] = P
    BY <1>1, RelayedIs
  <2>2. inbox' = [first EXCEPT ![r] = <<>>]
    BY DEF CompleteRun
  <2>3. p # r
    BY BothPeers
  <2> HIDE DEF A, first, P
  <2> QED BY <1>1, <1>3, <1>5, <2>1, <2>2, <2>3 DEF A
<1>10. Stands(script, r, A, b, R, P)
  <2> HIDE DEF A
  <2> QED BY <1>1, <1>3, <1>7 DEF Stands, Hearing
<1>11. Stands(script, p, b, A, P, R)
  <2>1. b.phase # "out"
    BY <1>1, <1>3 DEF Stands
  <2> HIDE DEF A, R, P
  <2>2. b.phase \in Hearing => Coming(P) = Coming(its) /\ A.sent = a.sent
    BY <1>6, <1>7
  <2> QED BY <1>1, <2>1, <2>2, PeerStands
<1> HIDE DEF A, R, P
<1> QED BY <1>7, <1>8, <1>9, <1>10, <1>11, BatchMoves

(* A seat streams a command, and may die of it. *)
LEMMA StreamCommandOK ==
  ASSUME BatchInv, NEW r \in Role, StreamCommand(r)
  PROVE  BatchInv'
<1> DEFINE p == Peer(r)
           a == seat[r]
           b == seat[p]
           box == inbox[r]
           its == inbox[p]
           Own == SeatSchedule(script, r)
           Other == SeatSchedule(script, p)
<1>1. /\ p \in Role /\ Peer(p) = r /\ script \in Scripts /\ DOMAIN inbox = Role
      /\ a \in BatchSeats(script) /\ b \in BatchSeats(script)
      /\ box \in Seq(Sayings(script, r)) /\ its \in Seq(Sayings(script, p))
      /\ Stands(script, r, a, b, box, its) /\ Stands(script, p, b, a, its, box)
  BY BatchParts
<1>2. Own \in Seq(Timed) /\ Other \in Seq(Timed) /\ Len(Own) \in Nat /\ Len(Other) \in Nat
  <2>1. Own \in Seq(Timed) /\ Other \in Seq(Timed)
    BY <1>1, SeatScheduleIs
  <2> HIDE DEF Own, Other
  <2> QED BY <2>1
<1> DEFINE n == a.sent + 1
           word == [kind |-> "command", cmd |-> Own[n]]
           said == Said(b, its, word)
           parting == Said(b, said, Notice("peer_left"))
           out == Relayed(inbox, r, word)
<1>3. /\ a.phase = "streaming" /\ script' = script /\ n <= Len(Own)
      /\ \/ seat' = [seat EXCEPT ![r] = [a EXCEPT !.sent = n]] /\ inbox' = out
         \/ /\ seat' = [seat EXCEPT ![r] = [a EXCEPT !.sent = n, !.phase = "gone", !.status = "Died"]]
            /\ inbox' \in {[out EXCEPT ![r] = <<>>], [Relayed(out, r, Notice("peer_left")) EXCEPT ![r] = <<>>]}
  BY DEF StreamCommand, Becomes, Ends
<1>4. a.sent \in Nat /\ n \in Nat /\ n \in 1..Len(Own) /\ Own[n] \in Timed
  <2>1. a.sent \in Nat
    BY <1>1 DEF BatchSeats
  <2>2. n \in 1..Len(Own)
    <3> HIDE DEF Own
    <3> QED BY <1>2, <1>3, <2>1
  <2> HIDE DEF Own, n
  <2>3. Own[n] \in Timed
    BY <1>2, <2>2, ElementOfSeq
  <2> QED BY <2>1, <2>2, <2>3 DEF n
<1>5. b.phase # "out"
  BY <1>1, <1>3 DEF Stands
<1>6. /\ said \in Seq(Sayings(script, p))
      /\ b.phase \in Hearing => Coming(said) = Append(Coming(its), Own[n])
  <2> DEFINE c == Own[n]
             m == [kind |-> "command", cmd |-> c]
             S == Said(b, its, m)
  <2>1. c \in Timed
    BY <1>4
  <2> HIDE DEF c
  <2>2. m \in Sayings(script, p) /\ m.kind = "command" /\ m.cmd = c /\ its \in Seq(Sayings(script, p))
    BY <1>1, <2>1, Sayable
  <2> HIDE DEF m, b, its, p
  <2>3. /\ S \in Seq(Sayings(script, p))
        /\ b.phase \notin {"out", "gone"} => S = Append(its, m)
    BY <2>2 DEF Said
  <2>4. Coming(Append(its, m)) = Append(Coming(its), c)
    BY <2>2, ComingMore
  <2> HIDE DEF S
  <2>5. b.phase \in Hearing => Coming(S) = Append(Coming(its), c)
    BY <2>3, <2>4 DEF Hearing
  <2> QED BY <2>3, <2>5 DEF S, m, c
<1>7. parting \in Seq(Sayings(script, p)) /\ Coming(parting) = Coming(said)
  <2> DEFINE m == Notice("peer_left")
             S == Said(b, said, m)
  <2>1. m \in Sayings(script, p) /\ m.kind # "command"
    BY <1>1, Sayable
  <2> HIDE DEF m, b, said, p
  <2>2. /\ S \in Seq(Sayings(script, p))
        /\ b.phase \notin {"out", "gone"} => S = Append(said, m)
        /\ b.phase \in {"out", "gone"} => S = said
    BY <1>6, <2>1 DEF Said
  <2>3. Coming(Append(said, m)) = Coming(said)
    BY <1>6, <2>1, ComingMore
  <2> HIDE DEF S
  <2>4. Coming(S) = Coming(said)
    BY <2>2, <2>3
  <2> QED BY <2>2, <2>4 DEF S, m
<1>8. DOMAIN out = Role /\ out[r] = box /\ out[p] = said
  BY <1>1, RelayedIs
<1> HIDE DEF said
<1>9. \E A \in BatchSeats(script), R \in {box, <<>>}, P \in {said, parting} :
        /\ seat' = [seat EXCEPT ![r] = A] /\ DOMAIN inbox' = Role /\ inbox'[r] = R /\ inbox'[p] = P
        /\ A.sent = n /\ A.got = a.got /\ A.owed = a.owed
        /\ (A.phase = "gone" \/ (A.phase = "streaming" /\ R = box))
  <2> DEFINE on == [a EXCEPT !.sent = n]
             dead == [a EXCEPT !.sent = n, !.phase = "gone", !.status = "Died"]
  <2> HIDE DEF out, n
  <2>1. /\ on \in BatchSeats(script) /\ on.sent = n /\ on.got = a.got /\ on.owed = a.owed /\ on.phase = "streaming"
        /\ dead \in BatchSeats(script) /\ dead.sent = n /\ dead.got = a.got /\ dead.owed = a.owed /\ dead.phase = "gone"
    BY <1>1, <1>3, <1>4 DEF BatchSeats, Hearing
  <2> HIDE DEF on, dead
  <2>2. p # r
    BY BothPeers
  <2>3. CASE seat' = [seat EXCEPT ![r] = on] /\ inbox' = out
    BY <1>8, <2>1, <2>3
  <2>4. CASE seat' = [seat EXCEPT ![r] = dead] /\ inbox' = [out EXCEPT ![r] = <<>>]
    <3>1. DOMAIN inbox' = Role /\ inbox'[r] = <<>> /\ inbox'[p] = said
      BY <1>1, <1>8, <2>2, <2>4
    <3> QED BY <2>1, <2>4, <3>1
  <2>5. CASE seat' = [seat EXCEPT ![r] = dead] /\ inbox' = [Relayed(out, r, Notice("peer_left")) EXCEPT ![r] = <<>>]
    <3> DEFINE told == Relayed(out, r, Notice("peer_left"))
    <3>1. DOMAIN told = Role /\ told[p] = parting
      BY <1>8, RelayedIs
    <3> HIDE DEF told
    <3>2. DOMAIN inbox' = Role /\ inbox'[r] = <<>> /\ inbox'[p] = parting
      BY <1>1, <2>2, <2>5, <3>1 DEF told
    <3> QED BY <2>1, <2>5, <3>2
  <2> QED BY <1>3, <2>3, <2>4, <2>5 DEF on, dead
<1>10. PICK A \in BatchSeats(script), R \in {box, <<>>}, P \in {said, parting} :
        /\ seat' = [seat EXCEPT ![r] = A] /\ DOMAIN inbox' = Role /\ inbox'[r] = R /\ inbox'[p] = P
        /\ A.sent = n /\ A.got = a.got /\ A.owed = a.owed
        /\ (A.phase = "gone" \/ (A.phase = "streaming" /\ R = box))
  BY <1>9
<1>11. R \in Seq(Sayings(script, r)) /\ P \in Seq(Sayings(script, p)) /\ Coming(P) = Coming(said)
  <2>1. R \in Seq(Sayings(script, r))
    <3>1. <<>> \in Seq(Sayings(script, r))
      OBVIOUS
    <3> HIDE DEF box
    <3> QED BY <1>1, <1>10, <3>1
  <2> HIDE DEF parting, p
  <2>2. CASE P = said
    BY <1>6, <2>1, <2>2
  <2>3. CASE P = parting
    BY <1>7, <2>1, <2>3
  <2> QED BY <1>10, <2>2, <2>3
<1>12. Stands(script, r, A, b, R, P)
  BY <1>1, <1>3, <1>10 DEF Stands, Hearing
<1>13. Stands(script, p, b, A, P, R)
  <2>1. ASSUME b.phase \in Hearing PROVE b.got \o Coming(P) = SubSeq(Own, 1, A.sent)
    <3> DEFINE got == b.got
               come == Coming(its)
               c == Own[n]
    <3>1. got \in Seq(Timed) /\ come \in Seq(Timed) /\ c \in Timed
      <4>1. got \in Seq(Timed)
        BY <1>1 DEF BatchSeats
      <4>2. come \in Seq(Timed)
        BY <1>1, ComingMore
      <4> QED BY <1>4, <4>1, <4>2
    <3>2. got \o come = SubSeq(Own, 1, a.sent)
      BY <1>1, <2>1 DEF Stands
    <3>3. Coming(P) = Append(come, c)
      BY <1>6, <1>11, <2>1
    <3>4. SubSeq(Own, 1, n) = Append(SubSeq(Own, 1, a.sent), c)
      <4> DEFINE k == a.sent
      <4>1. k \in Nat /\ n = k + 1 /\ k + 1 \in 1..Len(Own)
        BY <1>4
      <4> HIDE DEF Own, k, n
      <4>2. SubSeq(Own, 1, k + 1) = Append(SubSeq(Own, 1, k), Own[k + 1])
        BY <1>2, <4>1, ListClimb
      <4> QED BY <4>1, <4>2 DEF c, k
    <3> HIDE DEF got, come, c, Own
    <3>5. got \o Append(come, c) = Append(got \o come, c)
      BY <3>1, JoinMore
    <3> QED BY <1>10, <3>2, <3>3, <3>4, <3>5 DEF got
  <2> HIDE DEF n
  <2> QED BY <1>1, <1>5, <2>1 DEF Stands
<1>14. /\ seat' = [seat EXCEPT ![r] = A] /\ script' = script
       /\ DOMAIN inbox' = Role /\ inbox'[r] = R /\ inbox'[p] = P
  BY <1>3, <1>10
<1> HIDE DEF n
<1> QED BY <1>10, <1>11, <1>12, <1>13, <1>14, BatchMoves

(* Every step keeps the invariant. *)
LEMMA BatchNextOK ==
  ASSUME BatchInv, [BatchNext]_batchVars
  PROVE  BatchInv'
<1>1. CASE UNCHANGED batchVars
  <2>1. script' = script /\ seat' = seat /\ inbox' = inbox
    BY <1>1 DEF batchVars
  <2> QED BY <2>1 DEF BatchInv
<1>2. CASE BatchNext
  <2>1. PICK r \in Role :
          \/ JoinSession(r) \/ AnswerJoin(r) \/ TakeHello(r) \/ GiveUpWaiting(r)
          \/ StreamCommand(r) \/ StreamDone(r)
          \/ Collect(r) \/ CollectOther(r) \/ CollectLeft(r) \/ Linger(r) \/ CollectSilence(r)
          \/ RunAndDigest(r) \/ PassOver(r) \/ CompleteRun(r)
    BY <1>2 DEF BatchNext
  <2> QED BY <2>1, JoinSessionOK, AnswerJoinOK, TakeHelloOK, GiveUpWaitingOK, StreamCommandOK, StreamDoneOK, CollectOK,
             CollectOtherOK, CollectLeftOK, LingerOK, CollectSilenceOK, RunAndDigestOK, PassOverOK, CompleteRunOK
<1> QED BY <1>1, <1>2

(* Under the invariant the batch seats are sound. *)
LEMMA BatchInvIsSound ==
  ASSUME BatchInv
  PROVE  BatchIsSound
<1>1. script \in Scripts
  BY DEF BatchInv
<1>2. RunOf(Played) = WholeRun(script) /\ Played = TickInputs(MergedOf(script))
  BY DEF Played, WholeRun, MergedOf
<1>3. HackerLast => RunOf(Played) = RunOf(Expand(script))
  <2>1. HackerLast => InOrder(Schedule(script))
    BY DEF HackerLast, InOrder
  <2> QED BY <1>1, <1>2, <2>1, SplitIsExpand
<1>4. ASSUME NEW r \in Role
      PROVE  /\ seat[r].status # "Mismatch"
             /\ seat[r].run # None => seat[r].run = WholeRun(script)
             /\ seat[Peer(r)].phase \notin {"out", "gone", "lingering", "digest"} =>
                  seat[Peer(r)].got \o Coming(inbox[Peer(r)]) = SubSeq(SeatSchedule(script, r), 1, seat[r].sent)
  <2>1. seat[r].status # "Mismatch" /\ (seat[r].run # None => seat[r].run = WholeRun(script))
    <3>1. seat[r] \in BatchSeats(script) /\ None # "Mismatch"
      BY BatchAssumption, BatchParts
    <3> QED BY <3>1 DEF BatchSeats
  <2>2. ASSUME seat[Peer(r)].phase \notin {"out", "gone", "lingering", "digest"}
        PROVE  seat[Peer(r)].got \o Coming(inbox[Peer(r)]) = SubSeq(SeatSchedule(script, r), 1, seat[r].sent)
    <3>1. seat[Peer(r)].phase \in Hearing
      <4>1. seat[Peer(r)] \in BatchSeats(script)
        BY BatchParts
      <4> QED BY <2>2, <4>1 DEF BatchSeats
    <3>2. Stands(script, Peer(r), seat[Peer(r)], seat[r], inbox[Peer(r)], inbox[r]) /\ Peer(Peer(r)) = r
      BY BatchParts
    <3> QED BY <3>1, <3>2 DEF Stands
  <2> QED BY <2>1, <2>2
<1>5. CompletedRunsAgree
  <2> HIDE DEF Played, WholeRun
  <2> QED BY <1>2, <1>3, <1>4, Zenon DEF CompletedRunsAgree
<1>6. NothingStreamedIsMissed
  BY <1>4 DEF NothingStreamedIsMissed
<1> QED BY <1>5, <1>6 DEF BatchIsSound

(* Two scripted seats of one script (run_scripted_seat): whoever completes has *)
(* run the whole of it, as one process does if no tick runs an infiltrator's   *)
(* command behind a hacker's, never with a digest that does not match, and     *)
(* nothing streamed to a seat in hearing is lost, doubled or out of order; for *)
(* any scripts, any order of joins and any deaths.                           *)
THEOREM BatchSound == BatchSpec => []BatchIsSound
<1>1. BatchInit => BatchInv
  BY BatchInitOK
<1>2. BatchInv /\ [BatchNext]_batchVars => BatchInv'
  BY BatchNextOK
<1>3. BatchInv => BatchIsSound
  BY BatchInvIsSound
<1> QED BY <1>1, <1>2, <1>3, PTL DEF BatchSpec
================================================================================
