------------------------------- MODULE Supervision -------------------------------
(***************************************************************************)
(* The security team's supervisor in a supervised run (scenario/vsm.rs, the  *)
(* fold at the end of GhostLobbySim::tick, Billy's patrol band): evidence    *)
(* masses over sets of targets combined event by event, the attention and    *)
(* coverage target they give, their announcement, and the sweep they bend.   *)
(***************************************************************************)
EXTENDS Option, Integers, Sequences, FiniteSets, FiniteSetsExt

CONSTANTS
  Positions,   \* where the drive and the note may lie
  MaxObserved  \* bound: events a run observes

MassTotal == 10000
Least(a, b) == IF a <= b THEN a ELSE b
Clamp(x, lo, hi) == IF x < lo THEN lo ELSE IF x > hi THEN hi ELSE x

Targets == <<"usb", "fridge_note">>
Frame == {"usb", "fridge_note", "unknown"}

(* A ledger holds the sets of hypotheses with a mass, and the mass lost to *)
(* contradiction.                                                          *)
Ledger == [focal : UNION {[D -> Nat] : D \in SUBSET (SUBSET Frame)}, conflict : Nat]

ASSUME SupervisionAssumption ==
  /\ Positions \subseteq Int
  /\ None \notin Ledger /\ None \notin Frame

(* ghost_lobby_evidence: what an event says, or None. *)
Event == {"Usb", "Note", "Other", "Hint"}
Points(e) == IF e = "Usb" THEN "usb" ELSE "fridge_note"
Evidence(e) ==
  IF e \in {"Usb", "Note"}
  THEN [focal |-> [S \in {{Points(e)}, Frame} |-> IF S = Frame THEN 7500 ELSE 2500], conflict |-> 0]
  ELSE None

(* combine_conjunctive: the products of the masses go to the intersections, *)
(* rounded down; a product that meets nowhere is conflict.                   *)
Pairs(a, b) == (DOMAIN a.focal) \X (DOMAIN b.focal)
Product(a, b, p) == (a.focal[p[1]] * b.focal[p[2]]) \div MassTotal
SumOver(w, S) == MapThenSumSet(LAMBDA x : w[x], S)
Meeting(a, b, S) ==
  SumOver([p \in Pairs(a, b) |-> Product(a, b, p)], {p \in Pairs(a, b) : p[1] \cap p[2] = S})

(* Mutant of Conflict: a product that meets nowhere counts on both sides. *)
ConflictTwice(a, b) == a.conflict + b.conflict + 2 * Meeting(a, b, {})
Conflict(a, b) == a.conflict + b.conflict + Meeting(a, b, {})

Combine(a, b) ==
  LET met == {p[1] \cap p[2] : p \in {p \in Pairs(a, b) : Product(a, b, p) > 0}} \ {{}}
  IN [focal |-> [S \in met |-> Least(Meeting(a, b, S), MassTotal)],
      conflict |-> Conflict(a, b)]

Belief(l, prop) == SumOver(l.focal, {S \in DOMAIN l.focal : S \subseteq prop})
Plausibility(l, prop) == SumOver(l.focal, {S \in DOMAIN l.focal : S \cap prop # {}})
RecommendedAttention(l, target) ==
  Least((Plausibility(l, {target}) * 100) \div MassTotal, 100)

(* Mutant of MostPlausible: a tie goes to the target declared last. *)
MostPlausibleLast(l) ==
  IF RecommendedAttention(l, Targets[2]) >= RecommendedAttention(l, Targets[1])
  THEN Targets[2] ELSE Targets[1]

(* most_plausible_target: a later target must beat the best before it. *)
MostPlausible(l) ==
  IF RecommendedAttention(l, Targets[2]) > RecommendedAttention(l, Targets[1])
  THEN Targets[2] ELSE Targets[1]

-------------------------------------------------------------------------------
VARIABLES
  evidence,   \* None or the ledger
  attention, coverage,
  announced,  \* the allocation last announced
  told,       \* and what a reader of the event log has been told
  observed,   \* events folded so far
  patrol      \* where Billy is sweeping to

supervisionVars == <<evidence, attention, coverage, announced, told, observed, patrol>>

PatrolLo == 130
PatrolHi == 355
PatrolPivot == 220
ClampLo == 25
ClampHi == 1230
CoverageBand == 90
AttentionMin == 25

SupervisionInit ==
  /\ evidence = None /\ attention = 0 /\ coverage = None
  /\ announced = [attention |-> 0, target |-> None] /\ told = announced
  /\ observed = 0
  /\ patrol = 155

(* GhostLobbySupervisor::ingest over a batch of at most two events. *)
Fold(l, e) == IF Evidence(e) = None THEN l ELSE IF l = None THEN Evidence(e) ELSE Combine(l, Evidence(e))
Folded(batch) == IF Len(batch) = 1 THEN Fold(evidence, batch[1]) ELSE Fold(Fold(evidence, batch[1]), batch[2])
Informs(batch) == \E i \in DOMAIN batch : Evidence(batch[i]) # None

(* take_events: the tick's events are folded, then what changed is announced. *)
Tick(batch) ==
  /\ observed + Len(batch) <= MaxObserved
  /\ observed' = observed + Cardinality({i \in DOMAIN batch : batch[i] # "Hint"})
  /\ evidence' = Folded(batch)
  /\ IF Informs(batch)
     THEN /\ attention' = RecommendedAttention(evidence', MostPlausible(evidence'))
          /\ coverage' = IF attention' > 0 THEN MostPlausible(evidence') ELSE coverage
     ELSE UNCHANGED <<attention, coverage>>
  /\ announced' = [attention |-> attention', target |-> IF coverage' = None THEN announced.target ELSE coverage']
  /\ told' = [attention |-> IF attention' # announced.attention THEN attention' ELSE told.attention,
              target |-> IF coverage' \notin {None, announced.target} THEN coverage' ELSE told.target]
  /\ UNCHANGED patrol

(* Mutant of BandEnd: the covered stretch may reach off the floor. *)
BandEndOffFloor(x) == x
BandEnd(x) == Clamp(x, ClampLo, ClampHi)

(* effective_patrol_band, in hundredths of a unit. *)
Bent(edge, end) == edge * 100 + (end - edge) * attention
Band(usbX, noteX) ==
  LET x == IF coverage = "usb" THEN usbX ELSE noteX
      lo == Bent(PatrolLo, BandEnd(x - CoverageBand))
      hi == Bent(PatrolHi, BandEnd(x + CoverageBand))
  IN IF attention < AttentionMin \/ coverage = None
     THEN [lo |-> PatrolLo, hi |-> PatrolHi, pivot |-> PatrolPivot]
     ELSE [lo |-> Least(lo, hi) \div 100, hi |-> (lo + hi - Least(lo, hi)) \div 100,
           pivot |-> (lo + hi) \div 200]

(* billy_assess at the end of a leg, with the objects where they now lie. *)
Turn(usbX, noteX) ==
  LET band == Band(usbX, noteX) IN
  /\ patrol' = IF patrol < band.pivot THEN band.hi ELSE band.lo
  /\ UNCHANGED <<evidence, attention, coverage, announced, told, observed>>

(* A restart begins a new run and a new log; its own events say nothing of  *)
(* the targets and are not counted against the bound.                       *)
Restart ==
  /\ evidence' = None /\ attention' = 0 /\ coverage' = None
  /\ announced' = [attention |-> 0, target |-> None] /\ told' = announced'
  /\ observed' = 0
  /\ patrol' = 155

Batches == {<<e>> : e \in Event} \cup (Event \X Event)

SupervisionNext ==
  \/ \E batch \in Batches : Tick(batch)
  \/ Restart
  \/ \E usbX, noteX \in Positions : Turn(usbX, noteX)

SupervisionSpec == SupervisionInit /\ [][SupervisionNext]_supervisionVars

-------------------------------------------------------------------------------
(* Properties. *)

(* However many events are combined and rounded, the masses and the conflict *)
(* never exceed the whole, what is believed is plausible, and what is        *)
(* plausible is not in conflict.                                             *)
EvidenceIsBounded ==
  evidence # None =>
    /\ \A S \in DOMAIN evidence.focal : S # {} /\ S \subseteq Frame /\ evidence.focal[S] \in 1..MassTotal
    /\ Plausibility(evidence, Frame) + evidence.conflict <= MassTotal
    /\ \A prop \in SUBSET Frame :
         /\ Belief(evidence, prop) <= Plausibility(evidence, prop)
         /\ Plausibility(evidence, prop) <= MassTotal - evidence.conflict

(* The allocation is the evidence's: the attention is that of the most       *)
(* plausible target, the first declared of two alike, which is the one       *)
(* covered while any attention is left; and the event log says so.           *)
CoverageFollowsEvidence ==
  /\ told = [attention |-> attention, target |-> coverage]
  /\ evidence = None => attention = 0 /\ coverage = None
  /\ evidence # None =>
       LET best == CHOOSE i \in 1..2 :
             \A j \in 1..2 : LET a(k) == RecommendedAttention(evidence, Targets[k])
                             IN a(i) > a(j) \/ (a(i) = a(j) /\ i <= j)
       IN /\ attention = RecommendedAttention(evidence, Targets[best])
          /\ attention > 0 => coverage = Targets[best]

(* The sweep's end is always somewhere Billy, who is clamped to the floor,   *)
(* comes within ten units of: a bent band cannot leave him walking at a wall. *)
SweepCanArrive ==
  LET off == Clamp(patrol, ClampLo, ClampHi) - patrol IN off < 10 /\ -off < 10

(* All three: sound evidence, an allocation that follows it, and a sweep that *)
(* the allocation cannot break.                                              *)
SupervisionIsSound == EvidenceIsBounded /\ CoverageFollowsEvidence /\ SweepCanArrive
=============================================================================
