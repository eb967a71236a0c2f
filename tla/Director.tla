-------------------------------- MODULE Director --------------------------------
(***************************************************************************)
(* The adaptive-difficulty director and the hypothesis ledger of             *)
(* scenario/vsm.rs: repeated tactics become proposals, proposals are checked *)
(* when applied, however late, and evidence moves competing hypotheses.      *)
(***************************************************************************)
EXTENDS Integers, Sequences, FiniteSets

CONSTANTS
  Tactics,
  Maximum,      \* the maximum difficulty
  MaxRepeats,   \* bound: occurrences reported of a tactic
  Hypotheses,   \* how many hypotheses compete
  Amounts,      \* the amounts evidence moves a hypothesis by
  MaxEvidence   \* bound: pieces of evidence

ASSUME DirectorAssumption == Maximum \in Nat /\ MaxRepeats \in Nat

VARIABLES
  difficulty,
  observations,  \* by tactic, the highest occurrence reported
  proposals,     \* the proposals made so far
  confidence,    \* of each hypothesis, in declaration order
  weighed        \* pieces of evidence observed

directorVars == <<difficulty, observations, proposals, confidence, weighed>>

Lower(a, b) == IF a <= b THEN a ELSE b
Higher(a, b) == IF a >= b THEN a ELSE b

DirectorInit ==
  /\ difficulty \in 0..Maximum
  /\ observations = [t \in Tactics |-> 0]
  /\ proposals = {}
  /\ confidence = [i \in 1..Hypotheses |-> 500]
  /\ weighed = 0

(* VsmDirector::observe: a proposal once the tactic repeats with confidence. *)
ObserveTactic(t, occurrence, confident) ==
  /\ observations' = [observations EXCEPT ![t] = Higher(@, occurrence)]
  /\ proposals' = IF observations'[t] >= 2 /\ confident
                  THEN proposals \cup {[from |-> difficulty, to |-> Lower(difficulty + 1, Maximum)]}
                  ELSE proposals
  /\ UNCHANGED <<difficulty, confidence, weighed>>

(* Mutant of Accepted: a proposal made at another difficulty is accepted. *)
AcceptedStale(p) == p.to >= p.from /\ p.to <= Maximum
Accepted(p) == p.from = difficulty /\ p.to >= p.from /\ p.to <= Maximum

(* VsmDirector::apply; a refused proposal is only written to the trace.  The *)
(* same proposal can be made, and applied, more than once.                  *)
ApplyProposal(p) ==
  /\ difficulty' = IF Accepted(p) THEN p.to ELSE difficulty
  /\ UNCHANGED <<observations, proposals, confidence, weighed>>

(* HypothesisLedger::observe: one piece of evidence for some, against others. *)
Weigh(support, contrary) ==
  /\ weighed < MaxEvidence
  /\ weighed' = weighed + 1
  /\ confidence' = [i \in 1..Hypotheses |->
       LET up == IF i \in DOMAIN support THEN Lower(confidence[i] + support[i], 1000) ELSE confidence[i]
       IN IF i \in DOMAIN contrary THEN Higher(up - contrary[i], 0) ELSE up]
  /\ UNCHANGED <<difficulty, observations, proposals>>

Weights == UNION {[S -> Amounts] : S \in SUBSET (1..Hypotheses)}

(* most_likely: max_by_key keeps the last of several greatest. *)
MostLikely ==
  CHOOSE i \in 1..Hypotheses : \A j \in 1..Hypotheses :
    confidence[j] < confidence[i] \/ (confidence[j] = confidence[i] /\ j <= i)

DirectorNext ==
  \/ \E t \in Tactics, n \in 1..MaxRepeats, c \in BOOLEAN : ObserveTactic(t, n, c)
  \/ \E p \in proposals : ApplyProposal(p)
  \/ \E s, c \in Weights : Weigh(s, c)

DirectorSpec == DirectorInit /\ [][DirectorNext]_directorVars

-------------------------------------------------------------------------------
(* Properties. *)

(* "Apply a proposal only inside the declared policy envelope": whatever     *)
(* order proposals are applied in, and however late, the difficulty rises a  *)
(* step at a time, never falls and never passes its maximum, and it rises    *)
(* only for a tactic that was seen to repeat.                                *)
DifficultyIsGradual ==
  [][/\ difficulty' \in {difficulty, difficulty + 1} /\ difficulty' <= Maximum
     /\ difficulty' # difficulty => \E t \in Tactics : observations[t] >= 2]_directorVars

(* HypothesisLedger::most_likely: "Ties resolve to declaration order". *)
TiesKeepDeclarationOrder ==
  \A i \in 1..Hypotheses : confidence[i] = confidence[MostLikely] => MostLikely <= i
=============================================================================
