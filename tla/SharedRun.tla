------------------------------- MODULE SharedRun ------------------------------
(***************************************************************************)
(* What a lockstep session promises its players: there is one run.  A      *)
(* script of merged inputs is written once, tick by tick, never revised,   *)
(* and every seat's simulation has executed a prefix of it.  Nothing is    *)
(* written past a tick that ended the simulation or past the step budget.  *)
(***************************************************************************)
EXTENDS Integers

CONSTANTS Seat, MaxSteps, EndCommands

VARIABLES
  script,   \* the merged inputs of the ticks decided so far
  length,   \* how many ticks are decided
  pos,      \* pos[s]: how many ticks seat s has executed
  view      \* view[s]: the inputs seat s has executed

vars == <<script, length, pos, view>>

Init ==
  /\ script = {}
  /\ length = 0
  /\ pos = [s \in Seat |-> 0]
  /\ view = [s \in Seat |-> {}]

(* Seat s plays on to tick k.  Ticks below length are already decided; it *)
(* decides those from length to k as it executes them.                    *)
Play(s, k) ==
  /\ pos[s] < k /\ k <= MaxSteps
  /\ pos' = [pos EXCEPT ![s] = k]
  /\ length' = IF k > length THEN k ELSE length
  /\ script \subseteq script'
  /\ \A e \in script' \ script : length <= e.at /\ e.at < k
  /\ \A e \in script' : e.cmd \in EndCommands => length' <= e.at + 1
  /\ view' = [view EXCEPT ![s] = {e \in script' : e.at < k}]

Next == \E s \in Seat, k \in 1 .. MaxSteps : Play(s, k)

Spec == Init /\ [][Next]_vars
===============================================================================
