----------------------------- MODULE LockstepCore -----------------------------
(***************************************************************************)
(* The sans-IO state machine of one live seat: struct LockstepCore of      *)
(* crates/idaptik-net/src/lockstep.rs.  Every operator takes a core and    *)
(* returns a core, as the methods of the Rust type take &mut self; the     *)
(* modules that extend this one decide when a method is called and what    *)
(* happens to what it emits.                                               *)
(*                                                                         *)
(* The deterministic simulation and its event log are both functions of    *)
(* the sequence of merged inputs executed so far, so one field, ran, holds *)
(* that history and stands for both.                                       *)
(***************************************************************************)
EXTENDS Integers, Sequences, FiniteSets

CONSTANTS
  MaxSteps,     \* the run's step budget (script.max_ticks)
  InputDelay,   \* [Role -> Nat], each seat's own input_delay
  Feed,         \* what a feed may return for one tick: sequences of commands
  EndCommands   \* commands whose execution makes the simulation report its end

Role == {"infiltrator", "hacker"}
Peer(r) == IF r = "infiltrator" THEN "hacker" ELSE "infiltrator"

Cmd == UNION {{s[i] : i \in DOMAIN s} : s \in Feed}

ASSUME ConfigAssumption ==
  /\ MaxSteps \in Nat
  /\ InputDelay \in [Role -> Nat]
  /\ Feed \subseteq Seq(Cmd)

(* A command scheduled for execution tick at, the n-th of its tick in send order. *)
Scheduled == [at : Nat, n : Nat, cmd : Cmd]

(* A command a tick executed; slot is its rank in the merge (1, then 2). *)
Executed == [at : Nat, slot : {1, 2}, n : Nat, cmd : Cmd]

Core == [step : Nat, next_sample : Nat, peer_next : Nat,
         own : SUBSET Scheduled, peer : SUBSET Scheduled,
         ran : SUBSET Executed, ended : BOOLEAN]

NewCore == [step |-> 0, next_sample |-> 0, peer_next |-> 0,
            own |-> {}, peer |-> {}, ran |-> {}, ended |-> FALSE]

-------------------------------------------------------------------------------

Finished(c) == c.ended \/ c.step >= MaxSteps

BlockedOnPeer(c) ==
  ~Finished(c) /\ c.step >= c.peer_next /\ c.step < c.next_sample

(* pump_outgoing: the ticks one call samples, and the core it leaves.  The *)
(* feed's answer for every tick of the window is an argument.              *)
Lesser(a, b) == IF a <= b THEN a ELSE b

SampleWindow(r, c) ==
  IF Finished(c) \/ MaxSteps = 0 THEN {}
  ELSE c.next_sample .. Lesser(c.step + InputDelay[r], MaxSteps - 1)

Schedule(answers) ==
  UNION {{[at |-> t, n |-> i, cmd |-> answers[t][i]] : i \in DOMAIN answers[t]}
           : t \in DOMAIN answers}

(* A tick with an answer replaces what the map held for it. *)
Insert(own, answers) ==
  {m \in own : m.at \in DOMAIN answers => answers[m.at] = <<>>} \cup Schedule(answers)

Pump(r, c, answers) ==
  IF SampleWindow(r, c) = {} THEN c
  ELSE [c EXCEPT !.own = Insert(@, answers),
                 !.next_sample = Lesser(c.step + InputDelay[r], MaxSteps - 1) + 1]

(* on_peer_command: refused at or past the two bounds, else buffered behind *)
(* what its tick already holds: a rank is not sent, it is order of arrival. *)
CommandRefused(c, m) == m.at < c.peer_next \/ m.at >= MaxSteps

Arrived(c, m) == [m EXCEPT !.n = 1 + Cardinality({x \in c.peer : x.at = m.at})]

OnPeerCommand(c, m) == [c EXCEPT !.peer = @ \cup {Arrived(c, m)}]

(* Mutants of OnPeerCommit: one tick too many, one too few. *)
OnPeerCommitAhead(c, through) == [c EXCEPT !.peer_next = through + 2]
OnPeerCommitBehind(c, through) ==
  [c EXCEPT !.peer_next = IF @ >= through THEN @ ELSE through]

(* on_peer_commit: the watermark only moves up. *)
CommitRefused(through) == through >= MaxSteps
OnPeerCommit(c, through) ==
  [c EXCEPT !.peer_next = IF @ >= through + 1 THEN @ ELSE through + 1]

(* Mutant of OnPeerLost: no pruning. *)
KeepOrphans(c) == c

(* on_peer_lost: without a commit a command never happened. *)
OnPeerLost(c) == [c EXCEPT !.peer = {m \in @ : m.at < c.peer_next}]

-------------------------------------------------------------------------------
(* advance_with.  The loop executes tick after tick until a watermark stops *)
(* it; it looks at the simulation's end before each tick, so a tick that    *)
(* ends the simulation is the last one executed, and only a further ready   *)
(* tick makes the core notice.                                              *)

SimEnded(c) == \E e \in c.ran : e.cmd \in EndCommands

(* Mutant of Ready: the peer's watermark is not waited for. *)
ReadyAlone(c) == Lesser(c.next_sample, MaxSteps)

Ready(c) == Lesser(Lesser(c.peer_next, c.next_sample), MaxSteps)

EndingTicks(c) ==
  {t \in c.step .. Ready(c) - 1 :
     \E m \in c.own \cup c.peer : m.at = t /\ m.cmd \in EndCommands}

(* Mutant of StopAt: the end is looked for once a call, not once a tick. *)
StopAtReady(c) == IF SimEnded(c) THEN c.step ELSE Ready(c)

StopAt(c) ==
  IF SimEnded(c) THEN c.step
  ELSE IF EndingTicks(c) = {} THEN Ready(c)
  ELSE 1 + CHOOSE t \in EndingTicks(c) : \A u \in EndingTicks(c) : t <= u

(* Mutant of First: each seat executes its own commands first. *)
OwnFirst(r, c) == c.own

(* The merge rule: the infiltrator's commands, then the hacker's. *)
First(r, c) == IF r = "infiltrator" THEN c.own ELSE c.peer
Second(r, c) == IF r = "infiltrator" THEN c.peer ELSE c.own

InSlot(k, cmds) ==
  {[at |-> m.at, slot |-> k, n |-> m.n, cmd |-> m.cmd] : m \in cmds}

Due(cmds, from, stop) == {m \in cmds : from <= m.at /\ m.at < stop}

(* Mutant of Advance: the log of this call replaces the log so far. *)
AdvanceForgets(r, c) ==
  IF Finished(c) \/ Ready(c) <= c.step THEN c
  ELSE [c EXCEPT
          !.ran = InSlot(1, Due(First(r, c), c.step, StopAt(c)))
                    \cup InSlot(2, Due(Second(r, c), c.step, StopAt(c))),
          !.step = StopAt(c),
          !.ended = StopAt(c) < Ready(c)]

Advance(r, c) ==
  IF Finished(c) \/ Ready(c) <= c.step THEN c
  ELSE [c EXCEPT
          !.ran = @ \cup InSlot(1, Due(First(r, c), c.step, StopAt(c)))
                    \cup InSlot(2, Due(Second(r, c), c.step, StopAt(c))),
          !.step = StopAt(c),
          !.own = @ \ Due(@, c.step, StopAt(c)),
          !.peer = @ \ Due(@, c.step, StopAt(c)),
          !.ended = StopAt(c) < Ready(c)]

-------------------------------------------------------------------------------
(* The snapshot hand-off to a rejoining peer, and the seat rebuilt from it. *)

(* Mutant of MakeResync: the watermark off by one. *)
MakeResyncBehind(c) ==
  [step |-> c.step, ran |-> c.ran,
   survivor_next |-> c.next_sample, survivor_pending |-> c.own,
   your_next |-> c.peer_next - 1, your_pending |-> c.peer]

MakeResync(c) ==
  [step |-> c.step, ran |-> c.ran,
   survivor_next |-> c.next_sample, survivor_pending |-> c.own,
   your_next |-> c.peer_next, your_pending |-> c.peer]

(* Mutants of AdoptResync: resampling from the current step, dropping the *)
(* former self's pending commands, starting an empty log.                 *)
ResampleFromStep(s) ==
  [step |-> s.step, next_sample |-> s.step, peer_next |-> s.survivor_next,
   own |-> {}, peer |-> s.survivor_pending, ran |-> s.ran, ended |-> FALSE]
DropPending(s) ==
  [step |-> s.step, next_sample |-> s.your_next, peer_next |-> s.survivor_next,
   own |-> {}, peer |-> s.survivor_pending, ran |-> s.ran, ended |-> FALSE]
DropLog(s) ==
  [step |-> s.step, next_sample |-> s.your_next, peer_next |-> s.survivor_next,
   own |-> s.your_pending, peer |-> s.survivor_pending, ran |-> {}, ended |-> FALSE]

AdoptResync(s) ==
  [step |-> s.step, next_sample |-> s.your_next, peer_next |-> s.survivor_next,
   own |-> s.your_pending, peer |-> s.survivor_pending,
   ran |-> s.ran, ended |-> FALSE]

Resync == [step : Nat, ran : SUBSET Executed,
           survivor_next : Nat, survivor_pending : SUBSET Scheduled,
           your_next : Nat, your_pending : SUBSET Scheduled]

===============================================================================
