------------------------------- MODULE Lockstep -------------------------------
(***************************************************************************)
(* Two live seats, no loss: each runs the frame loop of run_live_seat      *)
(* (crates/idaptik-net/src/live.rs) around its LockstepCore, over an       *)
(* ordered relay that carries every push to the other seat.                *)
(*                                                                         *)
(* A frame is pump, push what it returned one message at a time, drain     *)
(* broadcasts until the deadline, advance.  The deadline is real time, so  *)
(* a drain may stop after any number of broadcasts.                        *)
(***************************************************************************)
EXTENDS LockstepCore

VARIABLES
  core,     \* core[r]: the LockstepCore of seat r
  phase,    \* phase[r]: where seat r is in its frame loop
  outbox,   \* outbox[r]: commands pump_outgoing returned, not yet pushed
  wire,     \* wire[r]: what r pushed and its peer has not drained, in order
  issued    \* issued[r]: history, every command the feed of r ever returned

vars == <<core, phase, outbox, wire, issued>>

Phase == {"pump", "push", "drain", "finished", "error"}

Message == [type : {"command"}, m : Scheduled] \cup [type : {"commit"}, through : Nat]

CommandMsg(m) == [type |-> "command", m |-> m]

(* Mutant of CommitMsg: off by one. *)
CommitMsgBehind(t) == [type |-> "commit", through |-> t - 1]

CommitMsg(t) == [type |-> "commit", through |-> t]

Init ==
  /\ core = [r \in Role |-> NewCore]
  /\ phase = [r \in Role |-> IF Finished(NewCore) THEN "finished" ELSE "pump"]
  /\ outbox = [r \in Role |-> {}]
  /\ wire = [r \in Role |-> <<>>]
  /\ issued = [r \in Role |-> {}]

(* Frame step 1: sample up to the delay horizon.  With nothing new to *)
(* sample there is nothing to push either.                            *)
PumpOutgoing(r) ==
  /\ phase[r] = "pump"
  /\ \E answers \in [SampleWindow(r, core[r]) -> Feed] :
       /\ core' = [core EXCEPT ![r] = Pump(r, @, answers)]
       /\ outbox' = [outbox EXCEPT ![r] = Schedule(answers)]
       /\ issued' = [issued EXCEPT ![r] = @ \cup Schedule(answers)]
  /\ phase' = [phase EXCEPT ![r] = IF SampleWindow(r, core[r]) = {} THEN "drain" ELSE "push"]
  /\ UNCHANGED wire

(* Mutant of Before: within a tick the last command is sent first. *)
LastFirst(a, b) == a.at < b.at \/ (a.at = b.at /\ a.n > b.n)

(* The merge order within one seat. *)
Before(a, b) == a.at < b.at \/ (a.at = b.at /\ a.n < b.n)

(* Each push is one awaited relay round trip, in merge order. *)
PushCommand(r) ==
  /\ phase[r] = "push"
  /\ \E m \in outbox[r] :
       /\ \A x \in outbox[r] \ {m} : Before(m, x)
       /\ outbox' = [outbox EXCEPT ![r] = @ \ {m}]
       /\ wire' = [wire EXCEPT ![r] = Append(@, CommandMsg(m))]
  /\ UNCHANGED <<core, phase, issued>>

(* The one cumulative commit goes out behind the last command. *)
PushCommit(r) ==
  /\ phase[r] = "push"
  /\ outbox[r] = {}
  /\ wire' = [wire EXCEPT ![r] = Append(@, CommitMsg(core[r].next_sample - 1))]
  /\ phase' = [phase EXCEPT ![r] = "drain"]
  /\ UNCHANGED <<core, outbox, issued>>

(* Frame step 2: one drained broadcast.  An error ends the seat. *)
Refused(r, b) ==
  IF b.type = "command" THEN CommandRefused(core[r], b.m)
  ELSE CommitRefused(b.through)

Drain(r) ==
  LET p == Peer(r) IN
  /\ phase[r] = "drain"
  /\ wire[p] # <<>>
  /\ LET b == Head(wire[p]) IN
       IF Refused(r, b)
       THEN /\ phase' = [phase EXCEPT ![r] = "error"]
            /\ UNCHANGED core
       ELSE /\ core' = [core EXCEPT ![r] = IF b.type = "command" THEN OnPeerCommand(@, b.m)
                                           ELSE OnPeerCommit(@, b.through)]
            /\ UNCHANGED phase
  /\ wire' = [wire EXCEPT ![p] = Tail(@)]
  /\ UNCHANGED <<outbox, issued>>

(* Frame step 3: execute every ready step, then the next frame. *)
AdvanceReady(r) ==
  /\ phase[r] = "drain"
  /\ core' = [core EXCEPT ![r] = Advance(r, @)]
  /\ phase' = [phase EXCEPT ![r] = IF Finished(core'[r]) THEN "finished" ELSE "pump"]
  /\ UNCHANGED <<outbox, wire, issued>>

(* Both seats have left the frame loop. *)
Stopped ==
  /\ \A r \in Role : phase[r] \in {"finished", "error"}
  /\ UNCHANGED vars

Next ==
  \/ \E r \in Role :
       \/ PumpOutgoing(r)
       \/ PushCommand(r)
       \/ PushCommit(r)
       \/ Drain(r)
       \/ AdvanceReady(r)
  \/ Stopped

(* Both processes run, and the relay delivers: a frame deadline always     *)
(* comes, and a broadcast is not passed over by every drain for ever.      *)
Fairness ==
  \A r \in Role :
    /\ WF_vars(PumpOutgoing(r))
    /\ WF_vars(PushCommand(r) \/ PushCommit(r))
    /\ SF_vars(Drain(r))
    /\ WF_vars(AdvanceReady(r))

Spec == Init /\ [][Next]_vars

FairSpec == Spec /\ Fairness

-------------------------------------------------------------------------------
TypeOK ==
  /\ core \in [Role -> Core]
  /\ phase \in [Role -> Phase]
  /\ outbox \in [Role -> SUBSET Scheduled]
  /\ wire \in [Role -> Seq(Message)]
  /\ issued \in [Role -> SUBSET Scheduled]

(* What both feeds ever scheduled for the ticks below stop, merged. *)
Script(stop) == InSlot(1, Due(issued["infiltrator"], 0, stop))
                  \cup InSlot(2, Due(issued["hacker"], 0, stop))

(* Completeness: a tick executes exactly what both feeds scheduled for it, *)
(* however the relay timed the delivery: the watermark never lets a tick   *)
(* run while one of its commands is still in flight.                       *)
RunIsComplete == \A r \in Role : core[r].ran = Script(core[r].step)

(* Determinism: the shorter run is a prefix of the longer one, so equal    *)
(* logs at the end (lockstep.rs test delayed_lockstep_matches_reference).  *)
RunsAgree ==
  \A r, q \in Role :
    core[r].step <= core[q].step =>
      core[r].ran = {e \in core[q].ran : e.at < core[r].step}

(* The errors of on_peer_command and on_peer_commit mark a broken peer or  *)
(* relay; between two correct seats they are unreachable.                  *)
NoProtocolError == \A r \in Role : phase[r] # "error"

(* A seat runs ahead of its peer by at most what the peer has committed:   *)
(* the peer's own delay plus one tick.                                     *)
SkewBounded ==
  \A r \in Role : core[r].step <= core[Peer(r)].step + InputDelay[Peer(r)] + 1

(* Two finished seats stopped at the same step: neither notices the end of *)
(* the simulation at a tick the other runs past.                           *)
FinishTogether ==
  (\A r \in Role : phase[r] = "finished") =>
    core["infiltrator"].step = core["hacker"].step

(* The inductive invariant behind the two.  Watermarks bound each other;   *)
(* what a feed scheduled is found, until it is executed, in the sender's   *)
(* core, and on the receiver's side in its buffer, on the wire or in the   *)
(* outbox; and nothing travels behind a commit that covers it.             *)
WatermarksOrdered ==
  \A r \in Role :
    /\ core[r].step <= core[r].peer_next
    /\ core[r].step <= core[r].next_sample
    /\ core[r].next_sample <= MaxSteps
    /\ core[r].next_sample <= core[r].step + InputDelay[r] + 1
    /\ core[r].peer_next <= core[Peer(r)].next_sample

OutboxInv ==
  \A r \in Role :
    /\ phase[r] # "push" => outbox[r] = {}
    /\ phase[r] = "push" => core[r].next_sample > 0

OwnInv ==
  \A r \in Role :
    /\ \A m \in issued[r] : m.at < core[r].next_sample
    /\ core[r].own = {m \in issued[r] : m.at >= core[r].step}

Travelling(w) == {i \in DOMAIN w : w[i].type = "command"}
Commits(w) == {i \in DOMAIN w : w[i].type = "commit"}

(* Everything r issued that its peer q has not executed is somewhere. *)
NothingLost ==
  \A r \in Role : \A m \in issued[r] :
    m.at >= core[Peer(r)].step =>
      \/ m \in core[Peer(r)].peer
      \/ m \in outbox[r]
      \/ \E i \in Travelling(wire[r]) : wire[r][i].m = m

(* What is somewhere was issued, and what is not yet buffered lies at or   *)
(* above the receiver's watermark.                                         *)
NothingForged ==
  \A r \in Role :
    /\ core[Peer(r)].peer \subseteq {m \in issued[r] : m.at >= core[Peer(r)].step}
    /\ \A m \in outbox[r] : m \in issued[r] /\ m.at >= core[Peer(r)].peer_next
    /\ \A i \in Travelling(wire[r]) :
         wire[r][i].m \in issued[r] /\ wire[r][i].m.at >= core[Peer(r)].peer_next

CommitsInOrder ==
  \A r \in Role : \A i \in Commits(wire[r]) :
    /\ wire[r][i].through < core[r].next_sample
    /\ \A m \in outbox[r] : m.at > wire[r][i].through
    /\ \A j \in Travelling(wire[r]) : i < j => wire[r][j].m.at > wire[r][i].through

(* Feeds number the commands of a tick 1, 2, ... without gap or repetition. *)
Ranked ==
  \A r \in Role : \A m \in issued[r] :
    /\ m.n > 0
    /\ \A k \in 1 .. m.n - 1 : \E x \in issued[r] : x.at = m.at /\ x.n = k
    /\ \A x \in issued[r] : x.at = m.at /\ x.n = m.n => x = m

(* What is buffered, what travels and what waits to be sent are three      *)
(* successive stretches of the send order.                                 *)
InSendOrder ==
  \A r \in Role :
    /\ \A i, j \in Travelling(wire[r]) : i < j => Before(wire[r][i].m, wire[r][j].m)
    /\ \A i \in Travelling(wire[r]), m \in outbox[r] : Before(wire[r][i].m, m)
    /\ \A x \in core[Peer(r)].peer :
         /\ \A i \in Travelling(wire[r]) : Before(x, wire[r][i].m)
         /\ \A m \in outbox[r] : Before(x, m)

IInv ==
  /\ TypeOK
  /\ NoProtocolError
  /\ WatermarksOrdered
  /\ OutboxInv
  /\ OwnInv
  /\ NothingLost
  /\ NothingForged
  /\ CommitsInOrder
  /\ Ranked
  /\ InSendOrder
  /\ RunIsComplete

(* A tick already executed is never changed and never grows: lockstep does *)
(* not roll back.                                                          *)
NoRollback ==
  [][\A r \in Role :
       {e \in core'[r].ran : e.at < core[r].step} = core[r].ran]_core

(* Refinement: the two cores implement one shared run, decided by whichever *)
(* seat is ahead.                                                          *)
Ahead ==
  CHOOSE r \in Role : \A q \in Role : core[q].step <= core[r].step

Run == INSTANCE SharedRun WITH
         Seat <- Role,
         script <- core[Ahead].ran,
         length <- core[Ahead].step,
         pos <- [r \in Role |-> core[r].step],
         view <- [r \in Role |-> core[r].ran]

OneSharedRun == Run!Spec

(* Neither watermark wait is a deadlock: both seats reach the end. *)
BothFinish == <>(\A r \in Role : phase[r] = "finished")

(* The safety of a run without deaths: whole, agreed, never rejected, and     *)
(* nobody far ahead.                                                        *)
LockstepIsSafe == TypeOK /\ RunIsComplete /\ RunsAgree /\ NoProtocolError /\ SkewBounded
===============================================================================
