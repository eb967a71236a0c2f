------------------------------ MODULE LiveSession -----------------------------
(***************************************************************************)
(* run_live_seat of crates/idaptik-net/src/live.rs, whole: bring-up, the   *)
(* frame loop, loss, the hold for a rejoin, the snapshot hand-off to a     *)
(* fresh process, the digest exchange and the exits.                       *)
(*                                                                         *)
(* The relay is external: it keeps no history, delivers what is pushed to  *)
(* the other seat in order if that seat is joined, and reports a departed  *)
(* connection with peer_left, later or never.  Real time appears as        *)
(* timeouts that may expire when the wait is hopeless, or at any moment    *)
(* for the kinds in Hasty.                                                 *)
(***************************************************************************)
EXTENDS LockstepCore

CONSTANTS
  MaxDeaths,    \* bound: processes that die without a word
  MayQuit,      \* seats whose frontend may ask to quit
  Hasty,        \* timeouts that may expire although the peer is answering
  LateNotice    \* TRUE: peer_left may come after the departed seat is back

Timeout == {"join", "grace", "window", "digest"}

ASSUME SessionAssumption ==
  /\ MaxDeaths \in Nat
  /\ MayQuit \subseteq Role
  /\ Hasty \subseteq Timeout
  /\ LateNotice \in BOOLEAN

VARIABLES
  core,      \* core[r]: the LockstepCore of seat r's process
  status,    \* status[r]: where that process is in run_live_seat
  inbox,     \* inbox[r]: broadcasts the relay has for it, in order
  outbox,    \* outbox[r]: commands pump_outgoing returned, not yet pushed
  digest,    \* digest[r]: the peer's digest, once seen: {} or {a log}
  lives,     \* lives[r]: how many processes of seat r have died
  left,      \* left[r]: departures of r the relay has not reported
  played     \* history: every input any process ever executed

vars == <<core, status, inbox, outbox, digest, lives, left, played>>

Frame == {"pump", "push", "drain"}
Holding == {"hold", "silent"}      \* hold_for_rejoin, from peer_left or from silence
Ended == {"completed", "peer_gone", "quit", "no_peer", "no_run", "error"}
Joined == {"joining", "barrier", "resync", "closing", "digest"} \cup Frame \cup Holding
Status == {"offline"} \cup Joined \cup Ended

Message ==
  [type : {"command"}, m : Scheduled] \cup [type : {"commit"}, through : Nat]
    \cup [type : {"hello"}, rejoin : BOOLEAN] \cup [type : {"resync"}, state : Resync]
    \cup [type : {"digest"}, log : SUBSET Executed]
    \cup [type : {"peer_joined", "peer_left"}]

Init ==
  /\ core = [r \in Role |-> NewCore]
  /\ status = [r \in Role |-> "offline"]
  /\ inbox = [r \in Role |-> <<>>]
  /\ outbox = [r \in Role |-> {}]
  /\ digest = [r \in Role |-> {}]
  /\ lives = [r \in Role |-> 0]
  /\ left = [r \in Role |-> 0]
  /\ played = {}

(* A push reaches the other seat if it is joined; the relay has no history. *)
Posted(r, msgs) ==
  IF status[Peer(r)] \in Joined THEN inbox[Peer(r)] \o msgs ELSE inbox[Peer(r)]

Push(r, msgs) == inbox' = [inbox EXCEPT ![Peer(r)] = Posted(r, msgs)]

(* The head of r's inbox is consumed, and msgs are pushed in answer. *)
Answer(r, msgs) ==
  inbox' = [inbox EXCEPT ![r] = Tail(@), ![Peer(r)] = Posted(r, msgs)]

Heard(r, type) == inbox[r] # <<>> /\ Head(inbox[r]).type = type

(* Mutant of Hello: the rejoin flag is not set. *)
HelloFresh(r) == [type |-> "hello", rejoin |-> FALSE]

(* The hello of a process carries its own rejoin flag for its whole life. *)
Hello(r) == [type |-> "hello", rejoin |-> lives[r] > 0]

Become(r, s) == status' = [status EXCEPT ![r] = s]

(* Where the frame loop stands at its while condition. *)
Loop(c) == IF Finished(c) THEN "closing" ELSE "pump"

(* A process that returns: its connection closes and its inbox goes. *)
Exit(r, s) ==
  /\ Become(r, s)
  /\ left' = [left EXCEPT ![r] = @ + 1]

-------------------------------------------------------------------------------
(* Bring-up.  Join and hello are two relay round trips. *)

Join(r) ==
  /\ status[r] = "offline"
  /\ LateNotice \/ left[r] = 0
  /\ Become(r, "joining")
  /\ Push(r, <<[type |-> "peer_joined"]>>)
  /\ UNCHANGED <<core, outbox, digest, lives, left, played>>

SayHello(r) ==
  /\ status[r] = "joining"
  /\ Push(r, <<Hello(r)>>)
  /\ Become(r, IF lives[r] > 0 THEN "resync" ELSE "barrier")
  /\ UNCHANGED <<core, outbox, digest, lives, left, played>>

(* wait_for_peer_hello, and what run_live_seat makes of its answer. *)
AtBarrier(r) ==
  /\ status[r] = "barrier"
  /\ inbox[r] # <<>>
  /\ LET b == Head(inbox[r]) IN
       CASE b.type = "peer_joined" ->
              Answer(r, <<Hello(r)>>) /\ UNCHANGED <<status, left>>
         [] b.type = "hello" /\ b.rejoin ->
              Exit(r, "no_run") /\ inbox' = [inbox EXCEPT ![r] = <<>>]
         [] b.type = "hello" /\ ~b.rejoin ->
              Answer(r, <<>>) /\ Become(r, Loop(core[r])) /\ UNCHANGED left
         [] OTHER ->
              Answer(r, <<>>) /\ UNCHANGED <<status, left>>
  /\ UNCHANGED <<core, outbox, digest, lives, played>>

(* await_resync: everything but the resync is dropped. *)
AwaitResync(r) ==
  /\ status[r] = "resync"
  /\ inbox[r] # <<>>
  /\ IF Heard(r, "resync")
     THEN /\ core' = [core EXCEPT ![r] = AdoptResync(Head(inbox[r]).state)]
          /\ Become(r, Loop(core'[r]))
     ELSE UNCHANGED <<core, status>>
  /\ Answer(r, <<>>)
  /\ UNCHANGED <<outbox, digest, lives, left, played>>

-------------------------------------------------------------------------------
(* The frame loop. *)

PumpOutgoing(r) ==
  /\ status[r] = "pump"
  /\ \E answers \in [SampleWindow(r, core[r]) -> Feed] :
       /\ core' = [core EXCEPT ![r] = Pump(r, @, answers)]
       /\ outbox' = [outbox EXCEPT ![r] = Schedule(answers)]
  /\ Become(r, IF SampleWindow(r, core[r]) = {} THEN "drain" ELSE "push")
  /\ UNCHANGED <<inbox, digest, lives, left, played>>

PushCommand(r) ==
  /\ status[r] = "push"
  /\ \E m \in outbox[r] :
       /\ \A x \in outbox[r] : m.at < x.at \/ (m.at = x.at /\ m.n <= x.n)
       /\ outbox' = [outbox EXCEPT ![r] = @ \ {m}]
       /\ Push(r, <<[type |-> "command", m |-> m]>>)
  /\ UNCHANGED <<core, status, digest, lives, left, played>>

PushCommit(r) ==
  /\ status[r] = "push"
  /\ outbox[r] = {}
  /\ Push(r, <<[type |-> "commit", through |-> core[r].next_sample - 1]>>)
  /\ Become(r, "drain")
  /\ UNCHANGED <<core, outbox, digest, lives, left, played>>

(* A peer broadcast the core refuses ends the process with an error. *)
ProtocolError(r) ==
  /\ Exit(r, "error")
  /\ inbox' = [inbox EXCEPT ![r] = <<>>]
  /\ UNCHANGED core

Accept(r, c) ==
  /\ core' = [core EXCEPT ![r] = c]
  /\ Answer(r, <<>>)
  /\ UNCHANGED <<status, left>>

DrainCommand(r) ==
  /\ status[r] = "drain"
  /\ Heard(r, "command")
  /\ LET m == Head(inbox[r]).m IN
       IF CommandRefused(core[r], m) THEN ProtocolError(r)
       ELSE Accept(r, OnPeerCommand(core[r], m))
  /\ UNCHANGED <<outbox, digest, lives, played>>

DrainCommit(r) ==
  /\ status[r] = "drain"
  /\ Heard(r, "commit")
  /\ LET through == Head(inbox[r]).through IN
       IF CommitRefused(through) THEN ProtocolError(r)
       ELSE Accept(r, OnPeerCommit(core[r], through))
  /\ UNCHANGED <<outbox, digest, lives, played>>

DrainDigest(r) ==
  /\ status[r] = "drain"
  /\ Heard(r, "digest")
  /\ digest' = [digest EXCEPT ![r] = {Head(inbox[r]).log}]
  /\ Answer(r, <<>>)
  /\ UNCHANGED <<core, status, outbox, lives, left, played>>

(* send_resync: prune the uncommitted, then ship the snapshot. *)
SendResync(r) ==
  /\ core' = [core EXCEPT ![r] = OnPeerLost(@)]
  /\ Answer(r, <<[type |-> "resync", state |-> MakeResync(OnPeerLost(core[r]))]>>)

(* The rejoin noticed before the loss: a rejoin hello in mid-play. *)
DrainHello(r) ==
  /\ status[r] = "drain"
  /\ Heard(r, "hello")
  /\ IF Head(inbox[r]).rejoin
     THEN SendResync(r)
     ELSE Answer(r, <<>>) /\ UNCHANGED core
  /\ UNCHANGED <<status, outbox, digest, lives, left, played>>

DrainJoined(r) ==
  /\ status[r] = "drain"
  /\ Heard(r, "peer_joined")
  /\ Answer(r, <<Hello(r)>>)
  /\ UNCHANGED <<core, status, outbox, digest, lives, left, played>>

DrainLeft(r) ==
  /\ status[r] = "drain"
  /\ Heard(r, "peer_left")
  /\ core' = [core EXCEPT ![r] = OnPeerLost(@)]
  /\ Become(r, "hold")
  /\ Answer(r, <<>>)
  /\ UNCHANGED <<outbox, digest, lives, left, played>>

DrainIgnored(r) ==
  /\ status[r] = "drain"
  /\ Heard(r, "resync")
  /\ Answer(r, <<>>)
  /\ UNCHANGED <<core, status, outbox, digest, lives, left, played>>

Drain(r) ==
  \/ DrainCommand(r)
  \/ DrainCommit(r)
  \/ DrainDigest(r)
  \/ DrainHello(r)
  \/ DrainJoined(r)
  \/ DrainLeft(r)
  \/ DrainIgnored(r)

-------------------------------------------------------------------------------
(* Timeouts.  A wait is hopeless when nothing that would end it can come. *)

Quiet(r) == inbox[r] = <<>>

(* The other seat has no process, or one that has stopped talking to r. *)
Silent(p) ==
  \/ status[p] \in {"offline", "joining"} \cup Holding \cup Ended
  \/ status[p] = "resync" /\ Quiet(p)

Hopeless(r, kind) ==
  LET p == Peer(r) IN
  /\ Quiet(r)
  /\ CASE kind \in {"grace", "digest"} -> Silent(p)
       [] kind = "window" ->
            status[p] # "joining" /\ (status[p] = "resync" => Quiet(p))
       [] kind = "join" ->
            \/ status[p] \in {"offline"} \cup Ended
            \/ status[p] = "resync" /\ Quiet(p)
            \/ /\ status[r] = "resync"
               /\ \/ status[p] = "digest"
                  \/ status[p] \in {"barrier"} \cup Holding /\ Quiet(p)

(* Mutant of Expires: silence is never noticed. *)
NoGrace(r, kind) == kind # "grace" /\ (kind \in Hasty \/ Hopeless(r, kind))

Expires(r, kind) == kind \in Hasty \/ Hopeless(r, kind)

(* The end of a frame: every ready step is executed, then the frontend may *)
(* quit, or the silence of a whole grace period is taken for a loss.       *)
AdvanceReady(r, c) ==
  /\ status[r] = "drain"
  /\ c = Advance(r, core[r])
  /\ played' = played \cup c.ran

NextFrame(r) ==
  LET c == Advance(r, core[r]) IN
  /\ AdvanceReady(r, c)
  /\ core' = [core EXCEPT ![r] = c]
  /\ Become(r, Loop(c))
  /\ UNCHANGED <<inbox, outbox, digest, lives, left>>

LostBySilence(r) ==
  LET c == Advance(r, core[r]) IN
  /\ AdvanceReady(r, c)
  /\ BlockedOnPeer(c)
  /\ Expires(r, "grace")
  /\ core' = [core EXCEPT ![r] = OnPeerLost(c)]
  /\ Become(r, "silent")
  /\ UNCHANGED <<inbox, outbox, digest, lives, left>>

Quit(r) ==
  LET c == Advance(r, core[r]) IN
  /\ r \in MayQuit
  /\ AdvanceReady(r, c)
  /\ core' = [core EXCEPT ![r] = c]
  /\ Exit(r, "quit")
  /\ inbox' = [inbox EXCEPT ![r] = <<>>]
  /\ UNCHANGED <<outbox, digest, lives>>

(* hold_for_rejoin: all traffic but a joiner and a rejoin hello is dropped. *)
(* Play resumes where the hold was entered: in the drain, or a new frame.   *)
Hold(r) ==
  /\ status[r] \in Holding
  /\ inbox[r] # <<>>
  /\ LET b == Head(inbox[r]) IN
       CASE b.type = "peer_joined" ->
              Answer(r, <<Hello(r)>>) /\ UNCHANGED <<core, status>>
         [] b.type = "hello" /\ b.rejoin ->
              SendResync(r) /\ Become(r, IF status[r] = "hold" THEN "drain" ELSE "pump")
         [] OTHER ->
              Answer(r, <<>>) /\ UNCHANGED <<core, status>>
  /\ UNCHANGED <<outbox, digest, lives, left, played>>

(* Nobody came: not to the barrier, not with a resync, not back. *)
GiveUp(r) ==
  /\ \/ /\ status[r] \in {"barrier", "resync"}
        /\ Expires(r, "join")
        /\ Exit(r, "no_peer")
     \/ /\ status[r] \in Holding
        /\ Expires(r, "window")
        /\ Exit(r, "peer_gone")
  /\ inbox' = [inbox EXCEPT ![r] = <<>>]
  /\ UNCHANGED <<core, outbox, digest, lives, played>>

-------------------------------------------------------------------------------
(* The digest cross-check, then a polite exit. *)

PushDigest(r) ==
  /\ status[r] = "closing"
  /\ IF digest[r] # {}
     THEN /\ Exit(r, "completed")
          /\ inbox' = [inbox EXCEPT ![r] = <<>>,
                         ![Peer(r)] = Posted(r, <<[type |-> "digest", log |-> core[r].ran]>>)]
     ELSE /\ Become(r, "digest")
          /\ Push(r, <<[type |-> "digest", log |-> core[r].ran]>>)
          /\ UNCHANGED left
  /\ UNCHANGED <<core, outbox, digest, lives, played>>

(* await_peer_digest: everything but the digest is dropped. *)
AwaitDigest(r) ==
  /\ status[r] = "digest"
  /\ inbox[r] # <<>>
  /\ IF Heard(r, "digest")
     THEN /\ digest' = [digest EXCEPT ![r] = {Head(inbox[r]).log}]
          /\ Exit(r, "completed")
          /\ inbox' = [inbox EXCEPT ![r] = <<>>]
     ELSE Answer(r, <<>>) /\ UNCHANGED <<digest, status, left>>
  /\ UNCHANGED <<core, outbox, lives, played>>

NoDigest(r) ==
  /\ status[r] = "digest"
  /\ Expires(r, "digest")
  /\ Exit(r, "completed")
  /\ inbox' = [inbox EXCEPT ![r] = <<>>]
  /\ UNCHANGED <<core, outbox, digest, lives, played>>

-------------------------------------------------------------------------------
(* Outside the program: a process dies between any two steps; the relay    *)
(* reports a departure to the other seat, some time, or loses the report.  *)

Die(r) ==
  /\ status[r] \in Joined
  /\ lives[r] + lives[Peer(r)] < MaxDeaths
  /\ lives' = [lives EXCEPT ![r] = @ + 1]
  /\ core' = [core EXCEPT ![r] = NewCore]
  /\ outbox' = [outbox EXCEPT ![r] = {}]
  /\ digest' = [digest EXCEPT ![r] = {}]
  /\ inbox' = [inbox EXCEPT ![r] = <<>>]
  /\ Exit(r, "offline")
  /\ UNCHANGED played

ReportLeft(r) ==
  /\ left[r] > 0
  /\ left' = [left EXCEPT ![r] = @ - 1]
  /\ Push(r, <<[type |-> "peer_left"]>>) \/ UNCHANGED inbox
  /\ UNCHANGED <<core, status, outbox, digest, lives, played>>

Over ==
  /\ \A r \in Role : status[r] \in Ended
  /\ UNCHANGED vars

Step(r) ==
  \/ Join(r)
  \/ SayHello(r)
  \/ AtBarrier(r)
  \/ AwaitResync(r)
  \/ PumpOutgoing(r)
  \/ PushCommand(r)
  \/ PushCommit(r)
  \/ Drain(r)
  \/ NextFrame(r)
  \/ LostBySilence(r)
  \/ Quit(r)
  \/ Hold(r)
  \/ GiveUp(r)
  \/ PushDigest(r)
  \/ AwaitDigest(r)
  \/ NoDigest(r)

Next ==
  \/ \E r \in Role : Step(r) \/ Die(r) \/ ReportLeft(r)
  \/ Over

Spec == Init /\ [][Next]_vars

-------------------------------------------------------------------------------
TypeOK ==
  /\ core \in [Role -> Core]
  /\ status \in [Role -> Status]
  /\ inbox \in [Role -> Seq(Message)]
  /\ outbox \in [Role -> SUBSET Scheduled]
  /\ digest \in [Role -> SUBSET SUBSET Executed]
  /\ lives \in [Role -> 0 .. MaxDeaths]
  /\ left \in [Role -> Nat]
  /\ played \subseteq Executed

(* Every process that plays, the resumed ones included, has executed for   *)
(* each of its ticks exactly what every other process, living or dead,     *)
(* executed for it: a rejoiner never resamples a tick somebody has played. *)
OneHistory ==
  \A r \in Role : core[r].ran = {e \in played : e.at < core[r].step}

(* The errors of on_peer_command and on_peer_commit stay unreachable.      *)
NoProtocolError == \A r \in Role : status[r] # "error"

(* A hand-off leaves both seats with the same pending inputs: below r's    *)
(* watermark for its peer, what r has buffered is what the peer will       *)
(* execute itself.                                                         *)
Playing(r) == status[r] \in Frame

Ahead(r) == {m \in core[r].peer : m.at < core[r].peer_next}

BuffersAgree ==
  \A r \in Role :
    Playing(r) /\ Playing(Peer(r)) =>
      {m \in Ahead(r) : m.at >= core[Peer(r)].step} =
        {m \in core[Peer(r)].own : m.at >= core[r].step /\ m.at < core[r].peer_next}

(* The protocol's own safety, through any hand-off. *)
SessionIsSafe == TypeOK /\ NoProtocolError /\ BuffersAgree

(* peer_digest_match is never Some(false).                                 *)
DigestsMatch ==
  \A r \in Role : status[r] = "completed" => digest[r] \subseteq {core[r].ran}

(* Two completed seats stopped at the same step with the same log, whoever *)
(* died, rejoined or missed a digest on the way.                           *)
CompletedAlike ==
  (\A r \in Role : status[r] = "completed") =>
    /\ core["infiltrator"].step = core["hacker"].step
    /\ core["infiltrator"].ran = core["hacker"].ran

-------------------------------------------------------------------------------
(* Fairness.  Processes run and the relay delivers; a returning player is   *)
(* not owed.  A deadline may cut any one drain short but a frame follows,   *)
(* so a broadcast is not passed over for ever.                              *)
Fairness ==
  \A r \in Role :
    /\ WF_vars(lives[r] = 0 /\ Join(r))
    /\ WF_vars(SayHello(r))
    /\ WF_vars(AtBarrier(r))
    /\ WF_vars(AwaitResync(r))
    /\ WF_vars(PumpOutgoing(r))
    /\ WF_vars(PushCommand(r) \/ PushCommit(r))
    /\ SF_vars(Drain(r))
    /\ WF_vars(NextFrame(r))
    /\ SF_vars(LostBySilence(r))
    /\ WF_vars(Hold(r))
    /\ WF_vars(GiveUp(r))
    /\ WF_vars(PushDigest(r))
    /\ WF_vars(AwaitDigest(r))
    /\ WF_vars(NoDigest(r))
    /\ WF_vars(ReportLeft(r))

FairSpec == Spec /\ Fairness

(* Never a hang (ADR-0006 3): a process that has joined ends, or dies.      *)
NeverHangs ==
  \A r \in Role : status[r] \in Joined ~> status[r] \in Ended \cup {"offline"}

(* Play resumes as if the death never happened (live.rs 14-18): a rejoiner  *)
(* that finds the run held open completes it, provided the process it       *)
(* replaces had not already told the survivor its digest.                   *)
HoldRecovers ==
  \A r \in Role :
    (status[r] = "resync" /\ status[Peer(r)] \in Holding /\ digest[Peer(r)] = {})
      ~> status[r] = "completed"

(* The same for the rejoin that is noticed before the loss (live.rs 18-20), *)
(* while the survivor still plays.                                          *)
RejoinRecovers ==
  \A r \in Role :
    (status[r] = "resync" /\ status[Peer(r)] \in Frame /\ digest[Peer(r)] = {})
      ~> status[r] = "completed"

===============================================================================
