-------------------------------- MODULE BatchSeat --------------------------------
(***************************************************************************)
(* One script played by two scripted seats: the split by seat and the merge  *)
(* (crates/idaptik-net/src/seat.rs), against expand (idaptik-tui/src/       *)
(* script.rs), and run_scripted_seat (crates/idaptik-net/src/session.rs):    *)
(* hello barrier, stream, collection, run and digests.                      *)
(*                                                                         *)
(* The relay hands each seat the others' broadcasts in order and keeps none  *)
(* for a seat that has not joined.  It may forget to tell of a departure.    *)
(***************************************************************************)
EXTENDS Option, Envelope

CONSTANTS
  Scripts,     \* scripts: lines sorted by tick, and maxTicks
  FailAfter    \* how many commands a seat may be told to die after

(* Names in a press list and test hooks never name a held button. *)
Lines ==
  [at : Nat, hold : BOOLEAN \cup {None},
   press : Seq(Commands \ ButtonCommands), test : (Commands \ ButtonCommands) \cup {None}]

ASSUME BatchAssumption ==
  /\ None \notin BOOLEAN /\ None \notin Commands /\ None # "Mismatch"
  /\ \A s \in Scripts :
       /\ s.maxTicks \in Nat /\ s.lines \in Seq(Lines)
       /\ \A i, j \in DOMAIN s.lines : i <= j => s.lines[i].at <= s.lines[j].at

-------------------------------------------------------------------------------
(* The split and the merge. *)

(* press and test *)
PressesOf(line) == line.press \o (IF line.test = None THEN <<>> ELSE <<line.test>>)

(* A line's commands in send order: the hold as differences, the presses, the *)
(* test hook.                                                               *)
LineCommands(line, held) ==
  (IF line.hold \in {None, held} THEN <<>> ELSE <<IF line.hold THEN "Down" ELSE "Up">>)
    \o PressesOf(line)

Stamped(at, cmds) == [i \in DOMAIN cmds |-> [at |-> at, cmd |-> cmds[i]]]

(* What both seats send, line by line, of which each keeps its own. *)
Sent(script) ==
  FoldLeft(LAMBDA acc, l :
             IF l.at >= script.maxTicks THEN acc
             ELSE [out |-> acc.out \o Stamped(l.at, LineCommands(l, acc.held)),
                   held |-> IF l.hold = None THEN acc.held ELSE l.hold],
           [out |-> <<>>, held |-> FALSE], script.lines)
Schedule(script) == Sent(script).out

SeatSchedule(script, r) ==
  FoldLeft(LAMBDA mine, s : IF Sender(s.cmd) = r THEN Append(mine, s) ELSE mine, <<>>, Schedule(script))

At(schedule, t) ==
  FoldLeft(LAMBDA due, s : IF s.at = t THEN Append(due, s.cmd) ELSE due, <<>>, schedule)

(* merged_by_tick, the infiltrator's commands first. *)
MergedByTick(script, infiltrator, hacker) ==
  [t \in 1..script.maxTicks |-> At(infiltrator, t - 1) \o At(hacker, t - 1)]

(* tick_inputs *)
Fed(merged) ==
  FoldLeft(LAMBDA acc, cmds :
             [inputs |-> Append(acc.inputs, FoldCommands(cmds, acc.held)), held |-> HeldAfter(cmds, acc.held)],
           [inputs |-> <<>>, held |-> FALSE], merged)
TickInputs(merged) == Fed(merged).inputs

(* expand: a hold lasts until it is replaced, presses and hooks are their     *)
(* line's.                                                                  *)
HoldAt(script, t) ==
  FoldLeft(LAMBDA held, l : IF l.at <= t /\ l.hold # None THEN l.hold ELSE held, FALSE, script.lines)
FiredAt(script, t) ==
  FoldLeft(LAMBDA cmds, l : IF l.at = t THEN cmds \o PressesOf(l) ELSE cmds, <<>>, script.lines)
Expand(script) ==
  [i \in 1..script.maxTicks |-> FoldCommands(FiredAt(script, i - 1), HoldAt(script, i - 1))]

(* The deterministic run: until the simulation ends. *)
RunOf(inputs) ==
  LET one(acc, input) ==
        IF acc.sim.run.ended THEN acc
        ELSE LET after == Ticked(acc.sim, input)
             IN [sim |-> Drained(after), log |-> acc.log \o after.events]
  IN FoldLeft(one, [sim |-> Drained(FreshSim), log |-> Start], inputs)

Artifact(script, infiltrator, hacker) ==
  RunOf(TickInputs(MergedByTick(script, infiltrator, hacker)))

-------------------------------------------------------------------------------
VARIABLES
  script,
  seat,    \* seat[r]: phase, how many sent, the peer's count, got, run and status
  inbox,   \* inbox[r]: the broadcasts its client has not handed over
  doom     \* doom[r]: the test hook fail_after

batchVars == <<script, seat, inbox, doom>>

Joined(r) == seat[r].phase \notin {"out", "gone"}

(* A push: to the peer if it is there. *)
Relayed(boxes, r, m) ==
  IF Joined(Peer(r)) THEN [boxes EXCEPT ![Peer(r)] = Append(@, m)] ELSE boxes

Hello(r) == [kind |-> "hello", count |-> Len(SeatSchedule(script, r))]
Notice(k) == [kind |-> k]

BatchInit ==
  /\ script \in Scripts
  /\ seat = [r \in Role |-> [phase |-> "out", sent |-> 0, owed |-> 0, got |-> <<>>,
                             run |-> None, status |-> None]]
  /\ inbox = [r \in Role |-> <<>>]
  /\ doom \in [Role -> {None} \cup FailAfter]

Becomes(r, s) == seat' = [seat EXCEPT ![r] = s]
Ends(r, s, status) == Becomes(r, [s EXCEPT !.phase = "gone", !.status = status])

(* join, and the hello pushed right after it. *)
JoinSession(r) ==
  /\ seat[r].phase = "out"
  /\ Becomes(r, [seat[r] EXCEPT !.phase = "waiting"])
  /\ inbox' = Relayed(Relayed(inbox, r, Notice("peer_joined")), r, Hello(r))
  /\ UNCHANGED <<script, doom>>

Pop(r) == [inbox EXCEPT ![r] = Tail(@)]
Heads(r, k) == inbox[r] # <<>> /\ Head(inbox[r]).kind = k

(* wait_for_peer_hello: a peer that joined later missed the hello. *)
AnswerJoin(r) ==
  /\ seat[r].phase = "waiting" /\ Heads(r, "peer_joined")
  /\ inbox' = Relayed(Pop(r), r, Hello(r))
  /\ UNCHANGED <<script, seat, doom>>

(* Mutant of TakeHello: whatever came behind the hello goes with it. *)
TakeHelloDrained(r) ==
  /\ seat[r].phase = "waiting" /\ Heads(r, "hello")
  /\ Becomes(r, [seat[r] EXCEPT !.phase = "streaming", !.owed = Head(inbox[r]).count])
  /\ inbox' = [inbox EXCEPT ![r] = <<>>]
  /\ UNCHANGED <<script, doom>>

TakeHello(r) ==
  /\ seat[r].phase = "waiting" /\ Heads(r, "hello")
  /\ Becomes(r, [seat[r] EXCEPT !.phase = "streaming", !.owed = Head(inbox[r]).count])
  /\ inbox' = Pop(r)
  /\ UNCHANGED <<script, doom>>

(* join_timeout *)
GiveUpWaiting(r) ==
  /\ seat[r].phase = "waiting"
  /\ Ends(r, seat[r], "NoPeer")
  /\ inbox' = [inbox EXCEPT ![r] = <<>>]
  /\ UNCHANGED <<script, doom>>

(* The stream, a command at a time; the hook dies after the reply, without a *)
(* word, and the relay may or may not tell.                                 *)
StreamCommand(r) ==
  LET mine == SeatSchedule(script, r)
      n == seat[r].sent + 1 IN
  /\ seat[r].phase = "streaming" /\ n <= Len(mine)
  /\ LET out == Relayed(inbox, r, [kind |-> "command", cmd |-> mine[n]]) IN
     IF doom[r] = n
     THEN /\ Ends(r, [seat[r] EXCEPT !.sent = n], "Died")
          /\ inbox' \in {[out EXCEPT ![r] = <<>>],
                         [Relayed(out, r, Notice("peer_left")) EXCEPT ![r] = <<>>]}
     ELSE /\ Becomes(r, [seat[r] EXCEPT !.sent = n])
          /\ inbox' = out
  /\ UNCHANGED <<script, doom>>

StreamDone(r) ==
  /\ seat[r].phase = "streaming" /\ seat[r].sent = Len(SeatSchedule(script, r))
  /\ Becomes(r, [seat[r] EXCEPT !.phase = "collecting"])
  /\ UNCHANGED <<script, inbox, doom>>

Owed(r) == seat[r].phase = "collecting" /\ Len(seat[r].got) < seat[r].owed

(* collect_peer_commands *)
Collect(r) ==
  /\ Owed(r) /\ Heads(r, "command")
  /\ Becomes(r, [seat[r] EXCEPT !.got = Append(@, Head(inbox[r]).cmd)])
  /\ inbox' = Pop(r)
  /\ UNCHANGED <<script, doom>>

CollectOther(r) ==
  /\ Owed(r) /\ inbox[r] # <<>> /\ Head(inbox[r]).kind \notin {"command", "peer_left"}
  /\ inbox' = Pop(r)
  /\ UNCHANGED <<script, seat, doom>>

(* peer_left, one grace period of lingering, then loss. *)
CollectLeft(r) ==
  /\ Owed(r) /\ Heads(r, "peer_left")
  /\ Becomes(r, [seat[r] EXCEPT !.phase = "lingering"])
  /\ inbox' = Pop(r)
  /\ UNCHANGED <<script, doom>>

Linger(r) ==
  /\ seat[r].phase = "lingering"
  /\ Ends(r, seat[r], IF Heads(r, "peer_joined") THEN "PeerRejoined" ELSE "PeerLost")
  /\ inbox' = [inbox EXCEPT ![r] = <<>>]
  /\ UNCHANGED <<script, doom>>

(* Silence for a grace period with commands owed; the peer may be alive and   *)
(* slow.                                                                    *)
CollectSilence(r) ==
  /\ Owed(r) /\ inbox[r] = <<>>
  /\ Ends(r, seat[r], "PeerLost")
  /\ UNCHANGED <<script, inbox, doom>>

(* All is there: the run, and the digest of its log. *)
RunAndDigest(r) ==
  /\ seat[r].phase = "collecting" /\ ~Owed(r)
  /\ LET mine == SeatSchedule(script, r)
         art == IF r = "infiltrator" THEN Artifact(script, mine, seat[r].got)
                ELSE Artifact(script, seat[r].got, mine) IN
     /\ Becomes(r, [seat[r] EXCEPT !.phase = "digest", !.run = art])
     /\ inbox' = Relayed(inbox, r, [kind |-> "digest", log |-> art.log])
  /\ UNCHANGED <<script, doom>>

(* await_peer_digest: what else arrives is passed over; it may not come.      *)
PassOver(r) ==
  /\ seat[r].phase = "digest" /\ inbox[r] # <<>> /\ Head(inbox[r]).kind # "digest"
  /\ inbox' = Pop(r)
  /\ UNCHANGED <<script, seat, doom>>

CompleteRun(r) ==
  /\ seat[r].phase = "digest"
  /\ \/ /\ Heads(r, "digest")
        /\ Ends(r, seat[r], IF Head(inbox[r]).log = seat[r].run.log THEN "Match" ELSE "Mismatch")
     \/ /\ inbox[r] = <<>>
        /\ Ends(r, seat[r], "Alone")
  /\ inbox' = [Relayed(inbox, r, Notice("peer_left")) EXCEPT ![r] = <<>>]
  /\ UNCHANGED <<script, doom>>

BatchNext ==
  \E r \in Role :
    \/ JoinSession(r) \/ AnswerJoin(r) \/ TakeHello(r) \/ GiveUpWaiting(r)
    \/ StreamCommand(r) \/ StreamDone(r)
    \/ Collect(r) \/ CollectOther(r) \/ CollectLeft(r) \/ Linger(r) \/ CollectSilence(r)
    \/ RunAndDigest(r) \/ PassOver(r) \/ CompleteRun(r)

BatchSpec == BatchInit /\ [][BatchNext]_batchVars

-------------------------------------------------------------------------------
(* Properties. *)

(* No hacker's command stands before an infiltrator's within a tick. *)
HackerLast ==
  \A i, j \in DOMAIN Schedule(script) :
    /\ i < j /\ Schedule(script)[i].at = Schedule(script)[j].at
    => ~(Sender(Schedule(script)[i].cmd) = "hacker" /\ Sender(Schedule(script)[j].cmd) = "infiltrator")

Played == TickInputs(MergedByTick(script, SeatSchedule(script, "infiltrator"),
                                  SeatSchedule(script, "hacker")))

(* Whoever completes has run the whole script, as the single-process runner   *)
(* does, whatever the order of joins, hellos and streams, and never with a    *)
(* digest that does not match: every command its peer streamed was one it    *)
(* had joined in time to hear, in order, and the merge is the same on both    *)
(* sides.  A script that runs an infiltrator's command behind a hacker's in   *)
(* one tick is the exception seat.rs names: both seats agree on another run.  *)
CompletedRunsAgree ==
  /\ \A r \in Role : seat[r].status # "Mismatch"
  /\ \A r \in Role : seat[r].run # None =>
       /\ seat[r].run = RunOf(Played)
       /\ HackerLast => seat[r].run = RunOf(Expand(script))

(* Nobody who has the peer's hello is out of its hearing: what a seat has     *)
(* streamed to a peer still there is in its collection or on its way, once,   *)
(* in order.                                                                *)
Coming(box) ==
  FoldLeft(LAMBDA cmds, m : IF m.kind = "command" THEN Append(cmds, m.cmd) ELSE cmds, <<>>, box)
NothingStreamedIsMissed ==
  \A r \in Role :
    seat[Peer(r)].phase \notin {"out", "gone", "lingering", "digest"} =>
      seat[Peer(r)].got \o Coming(inbox[Peer(r)]) = SubSeq(SeatSchedule(script, r), 1, seat[r].sent)

BatchIsSound == CompletedRunsAgree /\ NothingStreamedIsMissed

(* seat.rs: "A script line mixes seats only through its press list", so a     *)
(* script whose press lists keep hacker tokens behind infiltrator ones plays  *)
(* as expand plays it.                                                      *)
PressesKeepOrder ==
  \A i, j \in DOMAIN script.lines :
    LET tokens == IF i = j THEN script.lines[i].press ELSE script.lines[i].press \o script.lines[j].press IN
    i <= j /\ script.lines[i].at = script.lines[j].at =>
      \A a, b \in DOMAIN tokens :
        a < b => ~(Sender(tokens[a]) = "hacker" /\ Sender(tokens[b]) = "infiltrator")
SplitReproducesExpand == PressesKeepOrder => Played = Expand(script)
==================================================================================
