---------------------------------- MODULE Netplay ----------------------------------
(***************************************************************************)
(* Two windowed seats of a live run (crates/idaptik-bevy/src/netplay): the    *)
(* keyboard is queued under the feed's tick (input.rs), the fixed step pumps, *)
(* hears and advances a LockstepCore (plugin.rs), and a thread with its own   *)
(* retries carries what the core emits (connection.rs).                      *)
(*                                                                         *)
(* The relay hands on "command" and "event" broadcasts, the tag of a control  *)
(* in its payload, and "peer_joined" and "peer_left" of its own, as live.rs   *)
(* and session.rs read them.                                                *)
(***************************************************************************)
EXTENDS LockstepCore, SequencesExt

CONSTANTS
  MaxRetries,   \* MAX_RETRIES
  MaxFed        \* bound: fixed steps of a seat

VARIABLES
  feed,     \* feed[r]: current_tick and pending, by tick
  core,     \* core[r]: the lockstep core
  status,   \* status[r]: what the corner of the screen says
  out,      \* out[r]: from the game to the connection
  back,     \* back[r]: from the connection to the game
  conn,     \* conn[r]: the connection's phase and its failures
  wire      \* wire[r]: broadcasts its client has not handed over

netplayVars == <<feed, core, status, out, back, conn, wire>>

NetplayInit ==
  /\ feed = [r \in Role |-> [tick |-> 0, pending |-> [t \in {} |-> <<>>]]]
  /\ core = [r \in Role |-> NewCore]
  /\ status = [r \in Role |-> "WaitingForPeer"]
  /\ out = [r \in Role |-> <<>>] /\ back = [r \in Role |-> <<>>]
  /\ conn = [r \in Role |-> [phase |-> "connecting", retries |-> 0]]
  /\ wire = [r \in Role |-> <<>>]

-------------------------------------------------------------------------------
(* The game's thread. *)

Pending(r, t) == IF t \in DOMAIN feed[r].pending THEN feed[r].pending[t] ELSE <<>>

(* capture_lockstep_input and queue_commands, at most once a tick (a bound).  *)
Capture(r, cmds) ==
  LET t == feed[r].tick IN
  /\ cmds # <<>> /\ Pending(r, t) = <<>>
  /\ feed' = [feed EXCEPT ![r].pending = (t :> cmds) @@ @]
  /\ UNCHANGED <<core, status, out, back, conn, wire>>

(* What a pump of the core sends, in order. *)
Outgoing(r, window) ==
  LET ticks == SetToSortSeq(window, <)
      ofTick(t) == [i \in DOMAIN Pending(r, t) |->
                      [kind |-> "command", at |-> t, cmd |-> Pending(r, t)[i]]]
  IN FlattenSeq([i \in DOMAIN ticks |-> ofTick(ticks[i])])
       \o (IF ticks = <<>> THEN <<>> ELSE <<[kind |-> "commit", through |-> Last(ticks)]>>)

(* process_incoming_system, one message; refusals of the core are dropped. *)
Received(c, m) ==
  CASE m.kind = "command" /\ ~CommandRefused(c, m) ->
         OnPeerCommand(c, [at |-> m.at, n |-> 0, cmd |-> m.cmd])
    [] m.kind = "commit" /\ ~CommitRefused(m.through) -> OnPeerCommit(c, m.through)
    [] m.kind = "resync" -> AdoptResync(m.resync)
    [] m.kind = "disconnected" -> OnPeerLost(c)
    [] OTHER -> c

StatusOf(m, before) ==
  CASE m.kind \in {"resync", "connected"} -> "Running"
    [] m.kind = "peer_joined" -> "WaitingForPeer"
    [] m.kind = "peer_left" -> "PeerLost"
    [] m.kind = "disconnected" -> "Disconnected"
    [] OTHER -> before

(* The fixed step: advance_input_feed_tick, pump_outgoing_system,            *)
(* process_incoming_system, advance_lockstep_system.  A status reported by    *)
(* the thread wins over what the messages said.                              *)
FixedUpdate(r) ==
  LET window == SampleWindow(r, core[r])
      pumped == Pump(r, core[r], [t \in window |-> Pending(r, t)])
      heard == SelectSeq(back[r], LAMBDA m : m.kind # "status")
      told == SelectSeq(back[r], LAMBDA m : m.kind = "status") IN
  /\ feed[r].tick < MaxFed
  /\ feed' = [feed EXCEPT ![r] =
       [tick |-> @.tick + 1, pending |-> [t \in DOMAIN @.pending \ window |-> @.pending[t]]]]
  /\ out' = [out EXCEPT ![r] = @ \o Outgoing(r, window)]
  /\ core' = [core EXCEPT ![r] = Advance(r, FoldLeft(Received, pumped, heard))]
  /\ status' = [status EXCEPT ![r] =
       IF told # <<>> THEN Last(told).status
       ELSE FoldLeft(LAMBDA s, m : StatusOf(m, s), @, heard)]
  /\ back' = [back EXCEPT ![r] = <<>>]
  /\ UNCHANGED <<conn, wire>>

-------------------------------------------------------------------------------
(* The connection's thread. *)

Up(r) == conn[r].phase = "up"

ToPeer(boxes, r, m) == IF Up(Peer(r)) THEN [boxes EXCEPT ![Peer(r)] = Append(@, m)] ELSE boxes

Control(tag, m) == [event |-> "event", tag |-> tag, body |-> m]
OfRelay(event) == [event |-> event, tag |-> "none", body |-> [kind |-> "none"]]

Tell(r, s) == back' = [back EXCEPT ![r] = Append(@, [kind |-> "status", status |-> s])]

(* run_single_connection up to its loop: connect, join, hello. *)
Connect(r) ==
  /\ conn[r].phase = "connecting"
  /\ conn' = [conn EXCEPT ![r].phase = "up"]
  /\ wire' = ToPeer(ToPeer(wire, r, OfRelay("peer_joined")), r, Control("net:hello", [kind |-> "hello"]))
  /\ Tell(r, "WaitingForPeer")
  /\ UNCHANGED <<feed, core, status, out>>

(* send_outgoing: a command goes as a command, a commit as a control. *)
Encoded(m) ==
  IF m.kind = "command" THEN [event |-> "command", tag |-> "none", body |-> m]
  ELSE Control("net:commit", m)

(* process_broadcast: a control is looked for in the broadcast's own name. *)
ProcessBroadcast(b) ==
  CASE b.event \in {"net:commit", "net:resync"} -> <<b.body>>
    [] b.event = "net:hello" -> <<[kind |-> "peer_joined"]>>
    [] b.event = "command" -> <<b.body>>
    [] OTHER -> <<>>

(* A turn of the loop: at most one message out, at most one broadcast in.    *)
Turn(r) ==
  /\ Up(r) /\ (out[r] # <<>> \/ wire[r] # <<>>)
  /\ LET sent == IF out[r] = <<>> THEN wire ELSE ToPeer(wire, r, Encoded(Head(out[r]))) IN
     /\ out' = [out EXCEPT ![r] = IF @ = <<>> THEN @ ELSE Tail(@)]
     /\ IF wire[r] = <<>> THEN wire' = sent /\ UNCHANGED back
        ELSE /\ wire' = [sent EXCEPT ![r] = Tail(@)]
             /\ back' = [back EXCEPT ![r] = @ \o ProcessBroadcast(Head(wire[r]))]
  /\ UNCHANGED <<feed, core, status, conn>>

(* An error anywhere in it, then run_connection_loop: what was being sent is  *)
(* gone, failures are counted over the whole run, and the last one is final.  *)
Fail(r) ==
  LET n == conn[r].retries + 1 IN
  /\ conn[r].phase # "over"
  /\ conn' = [conn EXCEPT ![r] =
       [phase |-> IF n >= MaxRetries THEN "over" ELSE "connecting", retries |-> n]]
  /\ Tell(r, "Error")
  /\ \/ UNCHANGED out
     \/ Up(r) /\ out[r] # <<>> /\ out' = [out EXCEPT ![r] = Tail(@)]
  /\ wire' = [(IF Up(r) THEN ToPeer(wire, r, OfRelay("peer_left")) ELSE wire) EXCEPT ![r] = <<>>]
  /\ UNCHANGED <<feed, core, status>>

NetplayNext ==
  \E r \in Role :
    \/ \E cmds \in Feed : Capture(r, cmds)
    \/ FixedUpdate(r)
    \/ Connect(r) \/ Turn(r) \/ Fail(r)

NetplaySpec == NetplayInit /\ [][NetplayNext]_netplayVars

-------------------------------------------------------------------------------
(* Properties. *)

(* input.rs: "multiplayer cannot silently lose movement presses": a press in  *)
(* the feed's queue is for a tick the core has still to ask for.             *)
NoPressIsLost ==
  \A r \in Role : \A t \in DOMAIN feed[r].pending : t >= core[r].next_sample
==================================================================================
