---------------------------------- MODULE Handle ----------------------------------
(***************************************************************************)
(* The foreign handle on a run (crates/idaptik-ffi/src/lib.rs): a host        *)
(* starts a run, ticks it with JSON command streams, asks for snapshots and  *)
(* frees it.  A text is null, a stream, or a stream that goes wrong after a  *)
(* prefix.  A freed handle is not used again: that is the host's contract.   *)
(***************************************************************************)
EXTENDS Option, SimTick

CONSTANTS
  Streams,   \* the command streams of a call
  MaxCalls   \* bound: ticks asked of a handle

ASSUME HandleAssumption == Streams \subseteq Seq(Commands)

VARIABLES
  handle,    \* None, or sim and held
  answer,    \* of the last call: null, error, events, snapshot, handle
  accepted   \* history: the streams the handle was ticked with

handleVars == <<handle, answer, accepted>>

HandleInit == handle = None /\ answer = "null" /\ accepted = <<>>

NewRun == [sim |-> FreshSim, held |-> FALSE]

(* idap_ghost_lobby_new, of a difficulty the parser knows or does not. *)
NewHandle(known) ==
  /\ handle = None
  /\ handle' = IF known THEN NewRun ELSE None
  /\ answer' = IF known THEN "handle" ELSE "null"
  /\ accepted' = <<>>

(* Mutant of RefuseText: the commands before the bad one are folded in. *)
RefuseTextLate(prefix) ==
  /\ handle # None
  /\ handle' = [handle EXCEPT !.held = HeldAfter(prefix, @)]
  /\ answer' = "error"
  /\ UNCHANGED accepted

(* idap_ghost_lobby_tick_json, when the text is null or does not parse. *)
RefuseText(prefix) ==
  /\ handle # None
  /\ answer' = "error"
  /\ UNCHANGED <<handle, accepted>>

TickedBy(h, cmds) ==
  [sim |-> Drained(Ticked(h.sim, FoldCommands(cmds, h.held))), held |-> HeldAfter(cmds, h.held)]

(* idap_ghost_lobby_tick_json *)
TickJson(cmds) ==
  /\ handle # None /\ Len(accepted) < MaxCalls
  /\ handle' = TickedBy(handle, cmds)
  /\ answer' = "events"
  /\ accepted' = Append(accepted, cmds)

SnapshotJson ==
  /\ handle # None
  /\ answer' = "snapshot"
  /\ UNCHANGED <<handle, accepted>>

FreeHandle ==
  /\ handle # None
  /\ handle' = None /\ answer' = "null" /\ accepted' = <<>>

HandleNext ==
  \/ \E known \in BOOLEAN : NewHandle(known)
  \/ \E cmds \in Streams : RefuseText(cmds) \/ TickJson(cmds)
  \/ SnapshotJson
  \/ FreeHandle

HandleSpec == HandleInit /\ [][HandleNext]_handleVars

-------------------------------------------------------------------------------
(* Properties. *)

(* The run behind a handle is the one its accepted streams make, replayed    *)
(* from nothing: refused texts and snapshots between them leave no trace, not *)
(* even on the buttons that stay down, and a new handle has none of an old's. *)
HandleIsItsStreams ==
  handle # None => handle = FoldLeft(TickedBy, NewRun, accepted)
==================================================================================
