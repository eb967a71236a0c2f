--------------------------------- MODULE Envelope ---------------------------------
(***************************************************************************)
(* The two roles of a session and whose each command is                      *)
(* (crates/idaptik-net/src/envelope.rs).                                     *)
(***************************************************************************)
EXTENDS SimTick

Role == {"infiltrator", "hacker"}
Peer(r) == IF r = "infiltrator" THEN "hacker" ELSE "infiltrator"

(* scripted_sender: in a script. *)
Sender(c) == IF c = "Uplink" THEN "hacker" ELSE "infiltrator"

(* seat_for: who may send it live. *)
SeatFor(c) ==
  CASE c \in ButtonCommands \cup EdgeCommands -> {"infiltrator"}
    [] c = "Uplink" -> {"hacker"}
    [] OTHER -> Role
===================================================================================
