------------------------------ MODULE MCLockstep ------------------------------
(* Instances of Lockstep for TLC. *)
EXTENDS Lockstep

CONSTANTS Move, Quit

(* Seats with different delays interoperate: 0 ticks against 2. *)
DelayUneven == [r \in Role |-> IF r = "infiltrator" THEN 0 ELSE 2]

FeedSmall == {<<>>, <<Move>>, <<Move, Quit>>}

EndOnQuit == {Quit}
===============================================================================
