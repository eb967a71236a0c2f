----------------------------- MODULE MCLiveSession ----------------------------
(* Instances of LiveSession for TLC. *)
EXTENDS LiveSession

CONSTANTS Move, End

DelayUneven == [r \in Role |-> IF r = "infiltrator" THEN 0 ELSE 1]

FeedMove == {<<>>, <<Move>>}
FeedEnd == {<<>>, <<End>>}

EndOnEnd == {End}
===============================================================================
