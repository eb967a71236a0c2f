------------------------------- MODULE MCNetplay -------------------------------
(* An instance of Netplay for TLC: the delay both seats are given by default. *)
EXTENDS Netplay

CONSTANT Move

DelayEven == [r \in Role |-> 3]
FeedMove == {<<>>, <<Move>>}
NoEnd == {}
================================================================================
