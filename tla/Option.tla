--------------------------------- MODULE Option ---------------------------------
(* The absent value of an Option, for the modules that are checked together. *)
CONSTANT None
==============================================================================
