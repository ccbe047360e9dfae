------------------------ MODULE MCOrderedActionPair ------------------------
(***************************************************************************)
(* TLC instance of OrderedActionPair, which has no parameters.             *)
(***************************************************************************)
EXTENDS OrderedActionPair
===========================================================================
