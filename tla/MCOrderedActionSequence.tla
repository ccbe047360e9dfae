---------------------- MODULE MCOrderedActionSequence ----------------------
(***************************************************************************)
(* TLC instance of OrderedActionSequence: N is given by the .cfg files.    *)
(***************************************************************************)
EXTENDS OrderedActionSequence
===========================================================================
