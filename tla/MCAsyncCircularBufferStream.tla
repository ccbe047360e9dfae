-------------------- MODULE MCAsyncCircularBufferStream --------------------
(***************************************************************************)
(* TLC instances of AsyncCircularBufferStream.  The identities of calls    *)
(* are interchangeable in the safety runs.                                 *)
(***************************************************************************)
EXTENDS AsyncCircularBufferStream, TLC

Symmetry == Permutations(PrepareOps) \cup Permutations(FetchOps)
===========================================================================
