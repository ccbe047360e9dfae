---------------------------- MODULE MCAsyncQueue ----------------------------
(***************************************************************************)
(* TLC instance of AsyncQueue.                                             *)
(***************************************************************************)
EXTENDS AsyncQueue
===========================================================================
