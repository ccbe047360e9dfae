------------------------- MODULE InOrderExecution -------------------------
(***************************************************************************)
(* What OrderedActionPair and OrderedActionSequence promise their callers: *)
(* actions 1..N are submitted in any order, by any threads, and run one at *)
(* a time, each exactly once, in the order of their numbers.  Nothing is   *)
(* said of who runs an action or how the threads agree on it.              *)
(***************************************************************************)
EXTENDS Naturals

CONSTANT N

VARIABLES
  submitted,   \* the actions whose wrapper has been invoked
  running,     \* the actions being run (at most one)
  finished     \* the actions that have run

absVars == <<submitted, running, finished>>

AbsInit ==
  /\ submitted = {}
  /\ running = {}
  /\ finished = {}

Submit(a) ==
  /\ a \notin submitted
  /\ submitted' = submitted \cup {a}
  /\ UNCHANGED <<running, finished>>

Start(a) ==
  /\ running = {}
  /\ a \in submitted \ finished
  /\ \A b \in 1..(a - 1) : b \in finished
  /\ running' = {a}
  /\ UNCHANGED <<submitted, finished>>

Finish(a) ==
  /\ a \in running
  /\ running' = {}
  /\ finished' = finished \cup {a}
  /\ UNCHANGED submitted

AbsNext == \E a \in 1..N : Submit(a) \/ Start(a) \/ Finish(a)

AbsSpec == AbsInit /\ [][AbsNext]_absVars

(***************************************************************************)
(* The calling threads do not wait for each other: an action whose         *)
(* predecessors have run is eventually run by some thread, as long as the  *)
(* actions themselves return.                                              *)
(***************************************************************************)
AbsFairness == \A a \in 1..N : WF_absVars(Start(a)) /\ WF_absVars(Finish(a))

AbsFairSpec == AbsSpec /\ AbsFairness
===========================================================================
