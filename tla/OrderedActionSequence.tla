----------------------- MODULE OrderedActionSequence -----------------------
(***************************************************************************)
(* hittop::concurrent::OrderedActionSequence: N wrapped actions, each      *)
(* invoked once by some thread, chained through OrderedActionPairs.  Pair  *)
(* a sits between action a and action a + 1: the wrapper of action a + 1   *)
(* calls pair a's RunSecondTC, and whoever runs action a does so through   *)
(* pair a's RunFirstTC.  Pair 0 is the one the constructor burns.          *)
(*                                                                         *)
(* A process is one invocation of a wrapper; it carries on with the tail   *)
(* calls that the pairs hand to it, so it may run actions of other         *)
(* wrappers.  An access to an atomic is one step, and so is an access to   *)
(* the plain member second_, whose begin and end are the states before and *)
(* after the step.                                                         *)
(***************************************************************************)
EXTENDS Naturals

CONSTANT N                       \* the number of actions ever wrapped
ASSUME NAssumption == N \in Nat \ {0}

Actions == 1..N
Pairs   == 0..N

\* OrderedActionPair::PossibleStates
kInitial              == 0
kRunFirstCallsSecond  == 1
kRunSecondCallsSecond == 2
PairStates == {kInitial, kRunFirstCallsSecond, kRunSecondCallsSecond}

NoCall == 0                      \* the empty TailCall

VARIABLES
  wrapped,    \* WrapNext has returned wrappers 1..wrapped
  state_,     \* state_[a]: the atomic of pair a
  second_,    \* second_[a]: the TailCall stored in pair a, named by its action
  pc,         \* pc[w]: where the invocation of wrapper w is
  current,    \* current[w]: its local variable `current'
  tc,         \* tc[w]: its local variable `tc', named by its action
  depth,      \* depth[w]: the action frames on its stack
  finished    \* the actions that have run

vars == <<wrapped, state_, second_, pc, current, tc, depth, finished>>

(***************************************************************************)
(* Program points.  "second_..." is inside RunSecondTC of pair w - 1;      *)
(* "call" is the test of the trampoline loop with a non-empty tc;          *)
(* "action" is user code; "first_..." is inside RunFirstTC of pair tc[w].  *)
(***************************************************************************)
PCs == {"idle", "second_load", "second_store", "second_cas", "second_take",
        "call", "action", "first_load", "first_loop", "first_take", "done"}

Init ==
  /\ wrapped = 0
  /\ state_ = [a \in Pairs |->
                 IF a = 0 THEN kRunSecondCallsSecond ELSE kInitial]
  /\ second_ = [a \in Pairs |-> NoCall]
  /\ pc = [w \in Actions |-> "idle"]
  /\ current = [w \in Actions |-> kInitial]
  /\ tc = [w \in Actions |-> NoCall]
  /\ depth = [w \in Actions |-> 0]
  /\ finished = {}

Goto(w, label) == pc' = [pc EXCEPT ![w] = label]

\* RunSecondTC and the calls of the trampoline end here: tc = k, then the
\* loop either calls it or leaves the wrapper.
ReturnTC(w, k) ==
  /\ tc' = [tc EXCEPT ![w] = k]
  /\ Goto(w, IF k = NoCall THEN "done" ELSE "call")

(***************************************************************************)
(* WrapNext is not thread-safe but may run while wrappers it returned      *)
(* earlier are being invoked.                                              *)
(***************************************************************************)
WrapNext ==
  /\ wrapped < N
  /\ wrapped' = wrapped + 1
  /\ UNCHANGED <<state_, second_, pc, current, tc, depth, finished>>

Invoke(w) ==
  /\ pc[w] = "idle"
  /\ w <= wrapped
  /\ Goto(w, "second_load")
  /\ UNCHANGED <<wrapped, state_, second_, current, tc, depth, finished>>

---------------------------------------------------------------------------
(* RunSecondTC of pair w - 1, called by wrapper w.                          *)

SecondLoad(w) ==
  /\ pc[w] = "second_load"
  /\ current' = [current EXCEPT ![w] = state_[w - 1]]
  /\ IF state_[w - 1] = kRunSecondCallsSecond
     THEN ReturnTC(w, w)
     ELSE Goto(w, "second_store") /\ UNCHANGED tc
  /\ UNCHANGED <<wrapped, state_, second_, depth, finished>>

\* Wrong: the exchange comes first and the assignment is lost.
SecondForgetsStore(w) ==
  /\ pc[w] = "second_store"
  /\ Goto(w, "second_cas")
  /\ UNCHANGED <<wrapped, state_, second_, current, tc, depth, finished>>

SecondStore(w) ==
  /\ pc[w] = "second_store"
  /\ second_' = [second_ EXCEPT ![w - 1] = w]
  /\ Goto(w, "second_cas")
  /\ UNCHANGED <<wrapped, state_, current, tc, depth, finished>>

\* Wrong: no return after the exchange.
SecondFallsThrough(w) ==
  /\ pc[w] = "second_cas"
  /\ state_[w - 1] = current[w]
  /\ state_' = [state_ EXCEPT ![w - 1] = kRunFirstCallsSecond]
  /\ Goto(w, "second_take")
  /\ UNCHANGED <<wrapped, second_, current, tc, depth, finished>>

SecondCasSucceeds(w) ==
  /\ pc[w] = "second_cas"
  /\ state_[w - 1] = current[w]
  /\ state_' = [state_ EXCEPT ![w - 1] = kRunFirstCallsSecond]
  /\ ReturnTC(w, NoCall)
  /\ UNCHANGED <<wrapped, second_, current, depth, finished>>

\* Wrong: `current' keeps what was expected.
SecondKeepsExpecting(w) ==
  /\ pc[w] = "second_cas"
  /\ Goto(w, IF current[w] = kRunSecondCallsSecond THEN "second_take"
                                                  ELSE "second_cas")
  /\ UNCHANGED <<wrapped, state_, second_, current, tc, depth, finished>>

\* compare_exchange_weak may fail although the values are equal.
SecondCasFails(w) ==
  /\ pc[w] = "second_cas"
  /\ current' = [current EXCEPT ![w] = state_[w - 1]]
  /\ Goto(w, IF state_[w - 1] = kRunSecondCallsSecond THEN "second_take"
                                                      ELSE "second_cas")
  /\ UNCHANGED <<wrapped, state_, second_, tc, depth, finished>>

SecondTake(w) ==
  /\ pc[w] = "second_take"
  /\ second_' = [second_ EXCEPT ![w - 1] = NoCall]
  /\ ReturnTC(w, second_[w - 1])
  /\ UNCHANGED <<wrapped, state_, current, depth, finished>>

---------------------------------------------------------------------------
(* The trampoline calls tc, which is RunFirstTC of pair tc[w] on action     *)
(* tc[w].                                                                   *)

Call(w) ==
  /\ pc[w] = "call"
  /\ depth' = [depth EXCEPT ![w] = @ + 1]
  /\ Goto(w, "action")
  /\ UNCHANGED <<wrapped, state_, second_, current, tc, finished>>

ActionReturns(w) ==
  /\ pc[w] = "action"
  /\ finished' = finished \cup {tc[w]}
  /\ Goto(w, "first_load")
  /\ UNCHANGED <<wrapped, state_, second_, current, tc, depth>>

FirstDispatch(seen) ==
  IF seen = kRunFirstCallsSecond THEN "first_take" ELSE "first_loop"

FirstLoad(w) ==
  /\ pc[w] = "first_load"
  /\ current' = [current EXCEPT ![w] = state_[tc[w]]]
  /\ Goto(w, FirstDispatch(state_[tc[w]]))
  /\ UNCHANGED <<wrapped, state_, second_, tc, depth, finished>>

\* Wrong: a store where the exchange is, over an action stored meanwhile.
FirstStores(w) ==
  /\ pc[w] = "first_loop"
  /\ state_' = [state_ EXCEPT ![tc[w]] = kRunSecondCallsSecond]
  /\ depth' = [depth EXCEPT ![w] = @ - 1]
  /\ ReturnTC(w, NoCall)
  /\ UNCHANGED <<wrapped, second_, current, finished>>

FirstCasSucceeds(w) ==
  /\ pc[w] = "first_loop"
  /\ state_[tc[w]] = current[w]
  /\ state_' = [state_ EXCEPT ![tc[w]] = kRunSecondCallsSecond]
  /\ depth' = [depth EXCEPT ![w] = @ - 1]
  /\ ReturnTC(w, NoCall)
  /\ UNCHANGED <<wrapped, second_, current, finished>>

FirstCasFails(w) ==
  /\ pc[w] = "first_loop"
  /\ current' = [current EXCEPT ![w] = state_[tc[w]]]
  /\ Goto(w, FirstDispatch(state_[tc[w]]))
  /\ UNCHANGED <<wrapped, state_, second_, tc, depth, finished>>

\* Wrong: the stored action is called in place, on top of this frame.
FirstCallsInPlace(w) ==
  /\ pc[w] = "first_take"
  /\ second_' = [second_ EXCEPT ![tc[w]] = NoCall]
  /\ ReturnTC(w, second_[tc[w]])
  /\ UNCHANGED <<wrapped, state_, current, depth, finished>>

\* The stored action is returned, not called: the frame is left first.
FirstTake(w) ==
  /\ pc[w] = "first_take"
  /\ second_' = [second_ EXCEPT ![tc[w]] = NoCall]
  /\ depth' = [depth EXCEPT ![w] = @ - 1]
  /\ ReturnTC(w, second_[tc[w]])
  /\ UNCHANGED <<wrapped, state_, current, finished>>

---------------------------------------------------------------------------

RunSecondTC(w) ==
  \/ SecondLoad(w) \/ SecondStore(w) \/ SecondCasSucceeds(w)
  \/ SecondCasFails(w) \/ SecondTake(w)

RunFirstTC(w) ==
  \/ FirstLoad(w) \/ FirstCasSucceeds(w) \/ FirstCasFails(w) \/ FirstTake(w)

Wrapper(w) ==
  Invoke(w) \/ RunSecondTC(w) \/ Call(w) \/ ActionReturns(w) \/ RunFirstTC(w)

AllDone == \A w \in Actions : pc[w] = "done"

Terminating == AllDone /\ UNCHANGED vars

Next == WrapNext \/ (\E w \in Actions : Wrapper(w)) \/ Terminating

Spec == Init /\ [][Next]_vars

(***************************************************************************)
(* The threads keep running and the actions return; a compare-exchange     *)
(* that could succeed does not fail spuriously for ever.  Nothing obliges  *)
(* the program to wrap or to invoke.                                       *)
(***************************************************************************)
Fairness ==
  \A w \in Actions :
    /\ WF_vars(SecondLoad(w) \/ SecondStore(w) \/ SecondTake(w))
    /\ WF_vars(SecondCasSucceeds(w))
    /\ WF_vars(SecondCasFails(w) /\ state_[w - 1] # current[w])
    /\ WF_vars(Call(w) \/ ActionReturns(w))
    /\ WF_vars(FirstLoad(w) \/ FirstTake(w))
    /\ WF_vars(FirstCasSucceeds(w))
    /\ WF_vars(FirstCasFails(w) /\ state_[tc[w]] # current[w])

FairSpec == Spec /\ Fairness

---------------------------------------------------------------------------

TypeOK ==
  /\ wrapped \in 0..N
  /\ state_ \in [Pairs -> PairStates]
  /\ second_ \in [Pairs -> Pairs]
  /\ pc \in [Actions -> PCs]
  /\ current \in [Actions -> PairStates]
  /\ tc \in [Actions -> Pairs]
  /\ depth \in [Actions -> Nat]
  /\ finished \in SUBSET Actions

\* Invocation w is running the action tc[w].
Running(w) == pc[w] = "action"

\* Invocation w owns the front of the sequence: it is about to take or run the
\* next action, runs it, or has run it and not yet handed over.
HasBaton(w) ==
  pc[w] \in {"second_take", "call", "action", "first_load", "first_loop",
             "first_take"}

\* Invocation w is in the middle of an access to pair a's second_.
Accesses(w, a) ==
  \/ pc[w] \in {"second_store", "second_take"} /\ a = w - 1
  \/ pc[w] = "first_take" /\ a = tc[w]

\* Action a is waiting in its pair for the action before it to return.
Parked(a) == state_[a - 1] = kRunFirstCallsSecond /\ second_[a - 1] = a

\* Invocation w is about to run action a or runs it.
Holds(w, a) ==
  \/ pc[w] \in {"call", "action"} /\ tc[w] = a
  \/ pc[w] \in {"second_load", "second_store", "second_cas", "second_take"}
     /\ w = a

(***************************************************************************)
(* "The wrapper will invoke f after all previous actions in this sequence  *)
(* have run" (ordered_action_sequence.h:18-19): an action runs when exactly *)
(* its predecessors have run, whoever runs it and whatever the order in    *)
(* which the wrappers were invoked.                                        *)
(***************************************************************************)
InOrder == \A w \in Actions : Running(w) => finished = 1..(tc[w] - 1)

(***************************************************************************)
(* At most one invocation is at the front of the sequence: actions need no *)
(* locks of their own, the handover through state_ is enough.              *)
(***************************************************************************)
OneBaton ==
  \A v, w \in Actions : HasBaton(v) /\ HasBaton(w) => v = w

(***************************************************************************)
(* second_ is a plain std::function: RunFirstTC swaps it out and           *)
(* RunSecondTC assigns it with no lock, and state_ alone must keep the two *)
(* accesses apart (ordered_action_pair.h:77-78 against 131, 138-139).      *)
(***************************************************************************)
NoRaceOnSecond ==
  \A v, w \in Actions, a \in Pairs :
    Accesses(v, a) /\ Accesses(w, a) => v = w

(***************************************************************************)
(* An invoked action is never dropped and never duplicated: until it has   *)
(* run it is parked in its pair or held by exactly one invocation, or the  *)
(* invocation that runs its predecessor is just taking it out; afterwards  *)
(* it is nowhere.                                                          *)
(***************************************************************************)
OneOwner ==
  \A a \in Actions : pc[a] # "idle" =>
    IF a \in finished
    THEN ~Parked(a) /\ (\A w \in Actions : ~Holds(w, a))
    ELSE /\ Parked(a) \/ (\E w \in Actions : Holds(w, a))
         /\ Parked(a) => (\A w \in Actions : ~Holds(w, a))
         /\ \A v, w \in Actions : Holds(v, a) /\ Holds(w, a) => v = w

(***************************************************************************)
(* However many actions are deferred to one call, a thread's stack holds   *)
(* one action frame at a time (ordered_action_pair.h:68-70 and             *)
(* concurrent/README.md:108-133).                                          *)
(***************************************************************************)
StackBounded == \A w \in Actions : depth[w] <= 1

(***************************************************************************)
(* No invocation waits for another: each one returns, whether or not the   *)
(* wrappers before it are ever invoked.                                    *)
(***************************************************************************)
InvocationsReturn == \A w \in Actions : pc[w] # "idle" ~> pc[w] = "done"

(***************************************************************************)
(* The sequence implements in-order execution, the eventual running of     *)
(* every invoked action whose predecessors have run included: whichever    *)
(* side of a pair leaves last takes the stored action along.               *)
(***************************************************************************)
Abs == INSTANCE InOrderExecution WITH
         submitted <- {w \in Actions : pc[w] # "idle"},
         running   <- {tc[w] : w \in {v \in Actions : Running(v)}},
         finished  <- finished

ImplementsInOrder == Abs!AbsFairSpec
---------------------------------------------------------------------------
(* The inductive invariant behind the properties above.                     *)

\* Exactly the actions before a have run.
Front(a) == \A b \in Actions : b \in finished <=> b < a

\* Invocation w has not yet decided who runs its own action.
Undecided(w) ==
  pc[w] \in {"idle", "second_load", "second_store", "second_cas"}

\* Invocation w has taken action a out for running, or runs it.
Takes(w, a) == pc[w] \in {"call", "action"} /\ tc[w] = a

BatonAtFront ==
  \A w \in Actions :
    /\ pc[w] = "second_take" =>
         Front(w) /\ state_[w - 1] = kRunSecondCallsSecond
    /\ pc[w] \in {"call", "action"} => tc[w] \in Actions /\ Front(tc[w])
    /\ pc[w] \in {"first_load", "first_loop", "first_take"} =>
         tc[w] \in Actions /\ Front(tc[w] + 1)

\* When the first side of the pair before w has left and w has not decided, the
\* baton lies in that pair.
BatonAtRest ==
  \A w \in Actions :
    state_[w - 1] = kRunSecondCallsSecond /\ Undecided(w) =>
      Front(w) /\ (\A v \in Actions : ~HasBaton(v))

\* When the second side of the pair before w has left, the pair holds action w
\* until it is taken.
StoredUntilTaken ==
  /\ state_[N] # kRunFirstCallsSecond
  /\ \A w \in Actions : state_[w - 1] = kRunFirstCallsSecond =>
       /\ pc[w] = "done"
       /\ second_[w - 1] = w <=>
            w \notin finished /\ (\A v \in Actions : ~Takes(v, w))

\* An invocation before its decision: what it has read, what it has stored,
\* and that nobody else can have its action.
BeforeDecision ==
  \A w \in Actions :
    /\ pc[w] \in {"second_store", "second_cas"} => current[w] = kInitial
    /\ pc[w] \in {"second_cas", "second_take"} => second_[w - 1] = w
    /\ Undecided(w) \/ pc[w] = "second_take" =>
         w \notin finished /\ (\A v \in Actions : ~Takes(v, w))

\* An action whose invocation has decided and that has not run is parked or
\* taken.
AfterDecision ==
  \A w \in Actions :
    Undecided(w) \/ pc[w] = "second_take" \/ w \in finished \/ Parked(w)
      \/ (\E v \in Actions : Takes(v, w))

WhatFirstSaw ==
  \A w \in Actions :
    /\ pc[w] = "first_loop" => current[w] # kRunFirstCallsSecond
    /\ pc[w] = "first_take" => state_[tc[w]] = kRunFirstCallsSecond

FrameWhileCalled ==
  \A w \in Actions :
    depth[w] = IF pc[w] \in {"action", "first_load", "first_loop",
                             "first_take"}
               THEN 1 ELSE 0

IInv ==
  /\ TypeOK
  /\ OneBaton
  /\ BatonAtFront
  /\ BatonAtRest
  /\ StoredUntilTaken
  /\ BeforeDecision
  /\ AfterDecision
  /\ WhatFirstSaw
  /\ FrameWhileCalled
===========================================================================
