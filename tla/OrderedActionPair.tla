------------------------- MODULE OrderedActionPair -------------------------
(***************************************************************************)
(* hittop::concurrent::OrderedActionPair: one pair, one call of RunFirst   *)
(* or RunFirstTC with action f, one call of RunSecond or RunSecondTC with  *)
(* action g, by two threads or by one inside an action of the other.       *)
(* Whether each caller uses the plain or the tail-call variant is chosen   *)
(* in the initial state.                                                   *)
(*                                                                         *)
(* A tail-call variant returns the action to run, and its caller runs it;  *)
(* a plain variant runs it before it returns, RunFirst out of the member   *)
(* second_ itself, which it leaves in place.                               *)
(***************************************************************************)
EXTENDS Naturals

Callers == {"first", "second"}

\* OrderedActionPair::PossibleStates
PossibleStates == {"Initial", "RunFirstCallsSecond", "RunSecondCallsSecond"}

VARIABLES
  tailCall,   \* tailCall[c]: caller c uses the TC variant
  state_,     \* the atomic
  second_,    \* whether the member second_ holds g
  pc,         \* pc[c]: where caller c is
  current,    \* current[c]: its local variable `current'
  finished    \* the actions that have run, f = 1 and g = 2

vars == <<tailCall, state_, second_, pc, current, finished>>

(***************************************************************************)
(* "f" and "g" are user code, "g_in_place" is user code called out of      *)
(* second_; "call" is a caller of a TC variant with a non-empty TailCall.  *)
(***************************************************************************)
PCs == {"idle", "enter", "f", "load", "store", "loop", "take", "call", "g",
        "g_in_place", "done"}

Init ==
  /\ tailCall \in [Callers -> BOOLEAN]
  /\ state_ = "Initial"
  /\ second_ = FALSE
  /\ pc = [c \in Callers |-> "idle"]
  /\ current = [c \in Callers |-> "Initial"]
  /\ finished = {}

Goto(c, label) == pc' = [pc EXCEPT ![c] = label]

Read(c) == current' = [current EXCEPT ![c] = state_]

---------------------------------------------------------------------------
(* RunFirst and RunFirstTC.                                                 *)

CallFirst ==
  /\ pc["first"] = "idle"
  /\ Goto("first", "enter")
  /\ UNCHANGED <<tailCall, state_, second_, current, finished>>

RunF ==
  /\ pc["first"] = "enter"
  /\ Goto("first", "f")
  /\ UNCHANGED <<tailCall, state_, second_, current, finished>>

FReturns ==
  /\ pc["first"] = "f"
  /\ finished' = finished \cup {1}
  /\ Goto("first", "load")
  /\ UNCHANGED <<tailCall, state_, second_, current>>

FirstDispatch ==
  Goto("first", IF state_ = "RunFirstCallsSecond" THEN "take" ELSE "loop")

FirstLoad ==
  /\ pc["first"] = "load"
  /\ Read("first")
  /\ FirstDispatch
  /\ UNCHANGED <<tailCall, state_, second_, finished>>

FirstCasSucceeds ==
  /\ pc["first"] = "loop"
  /\ state_ = current["first"]
  /\ state_' = "RunSecondCallsSecond"
  /\ Goto("first", "done")
  /\ UNCHANGED <<tailCall, second_, current, finished>>

\* compare_exchange_weak may fail although the values are equal.
FirstCasFails ==
  /\ pc["first"] = "loop"
  /\ Read("first")
  /\ FirstDispatch
  /\ UNCHANGED <<tailCall, state_, second_, finished>>

---------------------------------------------------------------------------
(* RunSecond and RunSecondTC.                                               *)

CallSecond ==
  /\ pc["second"] = "idle"
  /\ Goto("second", "load")
  /\ UNCHANGED <<tailCall, state_, second_, current, finished>>

\* Wrong: g is run unless some g has been stored.
SecondRunsAtOnce ==
  /\ pc["second"] = "load"
  /\ Read("second")
  /\ Goto("second", IF state_ # "RunFirstCallsSecond"
                    THEN IF tailCall["second"] THEN "call" ELSE "g"
                    ELSE "store")
  /\ UNCHANGED <<tailCall, state_, second_, finished>>

SecondLoad ==
  /\ pc["second"] = "load"
  /\ Read("second")
  /\ Goto("second", IF state_ = "RunSecondCallsSecond"
                    THEN IF tailCall["second"] THEN "call" ELSE "g"
                    ELSE "store")
  /\ UNCHANGED <<tailCall, state_, second_, finished>>

SecondStore ==
  /\ pc["second"] = "store"
  /\ second_' = TRUE
  /\ Goto("second", "loop")
  /\ UNCHANGED <<tailCall, state_, current, finished>>

\* Wrong: no return after the exchange.
SecondFallsThrough ==
  /\ pc["second"] = "loop"
  /\ state_ = current["second"]
  /\ state_' = "RunFirstCallsSecond"
  /\ Goto("second", "take")
  /\ UNCHANGED <<tailCall, second_, current, finished>>

SecondCasSucceeds ==
  /\ pc["second"] = "loop"
  /\ state_ = current["second"]
  /\ state_' = "RunFirstCallsSecond"
  /\ Goto("second", "done")
  /\ UNCHANGED <<tailCall, second_, current, finished>>

SecondCasFails ==
  /\ pc["second"] = "loop"
  /\ Read("second")
  /\ Goto("second", IF state_ = "RunSecondCallsSecond" THEN "take" ELSE "loop")
  /\ UNCHANGED <<tailCall, state_, second_, finished>>

---------------------------------------------------------------------------
(* What both sides do with a stored g.  Calling an empty second_ in place   *)
(* throws, and is not modelled as a step: it would show as a deadlock.  A   *)
(* swap out of an empty second_ returns an empty TailCall.                  *)

TakeInPlace(c) ==
  /\ pc[c] = "take" /\ ~tailCall[c] /\ second_
  /\ Goto(c, "g_in_place")
  /\ UNCHANGED <<tailCall, state_, second_, current, finished>>

TakeTailCall(c) ==
  /\ pc[c] = "take" /\ tailCall[c]
  /\ second_' = FALSE
  /\ Goto(c, IF second_ THEN "call" ELSE "done")
  /\ UNCHANGED <<tailCall, state_, current, finished>>

RunTailCall(c) ==
  /\ pc[c] = "call"
  /\ Goto(c, "g")
  /\ UNCHANGED <<tailCall, state_, second_, current, finished>>

GReturns(c) ==
  /\ pc[c] \in {"g", "g_in_place"}
  /\ finished' = finished \cup {2}
  /\ Goto(c, "done")
  /\ UNCHANGED <<tailCall, state_, second_, current>>

---------------------------------------------------------------------------

First  == \/ RunF \/ FReturns \/ FirstLoad \/ FirstCasSucceeds
          \/ FirstCasFails /\ state_ # current["first"]
Second == \/ SecondLoad \/ SecondStore \/ SecondCasSucceeds
          \/ SecondCasFails /\ state_ # current["second"]
RunStored(c) ==
  TakeInPlace(c) \/ TakeTailCall(c) \/ RunTailCall(c) \/ GReturns(c)

Next ==
  \/ CallFirst \/ First \/ FirstCasFails
  \/ CallSecond \/ Second \/ SecondCasFails
  \/ \E c \in Callers : RunStored(c)
  \/ (\A c \in Callers : pc[c] = "done") /\ UNCHANGED vars

Spec == Init /\ [][Next]_vars

(***************************************************************************)
(* Threads keep running, f and g return, and a compare-exchange that could *)
(* succeed does not fail spuriously for ever.  Nobody is obliged to call.  *)
(***************************************************************************)
FairSpec ==
  /\ Spec
  /\ WF_vars(First) /\ WF_vars(Second)
  /\ \A c \in Callers : WF_vars(RunStored(c))

---------------------------------------------------------------------------

RunsG(c) == pc[c] \in {"g", "g_in_place"}

Accesses(c) == pc[c] \in {"store", "take", "g_in_place"}

(***************************************************************************)
(* second_ is a plain member: the assignment in RunSecond, and its call in *)
(* place or swap by the side that runs g, never overlap                    *)
(* (ordered_action_pair.h:99 against 48 and 77-78).                        *)
(***************************************************************************)
NoRaceOnSecond == ~(Accesses("first") /\ Accesses("second"))

(***************************************************************************)
(* The pair is in-order execution of two actions, whichever variants are   *)
(* used, the eventual running of g included.                               *)
(***************************************************************************)
Abs == INSTANCE InOrderExecution WITH
         N <- 2,
         submitted <- (IF pc["first"] = "idle" THEN {} ELSE {1})
                        \cup (IF pc["second"] = "idle" THEN {} ELSE {2}),
         running   <- (IF pc["first"] = "f" THEN {1} ELSE {})
                        \cup (IF \E c \in Callers : RunsG(c) THEN {2} ELSE {}),
         finished  <- finished

ImplementsInOrder == Abs!AbsFairSpec
===========================================================================
