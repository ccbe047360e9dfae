----------------------- MODULE OrderedActionPairProofs -----------------------
(***************************************************************************)
(* Proofs about OrderedActionPair: PInv is inductive, second_ is never     *)
(* touched by both callers at once, and each step is a step of             *)
(* InOrderExecution for two actions or invisible to it, whichever variants *)
(* the callers use.                                                        *)
(***************************************************************************)
EXTENDS OrderedActionPair, TLAPS

\* The types, and the places that each caller passes through.
TypeOK ==
  /\ tailCall \in [Callers -> BOOLEAN]
  /\ state_ \in PossibleStates
  /\ second_ \in BOOLEAN
  /\ pc \in [Callers -> PCs]
  /\ pc["first"] # "store"
  /\ pc["second"] \notin {"enter", "f"}
  /\ current \in [Callers -> PossibleStates]
  /\ finished \in SUBSET {1, 2}

\* A caller that has not exchanged state_ yet, nor found it exchanged.
FirstUndecided  == pc["first"] \in {"idle", "enter", "f", "load", "loop"}
SecondUndecided == pc["second"] \in {"idle", "load", "store", "loop"}

\* A caller that is left g to run.
Responsible(c) == pc[c] \in {"take", "call", "g", "g_in_place"}

(* The exchange settles who runs g: as long as there is none both are       *)
(* before it, and whoever makes it is done and leaves g to the other.       *)
Settled ==
  CASE state_ = "Initial" -> FirstUndecided /\ SecondUndecided
    [] state_ = "RunFirstCallsSecond" -> pc["second"] = "done"
    [] state_ = "RunSecondCallsSecond" -> pc["first"] = "done"

\* Whoever runs g has been left it.
LeftToRun ==
  /\ Responsible("first") => state_ = "RunFirstCallsSecond"
  /\ Responsible("second") => state_ = "RunSecondCallsSecond"

\* The exchange is made on what was read before g was stored, or f had run.
ReadsInitial ==
  /\ pc["first"] = "loop" => current["first"] = "Initial"
  /\ pc["second"] \in {"store", "loop"} => current["second"] = "Initial"

\* second_ holds g from the assignment until it is taken.
StoredUntilTaken ==
  /\ pc["second"] \in {"loop", "take"} => second_
  /\ state_ = "RunFirstCallsSecond" /\ (FirstUndecided \/ pc["first"] = "take")
       => second_

\* What has run: f before its caller reads state_, g when who runs it is done.
WhatHasRun ==
  /\ 1 \in finished <=> pc["first"] \notin {"idle", "enter", "f"}
  /\ 2 \in finished <=>
       \/ state_ = "RunFirstCallsSecond" /\ pc["first"] = "done"
       \/ state_ = "RunSecondCallsSecond" /\ pc["second"] = "done"

PInv ==
  /\ TypeOK /\ Settled /\ LeftToRun /\ ReadsInitial /\ StoredUntilTaken
  /\ WhatHasRun
-----------------------------------------------------------------------------
(* The steps of the first caller keep the invariant: those around f,        *)
LEMMA AroundFKeeps ==
  ASSUME PInv, CallFirst \/ RunF \/ FReturns
  PROVE  PInv'
<1> USE DEF PInv, Callers, PCs, PossibleStates, Goto, CallFirst, RunF, FReturns,
            TypeOK
<1>1. TypeOK'
  OBVIOUS
<1>2. Settled'
  BY DEF Settled, FirstUndecided, SecondUndecided
<1>3. LeftToRun'
  BY DEF LeftToRun, Responsible
<1>4. ReadsInitial'
  BY DEF ReadsInitial
<1>5. StoredUntilTaken'
  BY DEF StoredUntilTaken, FirstUndecided
<1>6. WhatHasRun'
  BY DEF WhatHasRun
<1>7. QED
  BY <1>1, <1>2, <1>3, <1>4, <1>5, <1>6

\* its reads of state_,
LEMMA FirstReadsKeep ==
  ASSUME PInv, FirstLoad \/ FirstCasFails
  PROVE  PInv'
<1> USE DEF PInv, Callers, PCs, PossibleStates, Goto, Read, FirstLoad,
            FirstCasFails, FirstDispatch, TypeOK
<1>1. TypeOK'
  OBVIOUS
<1>2. Settled'
  BY DEF Settled, FirstUndecided, SecondUndecided
<1>3. LeftToRun'
  BY DEF LeftToRun, Responsible
<1>4. ReadsInitial'
  BY DEF ReadsInitial, Settled
<1>5. StoredUntilTaken'
  BY DEF StoredUntilTaken, FirstUndecided
<1>6. WhatHasRun'
  BY DEF WhatHasRun
<1>7. QED
  BY <1>1, <1>2, <1>3, <1>4, <1>5, <1>6

\* and its exchange, which finds state_ as it was first.
LEMMA FirstExchangeKeeps ==
  ASSUME PInv, FirstCasSucceeds
  PROVE  PInv'
<1> USE DEF PInv, Callers, PCs, PossibleStates, Goto, FirstCasSucceeds, TypeOK
<1>0. state_ = "Initial" /\ SecondUndecided
  BY DEF ReadsInitial, Settled
<1>1. TypeOK'
  OBVIOUS
<1>2. Settled'
  BY DEF Settled
<1>3. LeftToRun'
  BY <1>0 DEF LeftToRun, Responsible, SecondUndecided
<1>4. ReadsInitial'
  BY DEF ReadsInitial
<1>5. StoredUntilTaken'
  BY DEF StoredUntilTaken
<1>6. WhatHasRun'
  BY <1>0 DEF WhatHasRun, SecondUndecided
<1>7. QED
  BY <1>1, <1>2, <1>3, <1>4, <1>5, <1>6

(* The steps of the second caller do: the call and the store of g,          *)
LEMMA StoreKeeps ==
  ASSUME PInv, CallSecond \/ SecondStore
  PROVE  PInv'
<1> USE DEF PInv, Callers, PCs, PossibleStates, Goto, CallSecond, SecondStore,
            TypeOK
<1>1. TypeOK'
  OBVIOUS
<1>2. Settled'
  BY DEF Settled, FirstUndecided, SecondUndecided
<1>3. LeftToRun'
  BY DEF LeftToRun, Responsible
<1>4. ReadsInitial'
  BY DEF ReadsInitial
<1>5. StoredUntilTaken'
  BY DEF StoredUntilTaken, FirstUndecided
<1>6. WhatHasRun'
  BY DEF WhatHasRun
<1>7. QED
  BY <1>1, <1>2, <1>3, <1>4, <1>5, <1>6

\* its reads of state_,
LEMMA SecondReadsKeep ==
  ASSUME PInv, SecondLoad \/ SecondCasFails
  PROVE  PInv'
<1> USE DEF PInv, Callers, PCs, PossibleStates, Goto, Read, SecondLoad,
            SecondCasFails, TypeOK
<1>1. TypeOK'
  OBVIOUS
<1>2. Settled'
  BY DEF Settled, FirstUndecided, SecondUndecided
<1>3. LeftToRun'
  BY DEF LeftToRun, Responsible
<1>4. ReadsInitial'
  BY DEF ReadsInitial, Settled
<1>5. StoredUntilTaken'
  BY DEF StoredUntilTaken, FirstUndecided
<1>6. WhatHasRun'
  BY DEF WhatHasRun
<1>7. QED
  BY <1>1, <1>2, <1>3, <1>4, <1>5, <1>6

\* and its exchange.
LEMMA SecondExchangeKeeps ==
  ASSUME PInv, SecondCasSucceeds
  PROVE  PInv'
<1> USE DEF PInv, Callers, PCs, PossibleStates, Goto, SecondCasSucceeds, TypeOK
<1>0. state_ = "Initial" /\ FirstUndecided
  BY DEF ReadsInitial, Settled
<1>1. TypeOK'
  OBVIOUS
<1>2. Settled'
  BY DEF Settled
<1>3. LeftToRun'
  BY <1>0 DEF LeftToRun, Responsible, FirstUndecided
<1>4. ReadsInitial'
  BY DEF ReadsInitial
<1>5. StoredUntilTaken'
  BY <1>0 DEF StoredUntilTaken
<1>6. WhatHasRun'
  BY <1>0 DEF WhatHasRun, FirstUndecided
<1>7. QED
  BY <1>1, <1>2, <1>3, <1>4, <1>5, <1>6

(* Running g does, on either side.                                          *)
LEMMA RunStoredKeeps ==
  ASSUME PInv, NEW c \in Callers, RunStored(c)
  PROVE  PInv'
<1> USE DEF PInv, Callers, PCs, PossibleStates, Goto, RunStored, TakeInPlace,
            TakeTailCall, RunTailCall, GReturns, TypeOK
<1>1. TypeOK'
  <2>1. finished' \in SUBSET {1, 2} /\ second_' \in BOOLEAN
    OBVIOUS
  <2>2. PICK place \in {"g_in_place", "call", "g", "done"} :
          pc' = [pc EXCEPT ![c] = place]
    OBVIOUS
  <2>3. QED
    BY <2>1, <2>2
<1>2. Settled'
  BY DEF Settled, LeftToRun, Responsible
<1>3. LeftToRun'
  BY DEF LeftToRun, Responsible
<1>4. ReadsInitial'
  BY DEF ReadsInitial
<1>5. StoredUntilTaken'
  BY DEF StoredUntilTaken, LeftToRun, Responsible, FirstUndecided, Settled
<1>6. WhatHasRun'
  <2>1. CASE TakeInPlace(c) \/ RunTailCall(c)
    BY <2>1 DEF WhatHasRun, LeftToRun, Responsible
  <2>2. CASE TakeTailCall(c)
    <3>1. second_
      BY <2>2 DEF StoredUntilTaken, LeftToRun, Responsible
    <3>2. QED
      BY <2>2, <3>1 DEF WhatHasRun, LeftToRun, Responsible
  <2>3. CASE GReturns(c)
    <3>1. /\ c = "first" => state_ = "RunFirstCallsSecond"
          /\ c = "second" => state_ = "RunSecondCallsSecond"
      BY <2>3 DEF LeftToRun, Responsible
    <3>2. pc["first"] \notin {"idle", "enter", "f"} /\ 1 \in finished
      BY <2>3, <3>1 DEF WhatHasRun, Settled
    <3>3. pc'["first"] \notin {"idle", "enter", "f"} /\ 1 \in finished'
      BY <2>3, <3>2
    <3>4. 2 \in finished' /\ pc'[c] = "done" /\ state_' = state_
      BY <2>3
    <3>5. QED
      BY <3>1, <3>3, <3>4 DEF WhatHasRun
  <2>4. QED
    BY <2>1, <2>2, <2>3
<1>7. QED
  BY <1>1, <1>2, <1>3, <1>4, <1>5, <1>6

\* Nobody has begun, nothing has run.
LEMMA Initially == Init => PInv
BY DEF Init, PInv, TypeOK, Settled, LeftToRun, ReadsInitial, StoredUntilTaken,
       WhatHasRun, FirstUndecided, SecondUndecided, Responsible, Callers, PCs,
       PossibleStates

\* Every access and every call keeps the parts of the invariant.
LEMMA StepKeeps == PInv /\ [Next]_vars => PInv'
<1> SUFFICES ASSUME PInv, [Next]_vars PROVE PInv'
  OBVIOUS
<1>1. CASE CallFirst \/ RunF \/ FReturns
  BY <1>1, AroundFKeeps
<1>2. CASE FirstLoad \/ FirstCasFails
  BY <1>2, FirstReadsKeep
<1>3. CASE FirstCasSucceeds
  BY <1>3, FirstExchangeKeeps
<1>4. CASE CallSecond \/ SecondStore
  BY <1>4, StoreKeeps
<1>5. CASE SecondLoad \/ SecondCasFails
  BY <1>5, SecondReadsKeep
<1>6. CASE SecondCasSucceeds
  BY <1>6, SecondExchangeKeeps
<1>7. CASE \E c \in Callers : RunStored(c)
  BY <1>7, RunStoredKeeps
<1>8. CASE UNCHANGED vars
  BY <1>8 DEF vars, PInv, TypeOK, Settled, LeftToRun, ReadsInitial,
     StoredUntilTaken, WhatHasRun, FirstUndecided, SecondUndecided, Responsible
<1>9. QED
  BY <1>1, <1>2, <1>3, <1>4, <1>5, <1>6, <1>7, <1>8 DEF Next, First, Second

(* Who runs g, what state_ says of it and what is stored always agree.      *)
THEOREM Invariance == Spec => []PInv
BY Initially, StepKeeps, PTL DEF Spec

(* The assignment to second_ and its call or swap by the side that runs g   *)
(* never overlap (ordered_action_pair.h:99 against 48 and 77-78).           *)
THEOREM SecondIsNotRaced == Spec => []NoRaceOnSecond
<1>1. PInv => NoRaceOnSecond
  BY DEF PInv, NoRaceOnSecond, Accesses, LeftToRun, Settled, Responsible, TypeOK
<1>2. QED
  BY <1>1, Invariance, PTL

(* Whoever takes g finds it: no empty second_ is called (lines 48 and 106), *)
(* which would throw, and no empty TailCall returned while g is due, which  *)
(* would lose it (lines 77-79).                                             *)
THEOREM GIsThereWhenTaken ==
  Spec => [](\A c \in Callers : pc[c] = "take" => second_)
<1>1. PInv => \A c \in Callers : pc[c] = "take" => second_
  BY DEF PInv, StoredUntilTaken, LeftToRun, Responsible, Callers
<1>2. QED
  BY <1>1, Invariance, PTL
-----------------------------------------------------------------------------
(* The actions 1 and 2 of InOrderExecution are f and g.                     *)

\* f and g do not run together, and a caller that runs g may.
LEMMA OneRuns ==
  ASSUME PInv
  PROVE  /\ FirstUndecided => \A c \in Callers : ~RunsG(c)
         /\ \A c, d \in Callers : Responsible(c) /\ Responsible(d) => c = d
         /\ \A c \in Callers : Responsible(c) =>
              /\ pc["first"] \notin {"idle", "f"} /\ pc["second"] # "idle"
              /\ 1 \in finished /\ 2 \notin finished
BY DEF PInv, TypeOK, Settled, LeftToRun, WhatHasRun, FirstUndecided,
       SecondUndecided, Responsible, RunsG, Callers, PCs, PossibleStates

\* A step after which who is submitted, running and finished is the same.
LEMMA Invisible ==
  ASSUME UNCHANGED finished,
         \A c \in Callers : /\ pc[c] = "idle" <=> pc'[c] = "idle"
                            /\ RunsG(c) <=> RunsG(c)',
         pc["first"] = "f" <=> pc'["first"] = "f"
  PROVE  UNCHANGED Abs!absVars
BY DEF Abs!absVars, Callers

\* A step at which g is begun, by one that is or becomes responsible for it.
LEMMA Begins ==
  ASSUME PInv, NEW c \in Callers, \A d \in Callers : ~RunsG(d),
         pc["first"] \notin {"idle", "f"}, pc["second"] # "idle",
         1 \in finished, 2 \notin finished,
         NEW place \in {"g", "g_in_place"}, pc' = [pc EXCEPT ![c] = place],
         UNCHANGED finished
  PROVE  Abs!AbsNext
<1>1. RunsG(c)' /\ pc'["first"] \notin {"idle", "f"} /\ pc'["second"] # "idle"
  BY DEF RunsG, PInv, TypeOK, Callers
<1>2. \A b \in 1..(2 - 1) : b \in finished
  OBVIOUS
<1>3. Abs!Start(2)
  BY <1>1, <1>2 DEF Abs!Start, Callers
<1>4. QED
  BY <1>3 DEF Abs!AbsNext

\* The steps that show, besides those at which g is begun.
LEMMA Shows ==
  ASSUME PInv, CallFirst \/ RunF \/ FReturns \/ CallSecond
                 \/ \E c \in Callers : GReturns(c)
  PROVE  Abs!AbsNext
<1> USE DEF PInv, TypeOK, Callers, Goto
<1>1. CASE CallFirst
  <2>1. \A c \in Callers : RunsG(c) <=> RunsG(c)'
    BY <1>1 DEF CallFirst, RunsG
  <2>2. Abs!Submit(1)
    BY <1>1, <2>1 DEF CallFirst, Abs!Submit
  <2>3. QED
    BY <2>2 DEF Abs!AbsNext
<1>2. CASE RunF
  <2>1. \A c \in Callers : ~RunsG(c) /\ ~RunsG(c)'
    BY <1>2, OneRuns DEF RunF, RunsG, FirstUndecided
  <2>2. 1 \notin finished
    BY <1>2 DEF RunF, WhatHasRun
  <2>3. Abs!Start(1)
    BY <1>2, <2>1, <2>2 DEF RunF, Abs!Start
  <2>4. QED
    BY <2>3 DEF Abs!AbsNext
<1>3. CASE FReturns
  <2>1. \A c \in Callers : ~RunsG(c) /\ ~RunsG(c)'
    BY <1>3, OneRuns DEF FReturns, RunsG, FirstUndecided
  <2>2. Abs!Finish(1)
    BY <1>3, <2>1 DEF FReturns, Abs!Finish
  <2>3. QED
    BY <2>2 DEF Abs!AbsNext
<1>4. CASE CallSecond
  <2>1. \A c \in Callers : RunsG(c) <=> RunsG(c)'
    BY <1>4 DEF CallSecond, RunsG
  <2>2. Abs!Submit(2)
    BY <1>4, <2>1 DEF CallSecond, Abs!Submit
  <2>3. QED
    BY <2>2 DEF Abs!AbsNext
<1>5. ASSUME NEW c \in Callers, GReturns(c) PROVE Abs!AbsNext
  <2>1. Responsible(c) /\ RunsG(c)
    BY <1>5 DEF GReturns, Responsible, RunsG
  <2>2. \A d \in Callers : RunsG(d) => d = c
    BY <2>1, OneRuns DEF RunsG, Responsible
  <2>3. \A d \in Callers : ~RunsG(d)'
    BY <1>5, <2>2 DEF GReturns, RunsG
  <2>4. pc["first"] # "f" /\ pc'["first"] # "f"
    BY <1>5, <2>1, OneRuns DEF GReturns
  <2>5. (pc["first"] = "idle" <=> pc'["first"] = "idle")
          /\ (pc["second"] = "idle" <=> pc'["second"] = "idle")
    BY <1>5 DEF GReturns
  <2>6. Abs!Finish(2)
    BY <1>5, <2>1, <2>3, <2>4, <2>5 DEF GReturns, Abs!Finish
  <2>7. QED
    BY <2>6 DEF Abs!AbsNext
<1>6. QED
  BY <1>1, <1>2, <1>3, <1>4, <1>5

\* The steps of a caller that is, or finds itself, responsible for g.
LEMMA TowardsG ==
  ASSUME PInv, \/ SecondLoad
               \/ \E c \in Callers :
                    TakeInPlace(c) \/ TakeTailCall(c) \/ RunTailCall(c)
  PROVE  Abs!AbsNext \/ UNCHANGED Abs!absVars
<1> USE DEF PInv, TypeOK, Callers, Goto
<1>1. ASSUME NEW c \in Callers, TakeInPlace(c) \/ RunTailCall(c)
      PROVE  Abs!AbsNext
  <2>1. Responsible(c) /\ ~RunsG(c)
    BY <1>1 DEF TakeInPlace, RunTailCall, Responsible, RunsG
  <2>2. \A d \in Callers : ~RunsG(d)
    BY <2>1, OneRuns DEF RunsG, Responsible
  <2>3. PICK place \in {"g", "g_in_place"} : pc' = [pc EXCEPT ![c] = place]
    BY <1>1 DEF TakeInPlace, RunTailCall
  <2>4. UNCHANGED finished
    BY <1>1 DEF TakeInPlace, RunTailCall
  <2>5. QED
    BY <2>1, <2>2, <2>3, <2>4, OneRuns, Begins
<1>2. ASSUME NEW c \in Callers, TakeTailCall(c)
      PROVE  UNCHANGED Abs!absVars
  BY <1>2, Invisible DEF TakeTailCall, RunsG
<1>3. CASE SecondLoad /\ pc'["second"] = "g"
  <2>1. state_ = "RunSecondCallsSecond" /\ pc["second"] = "load"
    BY <1>3 DEF SecondLoad
  <2>2. pc["first"] = "done"
    BY <2>1 DEF Settled
  <2>3. 1 \in finished /\ 2 \notin finished
    BY <2>1, <2>2 DEF WhatHasRun
  <2>4. \A d \in Callers : ~RunsG(d)
    BY <2>1, <2>2 DEF RunsG
  <2>5. pc' = [pc EXCEPT !["second"] = "g"] /\ UNCHANGED finished
    BY <1>3, <2>1 DEF SecondLoad
  <2>6. QED
    BY <2>1, <2>2, <2>3, <2>4, <2>5, Begins
<1>4. CASE SecondLoad /\ pc'["second"] # "g"
  BY <1>4, Invisible DEF SecondLoad, RunsG
<1>5. QED
  BY <1>1, <1>2, <1>3, <1>4

\* Every step is one of InOrderExecution, or shows nothing.
LEMMA StepInOrder ==
  PInv /\ [Next]_vars => [Abs!AbsNext]_(Abs!absVars)
<1> SUFFICES ASSUME PInv, [Next]_vars
             PROVE  Abs!AbsNext \/ UNCHANGED Abs!absVars
  OBVIOUS
<1> USE DEF PInv, TypeOK, Callers, Goto
<1>1. CASE CallFirst \/ RunF \/ FReturns \/ CallSecond
             \/ \E c \in Callers : GReturns(c)
  BY <1>1, Shows
<1>2. CASE \/ SecondLoad
           \/ \E c \in Callers :
                TakeInPlace(c) \/ TakeTailCall(c) \/ RunTailCall(c)
  BY <1>2, TowardsG
<1>3. CASE FirstLoad \/ FirstCasFails
  BY <1>3, Invisible DEF FirstLoad, FirstCasFails, FirstDispatch, RunsG
<1>4. CASE FirstCasSucceeds \/ SecondCasSucceeds
  BY <1>4, Invisible DEF FirstCasSucceeds, SecondCasSucceeds, RunsG
<1>5. CASE SecondStore \/ SecondCasFails
  BY <1>5, Invisible DEF SecondStore, SecondCasFails, RunsG
<1>6. CASE UNCHANGED vars
  BY <1>6, Invisible DEF vars, RunsG
<1>7. QED
  BY <1>1, <1>2, <1>3, <1>4, <1>5, <1>6 DEF Next, First, Second, RunStored

(* The pair runs f, then g, each once, whichever of the two callers comes   *)
(* first and whichever runs g: a pair is in-order execution of two actions, *)
(* without the promise of progress (ordered_action_pair.h).                 *)
THEOREM RunsInOrder == Spec => Abs!AbsSpec
<1>1. Init => Abs!AbsInit
  BY DEF Init, Abs!AbsInit, Callers, RunsG
<1>2. QED
  BY <1>1, StepInOrder, Invariance, PTL DEF Spec, Abs!AbsSpec
=============================================================================
