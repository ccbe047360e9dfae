--------------------- MODULE OrderedActionSequenceProofs ---------------------
(***************************************************************************)
(* Proofs about OrderedActionSequence, for every number N of actions:      *)
(* IInv is inductive (one lemma per action, one step per conjunct), the    *)
(* safety properties follow from it, and each step is a step of            *)
(* InOrderExecution or invisible to it.                                    *)
(***************************************************************************)
EXTENDS OrderedActionSequence, TLAPS

\* Where the numbers of pairs, wrappers and the empty call lie.
LEMMA Numbering ==
  /\ 0 \in Pairs /\ NoCall \in Pairs /\ N \in Actions /\ N \in Pairs
  /\ \A w \in Actions : /\ w \in Pairs /\ w - 1 \in Pairs /\ w # NoCall
                        /\ (w - 1) + 1 = w /\ (w + 1) - 1 = w /\ w - 1 # N
                        /\ w # N => w + 1 \in Actions
  /\ \A v, w \in Actions : v - 1 = w - 1 => v = w
  BY NAssumption DEF Actions, Pairs, NoCall

\* The three values of OrderedActionPair::PossibleStates are distinct.
LEMMA StateValues ==
  /\ kInitial \in PairStates /\ kRunFirstCallsSecond \in PairStates
  /\ kRunSecondCallsSecond \in PairStates
  /\ kInitial # kRunFirstCallsSecond /\ kInitial # kRunSecondCallsSecond
  /\ kRunFirstCallsSecond # kRunSecondCallsSecond
  /\ \A s \in PairStates :
       s = kInitial \/ s = kRunFirstCallsSecond \/ s = kRunSecondCallsSecond
  BY DEF PairStates, kInitial, kRunFirstCallsSecond, kRunSecondCallsSecond

\* The front of the sequence is at one place.
LEMMA FrontUnique ==
  ASSUME NEW a \in Actions, NEW b \in Actions, Front(a), Front(b)
  PROVE  a = b
  BY NAssumption DEF Front, Actions

\* An action at the front has not run; one just before the front has.
LEMMA FrontMembers ==
  ASSUME NEW a \in Actions
  PROVE  (Front(a) => a \notin finished) /\ (Front(a + 1) => a \in finished)
  BY NAssumption DEF Front, Actions

\* Running the action at the front moves the front by one.
LEMMA FrontAdvances ==
  ASSUME NEW a \in Actions, Front(a), finished' = finished \cup {a}
  PROVE  Front(a + 1)'
  BY NAssumption DEF Front, Actions

\* A step of an invocation keeps the types, given where tc and depth stand.
LEMMA TypeStep ==
  ASSUME NEW w \in Actions, TypeOK, Wrapper(w),
         pc[w] \in {"call", "action", "first_load", "first_loop", "first_take"}
           => tc[w] \in Actions,
         pc[w] \in {"first_loop", "first_take"} => depth[w] = 1
  PROVE  TypeOK'
<1> USE Numbering, StateValues DEF TypeOK, Goto, PCs
<1>1. CASE Invoke(w)
  BY <1>1 DEF Invoke
<1>2. CASE SecondLoad(w)
  BY <1>2 DEF SecondLoad, ReturnTC
<1>3. CASE SecondStore(w)
  BY <1>3 DEF SecondStore
<1>4. CASE SecondCasSucceeds(w)
  BY <1>4 DEF SecondCasSucceeds, ReturnTC
<1>5. CASE SecondCasFails(w)
  BY <1>5 DEF SecondCasFails
<1>6. CASE SecondTake(w)
  BY <1>6 DEF SecondTake, ReturnTC
<1>7. CASE Call(w)
  BY <1>7 DEF Call
<1>8. CASE ActionReturns(w)
  BY <1>8 DEF ActionReturns
<1>9. CASE FirstLoad(w)
  BY <1>9 DEF FirstLoad, FirstDispatch
<1>10. CASE FirstCasSucceeds(w)
  BY <1>10 DEF FirstCasSucceeds, ReturnTC
<1>11. CASE FirstCasFails(w)
  BY <1>11 DEF FirstCasFails, FirstDispatch
<1>12. CASE FirstTake(w)
  BY <1>12 DEF FirstTake, ReturnTC
<1>13. QED
  BY <1>1, <1>2, <1>3, <1>4, <1>5, <1>6, <1>7, <1>8, <1>9, <1>10, <1>11, <1>12
     DEF Wrapper, RunSecondTC, RunFirstTC

\* Invoking a wrapper preserves the inductive invariant.
LEMMA InvokeInv ==
  ASSUME NEW w \in Actions, IInv, Invoke(w)
  PROVE  IInv'
<1> USE Numbering, StateValues DEF IInv, Invoke, Goto
<1>1. TypeOK'
  BY TypeStep DEF BatonAtFront, FrameWhileCalled, Wrapper, RunSecondTC,
     RunFirstTC
<1>2. OneBaton'
  BY DEF TypeOK, OneBaton, HasBaton
<1>3. BatonAtFront'
  BY DEF TypeOK, BatonAtFront, OneBaton, HasBaton, Front
<1>4. BatonAtRest'
  BY DEF TypeOK, BatonAtRest, HasBaton, Undecided, Front
<1>5. StoredUntilTaken'
  BY DEF TypeOK, StoredUntilTaken, Takes
<1>6. BeforeDecision'
  BY DEF TypeOK, BeforeDecision, Undecided, Takes
<1>7. AfterDecision'
  BY DEF TypeOK, AfterDecision, Undecided, Takes, Parked
<1>8. WhatFirstSaw'
  BY DEF TypeOK, WhatFirstSaw
<1>9. FrameWhileCalled'
  BY DEF TypeOK, FrameWhileCalled
<1>10. QED
  BY <1>1, <1>2, <1>3, <1>4, <1>5, <1>6, <1>7, <1>8, <1>9

\* RunSecondTC's load preserves it: it takes the baton only from a pair at rest.
LEMMA SecondLoadInv ==
  ASSUME NEW w \in Actions, IInv, SecondLoad(w)
  PROVE  IInv'
<1> USE Numbering, StateValues DEF IInv, SecondLoad, Goto, ReturnTC
<1>1. TypeOK'
  BY TypeStep DEF BatonAtFront, FrameWhileCalled, Wrapper, RunSecondTC,
     RunFirstTC
<1>2. OneBaton'
  BY DEF TypeOK, OneBaton, HasBaton, BatonAtRest, Undecided
<1>3. BatonAtFront'
  BY DEF TypeOK, BatonAtFront, OneBaton, HasBaton, BatonAtRest, Undecided,
     Front
<1>4. BatonAtRest'
  BY FrontUnique DEF TypeOK, BatonAtRest, HasBaton, Undecided, Front
<1>5. StoredUntilTaken'
  BY DEF TypeOK, StoredUntilTaken, Takes, BeforeDecision, Undecided
<1>6. BeforeDecision'
  BY DEF TypeOK, BeforeDecision, Undecided, Takes, StoredUntilTaken
<1>7. AfterDecision'
  BY DEF TypeOK, AfterDecision, Undecided, Takes, Parked
<1>8. WhatFirstSaw'
  BY DEF TypeOK, WhatFirstSaw
<1>9. FrameWhileCalled'
  BY DEF TypeOK, FrameWhileCalled
<1>10. QED
  BY <1>1, <1>2, <1>3, <1>4, <1>5, <1>6, <1>7, <1>8, <1>9

\* RunSecondTC's store preserves it: the first side cannot be reading second_.
LEMMA SecondStoreInv ==
  ASSUME NEW w \in Actions, IInv, SecondStore(w)
  PROVE  IInv'
<1> USE Numbering, StateValues DEF IInv, SecondStore, Goto
<1>1. TypeOK'
  BY TypeStep DEF BatonAtFront, FrameWhileCalled, Wrapper, RunSecondTC,
     RunFirstTC
<1>2. OneBaton'
  BY DEF TypeOK, OneBaton, HasBaton
<1>3. BatonAtFront'
  BY DEF TypeOK, BatonAtFront, OneBaton, HasBaton, Front
<1>4. BatonAtRest'
  BY DEF TypeOK, BatonAtRest, HasBaton, Undecided, Front
<1>5. StoredUntilTaken'
  BY DEF TypeOK, StoredUntilTaken, Takes, BeforeDecision, Undecided
<1>6. BeforeDecision'
  BY DEF TypeOK, BeforeDecision, Undecided, Takes, StoredUntilTaken
<1>7. AfterDecision'
  BY DEF TypeOK, AfterDecision, Undecided, Takes, Parked, BeforeDecision
<1>8. WhatFirstSaw'
  BY DEF TypeOK, WhatFirstSaw
<1>9. FrameWhileCalled'
  BY DEF TypeOK, FrameWhileCalled
<1>10. QED
  BY <1>1, <1>2, <1>3, <1>4, <1>5, <1>6, <1>7, <1>8, <1>9

\* RunSecondTC's successful exchange preserves it: the action is now parked.
LEMMA SecondCasSucceedsInv ==
  ASSUME NEW w \in Actions, IInv, SecondCasSucceeds(w)
  PROVE  IInv'
<1> USE Numbering, StateValues DEF IInv, SecondCasSucceeds, Goto, ReturnTC
<1>1. TypeOK'
  BY TypeStep DEF BatonAtFront, FrameWhileCalled, Wrapper, RunSecondTC,
     RunFirstTC
<1>2. OneBaton'
  BY DEF TypeOK, OneBaton, HasBaton
<1>3. BatonAtFront'
  BY DEF TypeOK, BatonAtFront, OneBaton, HasBaton, Front
<1>4. BatonAtRest'
  BY DEF TypeOK, BatonAtRest, HasBaton, Undecided, Front
<1>5. StoredUntilTaken'
  BY DEF TypeOK, StoredUntilTaken, Takes, BeforeDecision, Undecided
<1>6. BeforeDecision'
  BY DEF TypeOK, BeforeDecision, Undecided, Takes
<1>7. AfterDecision'
  BY DEF TypeOK, AfterDecision, Undecided, Takes, Parked, BeforeDecision
<1>8. WhatFirstSaw'
  BY DEF TypeOK, WhatFirstSaw, BeforeDecision
<1>9. FrameWhileCalled'
  BY DEF TypeOK, FrameWhileCalled
<1>10. QED
  BY <1>1, <1>2, <1>3, <1>4, <1>5, <1>6, <1>7, <1>8, <1>9

\* RunSecondTC's failed exchange preserves it: it may find the baton at rest.
LEMMA SecondCasFailsInv ==
  ASSUME NEW w \in Actions, IInv, SecondCasFails(w)
  PROVE  IInv'
<1> USE Numbering, StateValues DEF IInv, SecondCasFails, Goto
<1>1. TypeOK'
  BY TypeStep DEF BatonAtFront, FrameWhileCalled, Wrapper, RunSecondTC,
     RunFirstTC
<1>2. OneBaton'
  BY DEF TypeOK, OneBaton, HasBaton, BatonAtRest, Undecided
<1>3. BatonAtFront'
  BY DEF TypeOK, BatonAtFront, OneBaton, HasBaton, BatonAtRest, Undecided,
     Front
<1>4. BatonAtRest'
  BY FrontUnique DEF TypeOK, BatonAtRest, HasBaton, Undecided, Front
<1>5. StoredUntilTaken'
  BY DEF TypeOK, StoredUntilTaken, Takes
<1>6. BeforeDecision'
  BY DEF TypeOK, BeforeDecision, Undecided, Takes, StoredUntilTaken
<1>7. AfterDecision'
  BY DEF TypeOK, AfterDecision, Undecided, Takes, Parked
<1>8. WhatFirstSaw'
  BY DEF TypeOK, WhatFirstSaw
<1>9. FrameWhileCalled'
  BY DEF TypeOK, FrameWhileCalled
<1>10. QED
  BY <1>1, <1>2, <1>3, <1>4, <1>5, <1>6, <1>7, <1>8, <1>9

\* RunSecondTC taking its own action back preserves it.
LEMMA SecondTakeInv ==
  ASSUME NEW w \in Actions, IInv, SecondTake(w)
  PROVE  IInv'
<1> USE Numbering, StateValues DEF IInv, SecondTake, Goto, ReturnTC
<1>1. TypeOK'
  BY TypeStep DEF BatonAtFront, FrameWhileCalled, Wrapper, RunSecondTC,
     RunFirstTC
<1>2. OneBaton'
  BY DEF TypeOK, OneBaton, HasBaton
<1>3. BatonAtFront'
  BY DEF TypeOK, BatonAtFront, OneBaton, HasBaton, BeforeDecision, Undecided,
     Front
<1>4. BatonAtRest'
  BY DEF TypeOK, BatonAtRest, HasBaton, Undecided, Front
<1>5. StoredUntilTaken'
  BY DEF TypeOK, StoredUntilTaken, Takes, BeforeDecision, Undecided
<1>6. BeforeDecision'
  BY DEF TypeOK, BeforeDecision, Undecided, Takes, OneBaton, HasBaton
<1>7. AfterDecision'
  BY DEF TypeOK, AfterDecision, Undecided, Takes, Parked, BeforeDecision,
     StoredUntilTaken
<1>8. WhatFirstSaw'
  BY DEF TypeOK, WhatFirstSaw
<1>9. FrameWhileCalled'
  BY DEF TypeOK, FrameWhileCalled
<1>10. QED
  BY <1>1, <1>2, <1>3, <1>4, <1>5, <1>6, <1>7, <1>8, <1>9

\* The trampoline's call of tc preserves it.
LEMMA CallInv ==
  ASSUME NEW w \in Actions, IInv, Call(w)
  PROVE  IInv'
<1> USE Numbering, StateValues DEF IInv, Call, Goto
<1>1. TypeOK'
  BY TypeStep DEF BatonAtFront, FrameWhileCalled, Wrapper, RunSecondTC,
     RunFirstTC
<1>2. OneBaton'
  BY DEF TypeOK, OneBaton, HasBaton
<1>3. BatonAtFront'
  BY DEF TypeOK, BatonAtFront, OneBaton, HasBaton, Front
<1>4. BatonAtRest'
  BY DEF TypeOK, BatonAtRest, HasBaton, Undecided, Front
<1>5. StoredUntilTaken'
  BY DEF TypeOK, StoredUntilTaken, Takes
<1>6. BeforeDecision'
  BY DEF TypeOK, BeforeDecision, Undecided, Takes
<1>7. AfterDecision'
  BY DEF TypeOK, AfterDecision, Undecided, Takes, Parked
<1>8. WhatFirstSaw'
  BY DEF TypeOK, WhatFirstSaw
<1>9. FrameWhileCalled'
  BY DEF TypeOK, FrameWhileCalled
<1>10. QED
  BY <1>1, <1>2, <1>3, <1>4, <1>5, <1>6, <1>7, <1>8, <1>9

\* The return of an action preserves it: the front moves by one.
LEMMA ActionReturnsInv ==
  ASSUME NEW w \in Actions, IInv, ActionReturns(w)
  PROVE  IInv'
<1> USE Numbering, StateValues DEF IInv, ActionReturns, Goto
<1>1. TypeOK'
  BY TypeStep DEF BatonAtFront, FrameWhileCalled, Wrapper, RunSecondTC,
     RunFirstTC
<1>2. OneBaton'
  BY DEF TypeOK, OneBaton, HasBaton
<1>3. BatonAtFront'
  BY FrontAdvances DEF TypeOK, BatonAtFront, OneBaton, HasBaton
<1>4. BatonAtRest'
  BY DEF TypeOK, BatonAtRest, HasBaton, Undecided
<1>5. StoredUntilTaken'
  BY DEF TypeOK, StoredUntilTaken, Takes, BatonAtFront
<1>6. BeforeDecision'
  BY DEF TypeOK, BeforeDecision, Undecided, Takes, BatonAtFront
<1>7. AfterDecision'
  BY DEF TypeOK, AfterDecision, Undecided, Takes, Parked
<1>8. WhatFirstSaw'
  BY DEF TypeOK, WhatFirstSaw
<1>9. FrameWhileCalled'
  BY DEF TypeOK, FrameWhileCalled
<1>10. QED
  BY <1>1, <1>2, <1>3, <1>4, <1>5, <1>6, <1>7, <1>8, <1>9

\* RunFirstTC's load preserves it.
LEMMA FirstLoadInv ==
  ASSUME NEW w \in Actions, IInv, FirstLoad(w)
  PROVE  IInv'
<1> USE Numbering, StateValues DEF IInv, FirstLoad, Goto, FirstDispatch
<1>1. TypeOK'
  BY TypeStep DEF BatonAtFront, FrameWhileCalled, Wrapper, RunSecondTC,
     RunFirstTC
<1>2. OneBaton'
  BY DEF TypeOK, OneBaton, HasBaton
<1>3. BatonAtFront'
  BY DEF TypeOK, BatonAtFront, OneBaton, HasBaton, Front
<1>4. BatonAtRest'
  BY DEF TypeOK, BatonAtRest, HasBaton, Undecided, Front
<1>5. StoredUntilTaken'
  BY DEF TypeOK, StoredUntilTaken, Takes
<1>6. BeforeDecision'
  BY DEF TypeOK, BeforeDecision, Undecided, Takes
<1>7. AfterDecision'
  BY DEF TypeOK, AfterDecision, Undecided, Takes, Parked
<1>8. WhatFirstSaw'
  BY DEF TypeOK, WhatFirstSaw, BatonAtFront
<1>9. FrameWhileCalled'
  BY DEF TypeOK, FrameWhileCalled
<1>10. QED
  BY <1>1, <1>2, <1>3, <1>4, <1>5, <1>6, <1>7, <1>8, <1>9

\* RunFirstTC's successful exchange preserves it: the baton is left in the pair.
LEMMA FirstCasSucceedsInv ==
  ASSUME NEW w \in Actions, IInv, FirstCasSucceeds(w)
  PROVE  IInv'
<1> USE Numbering, StateValues DEF IInv, FirstCasSucceeds, Goto, ReturnTC
<1>1. TypeOK'
  BY TypeStep DEF BatonAtFront, FrameWhileCalled, Wrapper, RunSecondTC,
     RunFirstTC
<1>2. OneBaton'
  BY DEF TypeOK, OneBaton, HasBaton
<1>3. BatonAtFront'
  BY DEF TypeOK, BatonAtFront, OneBaton, HasBaton, Front
<1>4. BatonAtRest'
  BY DEF TypeOK, BatonAtRest, HasBaton, Undecided, BatonAtFront, OneBaton,
     Front
<1>5. StoredUntilTaken'
  BY DEF TypeOK, StoredUntilTaken, Takes
<1>6. BeforeDecision'
  BY DEF TypeOK, BeforeDecision, Undecided, Takes
<1>7. AfterDecision'
  BY DEF TypeOK, AfterDecision, Undecided, Takes, Parked, WhatFirstSaw,
     BatonAtFront
<1>8. WhatFirstSaw'
  BY DEF TypeOK, WhatFirstSaw, OneBaton, HasBaton
<1>9. FrameWhileCalled'
  BY DEF TypeOK, FrameWhileCalled
<1>10. QED
  BY <1>1, <1>2, <1>3, <1>4, <1>5, <1>6, <1>7, <1>8, <1>9

\* RunFirstTC's failed exchange preserves it.
LEMMA FirstCasFailsInv ==
  ASSUME NEW w \in Actions, IInv, FirstCasFails(w)
  PROVE  IInv'
<1> USE Numbering, StateValues DEF IInv, FirstCasFails, Goto, FirstDispatch
<1>1. TypeOK'
  BY TypeStep DEF BatonAtFront, FrameWhileCalled, Wrapper, RunSecondTC,
     RunFirstTC
<1>2. OneBaton'
  BY DEF TypeOK, OneBaton, HasBaton
<1>3. BatonAtFront'
  BY DEF TypeOK, BatonAtFront, OneBaton, HasBaton, Front
<1>4. BatonAtRest'
  BY DEF TypeOK, BatonAtRest, HasBaton, Undecided, Front
<1>5. StoredUntilTaken'
  BY DEF TypeOK, StoredUntilTaken, Takes
<1>6. BeforeDecision'
  BY DEF TypeOK, BeforeDecision, Undecided, Takes
<1>7. AfterDecision'
  BY DEF TypeOK, AfterDecision, Undecided, Takes, Parked
<1>8. WhatFirstSaw'
  BY DEF TypeOK, WhatFirstSaw, BatonAtFront
<1>9. FrameWhileCalled'
  BY DEF TypeOK, FrameWhileCalled
<1>10. QED
  BY <1>1, <1>2, <1>3, <1>4, <1>5, <1>6, <1>7, <1>8, <1>9

\* RunFirstTC taking the parked action preserves it: it is the next one.
LEMMA FirstTakeInv ==
  ASSUME NEW w \in Actions, IInv, FirstTake(w)
  PROVE  IInv'
<1> USE Numbering, StateValues DEF IInv, FirstTake, Goto, ReturnTC
<1>parked. /\ tc[w] \in Actions /\ Front(tc[w] + 1) /\ tc[w] # N
      /\ tc[w] + 1 \in Actions /\ (tc[w] + 1) - 1 = tc[w]
      /\ pc[tc[w] + 1] = "done"
  BY DEF BatonAtFront, WhatFirstSaw, StoredUntilTaken
<1>stored. second_[tc[w]] = tc[w] + 1
  <2>1. tc[w] + 1 \notin finished
    BY <1>parked, FrontMembers
  <2>2. \A v \in Actions : ~Takes(v, tc[w] + 1)
    BY <1>parked DEF OneBaton, HasBaton, Takes
  <2>3. QED
    BY <1>parked, <2>1, <2>2 DEF StoredUntilTaken, WhatFirstSaw
<1>1. TypeOK'
  BY TypeStep DEF BatonAtFront, FrameWhileCalled, Wrapper, RunSecondTC,
     RunFirstTC
<1>2. OneBaton'
  BY <1>parked, <1>stored DEF TypeOK, OneBaton, HasBaton
<1>3. BatonAtFront'
  BY <1>parked, <1>stored DEF TypeOK, BatonAtFront, OneBaton, HasBaton, WhatFirstSaw,
     StoredUntilTaken, Takes, Front
<1>4. BatonAtRest'
  BY <1>parked, <1>stored DEF TypeOK, BatonAtRest, HasBaton, Undecided, BatonAtFront,
     OneBaton, Front
<1>5. StoredUntilTaken'
  BY <1>parked, <1>stored DEF TypeOK, StoredUntilTaken, Takes, WhatFirstSaw,
     BatonAtFront, OneBaton
<1>6. BeforeDecision'
  BY <1>parked, <1>stored DEF TypeOK, BeforeDecision, Undecided, Takes, WhatFirstSaw,
     StoredUntilTaken, BatonAtFront
<1>7. AfterDecision'
  BY <1>parked, <1>stored DEF TypeOK, AfterDecision, Undecided, Takes, Parked,
     WhatFirstSaw, StoredUntilTaken, BatonAtFront
<1>8. WhatFirstSaw'
  BY <1>parked, <1>stored DEF TypeOK, WhatFirstSaw
<1>9. FrameWhileCalled'
  BY <1>parked, <1>stored DEF TypeOK, FrameWhileCalled
<1>10. QED
  BY <1>1, <1>2, <1>3, <1>4, <1>5, <1>6, <1>7, <1>8, <1>9

\* The constructed sequence satisfies the inductive invariant.
LEMMA InitInv == Init => IInv
<1> SUFFICES ASSUME Init PROVE IInv
  OBVIOUS
<1> USE Numbering, StateValues DEF Init
<1>1. TypeOK
  BY NAssumption DEF TypeOK, PCs
<1>2. OneBaton /\ BatonAtFront /\ WhatFirstSaw /\ FrameWhileCalled
  BY DEF OneBaton, BatonAtFront, WhatFirstSaw, FrameWhileCalled, HasBaton
<1>3. BatonAtRest
  <2>1. \A w \in Actions : w - 1 = 0 => \A b \in Actions : ~(b < w)
    BY NAssumption DEF Actions
  <2>2. QED
    BY <2>1 DEF BatonAtRest, HasBaton, Undecided, Front
<1>4. StoredUntilTaken
  BY NAssumption DEF StoredUntilTaken
<1>5. BeforeDecision /\ AfterDecision
  BY DEF BeforeDecision, AfterDecision, Undecided, Takes
<1>6. QED
  BY <1>1, <1>2, <1>3, <1>4, <1>5 DEF IInv

\* Every step preserves the inductive invariant.
LEMMA StepInv == IInv /\ [Next]_vars => IInv'
<1> SUFFICES ASSUME IInv, [Next]_vars PROVE IInv'
  OBVIOUS
<1>1. ASSUME UNCHANGED vars PROVE IInv'
  BY <1>1 DEF vars, IInv, TypeOK, OneBaton, HasBaton, BatonAtFront, Front,
     BatonAtRest, StoredUntilTaken, Undecided, BeforeDecision, Takes,
     AfterDecision, Parked, WhatFirstSaw, FrameWhileCalled
<1>2. ASSUME WrapNext PROVE IInv'
  <2>1. wrapped' \in 0..N
    BY <1>2, NAssumption DEF IInv, TypeOK, WrapNext
  <2>2. QED
    BY <1>2, <2>1 DEF WrapNext, IInv, TypeOK, OneBaton, HasBaton, BatonAtFront,
       Front, BatonAtRest, StoredUntilTaken, Undecided, BeforeDecision, Takes,
       AfterDecision, Parked, WhatFirstSaw, FrameWhileCalled
<1>3. ASSUME NEW w \in Actions, Wrapper(w) PROVE IInv'
  BY <1>3, InvokeInv, SecondLoadInv, SecondStoreInv, SecondCasSucceedsInv,
     SecondCasFailsInv, SecondTakeInv, CallInv, ActionReturnsInv, FirstLoadInv,
     FirstCasSucceedsInv, FirstCasFailsInv, FirstTakeInv
     DEF Wrapper, RunSecondTC, RunFirstTC
<1>4. QED
  BY <1>1, <1>2, <1>3 DEF Next, Terminating

\* Every reachable state satisfies the inductive invariant.
THEOREM Invariance == Spec => []IInv
<1>1. QED
  BY InitInv, StepInv, PTL DEF Spec

\* The variables keep their types: in particular a frame is popped only when
\* one was pushed.
THEOREM TypeCorrect == Spec => []TypeOK
<1>1. IInv => TypeOK
  BY DEF IInv
<1>2. QED
  BY <1>1, Invariance, PTL

\* For every number of actions and every order of invocation, an action runs
\* when exactly the actions before it have run (WrapNext).
THEOREM RunsInOrder == Spec => []InOrder
<1>1. IInv => InOrder
  <2> SUFFICES ASSUME IInv, NEW w \in Actions, Running(w)
               PROVE  finished = 1..(tc[w] - 1)
    BY DEF InOrder
  <2>1. tc[w] \in Actions /\ Front(tc[w]) /\ finished \subseteq Actions
    BY DEF IInv, BatonAtFront, TypeOK, Running
  <2>2. tc[w] \in Nat /\ tc[w] <= N /\ N \in Nat
    BY <2>1, NAssumption DEF Actions
  <2>3. ASSUME NEW b \in finished PROVE b \in 1..(tc[w] - 1)
    <3>1. b \in Actions /\ b < tc[w]
      BY <2>1 DEF Front
    <3>2. QED
      BY <2>2, <3>1 DEF Actions
  <2>4. ASSUME NEW b \in 1..(tc[w] - 1) PROVE b \in finished
    <3>1. b \in Actions /\ b < tc[w]
      BY <2>2 DEF Actions
    <3>2. QED
      BY <2>1, <3>1 DEF Front
  <2>5. QED
    BY <2>3, <2>4
<1>2. QED
  BY <1>1, Invariance, PTL

\* At most one invocation is at the front of the sequence, so no two actions
\* ever run at the same time.
THEOREM OneAtTheFront == Spec => []OneBaton
<1>1. IInv => OneBaton
  BY DEF IInv
<1>2. QED
  BY <1>1, Invariance, PTL

\* The unlocked accesses to OrderedActionPair::second_ never overlap.
THEOREM SecondIsNotRaced == Spec => []NoRaceOnSecond
<1>1. IInv => NoRaceOnSecond
  <2> SUFFICES ASSUME IInv, NEW v \in Actions, NEW w \in Actions,
                      NEW a \in Pairs, Accesses(v, a), Accesses(w, a)
               PROVE  v = w
    BY DEF NoRaceOnSecond
  <2>1. CASE pc[v] = "first_take" /\ pc[w] = "first_take"
    BY <2>1 DEF IInv, OneBaton, HasBaton
  <2>2. CASE pc[v] # "first_take" /\ pc[w] # "first_take"
    BY <2>2, Numbering DEF Accesses
  <2>3. ASSUME NEW x \in Actions, NEW y \in Actions,
               Accesses(x, a), Accesses(y, a),
               pc[x] = "first_take", pc[y] # "first_take"
        PROVE  FALSE
    <3>1. state_[y - 1] = kRunFirstCallsSecond
      BY <2>3 DEF IInv, WhatFirstSaw, Accesses
    <3>2. pc[y] = "done"
      BY <3>1 DEF IInv, StoredUntilTaken
    <3>3. QED
      BY <2>3, <3>2 DEF Accesses
  <2>4. QED
    BY <2>1, <2>2, <2>3
<1>2. QED
  BY <1>1, Invariance, PTL

\* An invoked action is neither dropped nor run twice.
THEOREM EachActionHasOneOwner == Spec => []OneOwner
<1>1. IInv => OneOwner
  <2> SUFFICES ASSUME IInv PROVE OneOwner
    OBVIOUS
  <2>1. ASSUME NEW a \in Actions, NEW w \in Actions, Holds(w, a)
        PROVE  a \notin finished /\ ~Parked(a)
    <3>1. CASE Takes(w, a)
      BY <3>1, FrontMembers
         DEF IInv, BatonAtFront, StoredUntilTaken, Parked, Takes
    <3>2. CASE ~Takes(w, a)
      BY <2>1, <3>2 DEF Holds, Takes, Undecided, IInv, BeforeDecision,
                        StoredUntilTaken, Parked
    <3>3. QED
      BY <3>1, <3>2
  <2>2. ASSUME NEW a \in Actions, NEW v \in Actions, NEW w \in Actions,
               Holds(v, a), Holds(w, a)
        PROVE  v = w
    BY <2>2 DEF Holds, IInv, OneBaton, HasBaton, BeforeDecision, Undecided,
       Takes
  <2>3. ASSUME NEW a \in Actions, Parked(a) PROVE a \notin finished
    BY <2>3 DEF IInv, StoredUntilTaken, Parked
  <2>4. ASSUME NEW a \in Actions, pc[a] # "idle", a \notin finished, ~Parked(a)
        PROVE  \E w \in Actions : Holds(w, a)
    BY <2>4 DEF IInv, AfterDecision, Undecided, Takes, Holds
  <2>5. QED
    BY <2>1, <2>2, <2>3, <2>4 DEF OneOwner
<1>2. QED
  BY <1>1, Invariance, PTL

\* Deferred actions never pile up on a thread's stack.
THEOREM StackStaysBounded == Spec => []StackBounded
<1>1. IInv => StackBounded
  BY DEF IInv, FrameWhileCalled, StackBounded
<1>2. QED
  BY <1>1, Invariance, PTL

---------------------------------------------------------------------------
(* The sequence implements InOrderExecution.                                *)

\* At most one action is being run.
LEMMA RunningOne ==
  ASSUME IInv, NEW w \in Actions, Running(w)
  PROVE  {tc[v] : v \in {x \in Actions : Running(x)}} = {tc[w]}
  BY DEF IInv, OneBaton, HasBaton, Running

\* Nor is any while the one at the front is between two actions.
LEMMA RunningNone ==
  ASSUME IInv, NEW w \in Actions, HasBaton(w), ~Running(w)
  PROVE  {tc[v] : v \in {x \in Actions : Running(x)}} = {}
  BY DEF IInv, OneBaton, HasBaton, Running

\* Calling tc starts that action.
LEMMA CallStarts ==
  ASSUME IInv, NEW w \in Actions, NEW a \in Actions, a = tc[w], Call(w)
  PROVE  Abs!Start(a)
<1>1. Front(a) /\ pc[a] # "idle"
  BY DEF IInv, BatonAtFront, BeforeDecision, Undecided, Takes, Call
<1>2. {tc[v] : v \in {x \in Actions : Running(x)}} = {}
  BY RunningNone DEF Call, HasBaton, Running
<1>3. /\ IInv'
      /\ Running(w)'
      /\ UNCHANGED <<tc, finished>>
  BY CallInv DEF Call, Goto, Running, IInv, TypeOK
<1>4. {tc[v] : v \in {x \in Actions : Running(x)}}' = {a}
  BY <1>3 DEF IInv, OneBaton, HasBaton, Running
<1>5. UNCHANGED {v \in Actions : pc[v] # "idle"}
  BY DEF IInv, TypeOK, Call, Goto
<1>6. a \notin finished /\ \A b \in 1..(a - 1) : b \in finished
  BY <1>1, NAssumption DEF Front, Actions
<1>7. QED
  BY <1>1, <1>2, <1>3, <1>4, <1>5, <1>6 DEF Abs!Start

\* The return of an action finishes it.
LEMMA ReturnFinishes ==
  ASSUME IInv, NEW w \in Actions, NEW a \in Actions, a = tc[w],
         ActionReturns(w)
  PROVE  Abs!Finish(a)
<1>1. {tc[v] : v \in {x \in Actions : Running(x)}} = {a}
  BY RunningOne DEF ActionReturns, Running
<1>2. {tc[v] : v \in {x \in Actions : Running(x)}}' = {}
  BY DEF IInv, OneBaton, HasBaton, Running, ActionReturns, Goto, TypeOK
<1>3. UNCHANGED {v \in Actions : pc[v] # "idle"}
  BY DEF IInv, TypeOK, ActionReturns, Goto
<1>4. QED
  BY <1>1, <1>2, <1>3 DEF Abs!Finish, ActionReturns

\* Invoking a wrapper submits its action.
LEMMA InvokeSubmits ==
  ASSUME IInv, NEW w \in Actions, Invoke(w)
  PROVE  Abs!Submit(w)
<1>1. {v \in Actions : pc[v] # "idle"}'
        = {v \in Actions : pc[v] # "idle"} \cup {w}
  BY DEF IInv, TypeOK, Invoke, Goto
<1>2. UNCHANGED {tc[v] : v \in {x \in Actions : Running(x)}}
  BY DEF IInv, TypeOK, Invoke, Goto, Running
<1>3. QED
  BY <1>1, <1>2 DEF Abs!Submit, Invoke

\* Every other step of an invocation is invisible.
LEMMA HandoverStutters ==
  ASSUME IInv, NEW w \in Actions, RunSecondTC(w) \/ RunFirstTC(w)
  PROVE  UNCHANGED Abs!absVars
<1> USE DEF IInv, TypeOK, Goto, ReturnTC, FirstDispatch
<1>1. /\ UNCHANGED finished
      /\ pc[w] \notin {"idle", "action"} /\ pc'[w] \notin {"idle", "action"}
      /\ \A v \in Actions : v # w => pc'[v] = pc[v] /\ tc'[v] = tc[v]
  <2>1. CASE RunSecondTC(w)
    BY <2>1 DEF RunSecondTC, SecondLoad, SecondStore, SecondCasSucceeds,
                SecondCasFails, SecondTake
  <2>2. CASE RunFirstTC(w)
    BY <2>2 DEF RunFirstTC, FirstLoad, FirstCasSucceeds, FirstCasFails,
       FirstTake
  <2>3. QED
    BY <2>1, <2>2
<1>2. UNCHANGED {v \in Actions : pc[v] # "idle"}
  BY <1>1
<1>3. UNCHANGED {tc[v] : v \in {x \in Actions : Running(x)}}
  BY <1>1 DEF Running
<1>4. QED
  BY <1>1, <1>2, <1>3 DEF Abs!absVars

\* The safety half of ImplementsInOrder: whatever the threads do, what a caller
\* sees is the actions run one at a time, once each, in order.
THEOREM Implements == Spec => Abs!AbsSpec
<1>1. Init => Abs!AbsInit
  BY DEF Init, Abs!AbsInit, Running
<1>2. IInv /\ [Next]_vars => [Abs!AbsNext]_(Abs!absVars)
  <2> SUFFICES ASSUME IInv, [Next]_vars
               PROVE  [Abs!AbsNext]_(Abs!absVars)
    OBVIOUS
  <2>1. CASE UNCHANGED vars \/ WrapNext
    BY <2>1 DEF vars, WrapNext, Abs!absVars, Running
  <2>2. ASSUME NEW w \in Actions, Wrapper(w)
        PROVE  Abs!AbsNext \/ UNCHANGED Abs!absVars
    <3>1. CASE Invoke(w)
      BY <3>1, InvokeSubmits DEF Abs!AbsNext, Actions
    <3>2. CASE Call(w)
      <4>1. PICK a \in Actions : a = tc[w]
        BY <3>2 DEF IInv, BatonAtFront, Call
      <4>2. QED
        BY <3>2, <4>1, CallStarts DEF Abs!AbsNext, Actions
    <3>3. CASE ActionReturns(w)
      <4>1. PICK a \in Actions : a = tc[w]
        BY <3>3 DEF IInv, BatonAtFront, ActionReturns
      <4>2. QED
        BY <3>3, <4>1, ReturnFinishes DEF Abs!AbsNext, Actions
    <3>4. QED
      BY <2>2, <3>1, <3>2, <3>3, HandoverStutters DEF Wrapper
  <2>3. QED
    BY <2>1, <2>2 DEF Next, Terminating
<1>3. QED
  BY <1>1, <1>2, Invariance, PTL DEF Spec, Abs!AbsSpec
==============================================================================
