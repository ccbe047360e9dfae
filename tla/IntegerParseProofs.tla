------------------------- MODULE IntegerParseProofs -------------------------
(***************************************************************************)
(* The integer visitor, for every Integer and both bases: a number that    *)
(* fits is delivered exactly.  The inductive invariant says what the value *)
(* is while the number fits; the steps are linear arithmetic, for one base *)
(* at a time.                                                              *)
(***************************************************************************)
EXTENDS IntegerParse, TLAPS

(* What is known while the number still fits. *)
Inv ==
    /\ TypeOK
    /\ written <= Max => value = written
    /\ ExactUpToMax

(* The guard of line 54 lets no product overflow, and refuses only numbers *)
(* above Max.                                                              *)
LEMMA Quotient ==
    ASSUME NEW v \in Nat
    PROVE  /\ v <= Max \div Base => v * Base <= Max
           /\ v > Max \div Base  => v * Base > Max
<1>1. CASE Base = 10 BY <1>1, MaxAssumption, SMT
<1>2. CASE Base = 16 BY <1>2, MaxAssumption, SMT
<1> QED BY <1>1, <1>2, BaseAssumption

(* Digits are read into naturals, and more of them into no smaller ones.   *)
LEMMA NextWritten ==
    ASSUME NEW w \in Nat, NEW d \in Digits
    PROVE  w * Base + d \in Nat /\ w * Base + d >= w /\ w * Base \in Nat
<1>1. CASE Base = 10 BY <1>1, SMT DEF Digits
<1>2. CASE Base = 16 BY <1>2, SMT DEF Digits
<1> QED BY <1>1, <1>2, BaseAssumption

(* Whatever overflow leaves is a value of the type; no overflow is exact.  *)
LEMMA ResultsInInteger ==
    ASSUME NEW x, NEW r \in Results(x)
    PROVE  r \in Integer /\ (x \in Integer => r = x)
BY DEF Results

(* A digit is added to the value that the guard has admitted. *)
LEMMA DigitStep ==
    ASSUME Inv, NEW d \in Digits, Digit(d)
    PROVE  Inv'
<1> USE MaxAssumption, LengthAssumption
<1>1. value' \in Integer
  BY ResultsInInteger DEF Digit
<1>2. written' \in Nat /\ written' >= written
  BY NextWritten DEF Digit, Inv, TypeOK
<1>3. TypeOK'
  BY <1>1, <1>2 DEF Digit, Inv, TypeOK, Read
<1>4. ASSUME written' <= Max PROVE value' = written'
  <2>1. written \in Nat /\ written <= Max /\ value = written
    BY <1>2, <1>4 DEF Inv, TypeOK
  <2>2. value * Base \in Nat /\ value * Base <= Max
    BY <2>1, Quotient, NextWritten DEF Digit
  <2>3. PICK product \in Results(value * Base) : value' \in Results(product + d)
    BY DEF Digit
  <2>4. product = value * Base
    BY <2>2, <2>3, ResultsInInteger DEF Integer
  <2>5. value * Base + d = written'
    BY <2>1 DEF Digit
  <2>6. value * Base + d \in Integer
    BY <1>2, <1>4, <2>5 DEF Integer
  <2> QED BY <2>3, <2>4, <2>5, <2>6, ResultsInInteger
<1>5. outcome' = "reading"
  BY DEF Digit, Read
<1> QED BY <1>3, <1>4, <1>5 DEF Inv, ExactUpToMax

(* Only a number above Max is refused. *)
LEMMA RefuseStep ==
    ASSUME Inv, NEW d \in Digits, Refuse(d)
    PROVE  Inv'
<1> USE MaxAssumption, LengthAssumption
<1>1. written' \in Nat /\ written' >= written
  BY NextWritten DEF Refuse, Inv, TypeOK
<1>2. written' > Max
  <2>1. CASE written > Max
    BY <2>1, <1>1 DEF Inv, TypeOK
  <2>2. CASE written <= Max
    <3>1. value = written /\ value \in Nat
      BY <2>2 DEF Inv, TypeOK
    <3>2. value * Base > Max /\ value * Base \in Nat
      BY <3>1, Quotient, NextWritten DEF Refuse
    <3> QED BY <3>1, <3>2 DEF Refuse, Digits
  <2> QED BY <2>1, <2>2 DEF Inv, TypeOK
<1>3. TypeOK'
  BY <1>1 DEF Refuse, Inv, TypeOK, Read
<1> QED BY <1>1, <1>2, <1>3 DEF Inv, ExactUpToMax

(* What is delivered at the end is the value with its sign. *)
LEMMA FinishStep ==
    ASSUME Inv, Finish
    PROVE  Inv'
<1> USE MaxAssumption, LengthAssumption
<1>1. delivered' \in Integer /\ TypeOK'
  BY ResultsInInteger DEF Finish, Inv, TypeOK
<1>2. ASSUME written <= Max PROVE delivered' = sign * written
  <2>1. value = written /\ sign \in {1, -1} /\ written \in Nat
    BY <1>2 DEF Inv, TypeOK
  <2>2. value * sign \in Integer /\ value * sign = sign * written
    BY <2>1, <1>2 DEF Integer
  <2> QED BY <2>2, ResultsInInteger DEF Finish
<1> QED BY <1>1, <1>2 DEF Finish, Inv, ExactUpToMax

(* The sign changes no value. *)
LEMMA MinusStep ==
    ASSUME Inv, Minus
    PROVE  Inv'
BY LengthAssumption, MaxAssumption DEF Inv, TypeOK, ExactUpToMax, Minus, Read

(* The invariant holds at first and every character keeps it. *)
LEMMA InvInductive == Spec => []Inv
<1>1. Init => Inv
  BY MaxAssumption, LengthAssumption DEF Init, Inv, TypeOK, ExactUpToMax, Integer
<1>2. Inv /\ [Next]_vars => Inv'
  <2> SUFFICES ASSUME Inv, [Next]_vars PROVE Inv'
    OBVIOUS
  <2>1. CASE Minus BY <2>1, MinusStep
  <2>2. CASE Finish BY <2>2, FinishStep
  <2>3. ASSUME NEW d \in Digits, Refuse(d) PROVE Inv' BY <2>3, RefuseStep
  <2>4. ASSUME NEW d \in Digits, Digit(d) PROVE Inv' BY <2>4, DigitStep
  <2>5. CASE UNCHANGED vars BY <2>5 DEF vars, Inv, TypeOK, ExactUpToMax
  <2> QED BY <2>1, <2>2, <2>3, <2>4, <2>5 DEF Next
<1> QED BY <1>1, <1>2, PTL DEF Spec

(* The integer visitor delivers every number up to Max as it is written.   *)
THEOREM NumbersExact == Spec => []ExactUpToMax
BY InvInductive, PTL DEF Inv

(* Below the largest tenth no digit overflows. *)
LEMMA BelowTheTop ==
    ASSUME NEW v \in Nat, NEW d \in Digits, v < Max \div Base
    PROVE  v * Base + d \in Integer /\ v * Base \in Integer
<1>1. CASE Base = 10 BY <1>1, MaxAssumption, SMT DEF Digits, Integer
<1>2. CASE Base = 16 BY <1>2, MaxAssumption, SMT DEF Digits, Integer
<1> QED BY <1>1, <1>2, BaseAssumption

(* After exactly the largest tenth a digit up to Max % Base fits. *)
LEMMA AtTheTop ==
    ASSUME NEW v \in Nat, NEW d \in Digits, v = Max \div Base
    PROVE  v * Base + d \in Integer <=> d <= Max % Base
<1>1. CASE Base = 10 BY <1>1, MaxAssumption, SMT DEF Digits, Integer
<1>2. CASE Base = 16 BY <1>2, MaxAssumption, SMT DEF Digits, Integer
<1> QED BY <1>1, <1>2, BaseAssumption

(* Where the program is undefined first: as long as the value is what has  *)
(* been written, the product of line 57 fits, and the sum of line 58       *)
(* overflows with exactly the digits above Max % Base after Max \div Base. *)
THEOREM FirstOverflow ==
    Spec => [][\A d \in Digits : Digit(d) /\ value = written =>
                 /\ value * Base \in Integer
                 /\ value * Base + d \notin Integer <=>
                      value = Max \div Base /\ d > Max % Base]_vars
<1> DEFINE Step == \A d \in Digits : Digit(d) /\ value = written =>
                     /\ value * Base \in Integer
                     /\ value * Base + d \notin Integer <=>
                          value = Max \div Base /\ d > Max % Base
<1>1. Inv => Step
  <2> SUFFICES ASSUME Inv, NEW d \in Digits, Digit(d), value = written
               PROVE  /\ value * Base \in Integer
                      /\ value * Base + d \notin Integer <=>
                           value = Max \div Base /\ d > Max % Base
    OBVIOUS
  <2>1. value \in Nat /\ value <= Max \div Base
    BY DEF Digit, Inv, TypeOK
  <2>2. value * Base \in Nat /\ value * Base <= Max
    BY <2>1, Quotient, NextWritten
  <2>3. value * Base \in Integer
    BY <2>2, MaxAssumption DEF Integer
  <2>4. CASE value < Max \div Base
    <3>1. value * Base + d \in Integer
      BY <2>1, <2>4, BelowTheTop
    <3>2. Max \div Base \in Int
      BY MaxAssumption, BaseAssumption
    <3> QED BY <2>1, <2>3, <2>4, <3>1, <3>2
  <2>5. CASE value = Max \div Base
    <3>1. value * Base + d \in Integer <=> d <= Max % Base
      BY <2>1, <2>5, AtTheTop
    <3>2. Max % Base \in Int /\ d \in Int
      BY MaxAssumption, BaseAssumption DEF Digits
    <3> QED BY <2>3, <2>5, <3>1, <3>2
  <2>6. Max \div Base \in Int
    BY MaxAssumption, BaseAssumption
  <2> QED BY <2>1, <2>4, <2>5, <2>6
<1>2. Inv /\ [Next]_vars => [Step]_vars
  BY <1>1
<1> QED BY <1>2, InvInductive, PTL DEF Spec

(* The value first goes wrong with a digit that follows Max \div Base: the *)
(* guard of line 54 lets no other overflow happen first.                   *)
THEOREM WrongAtTheTop == Spec => GoesWrongAtTheTop
<1> DEFINE Step == value = written /\ value' # written' /\ outcome' = "reading" => value = Max \div Base
<1>1. Inv /\ [Next]_vars => [Step]_vars
  <2> SUFFICES ASSUME Inv, Next, value = written, value' # written', outcome' = "reading"
               PROVE  value = Max \div Base
    BY DEF vars
  <2>1. PICK d \in Digits : Digit(d)
    BY DEF Next, Minus, Finish, Refuse
  <2>2. value \in Nat /\ value <= Max \div Base /\ Max \div Base \in Int
    BY <2>1, MaxAssumption, BaseAssumption DEF Digit, Inv, TypeOK
  <2>3. ASSUME value < Max \div Base PROVE FALSE
    <3>1. value * Base + d \in Integer /\ value * Base \in Integer
      BY <2>2, <2>3, BelowTheTop
    <3>2. PICK product \in Results(value * Base) : value' \in Results(product + d)
      BY <2>1 DEF Digit
    <3>3. value' = value * Base + d
      BY <3>1, <3>2, ResultsInInteger
    <3> QED BY <3>3, <2>1 DEF Digit
  <2> QED BY <2>2, <2>3
<1> QED BY <1>1, InvInductive, PTL DEF Spec, GoesWrongAtTheTop
=============================================================================
