---------------------------- MODULE IntegerParse ----------------------------
(***************************************************************************)
(* parser/integer_parse_visitor.h: the handler that turns the characters   *)
(* of an accepted rule into a signed integer and delivers it to f_.  The   *)
(* characters are digits, given by their values, a minus sign, or another. *)
(* Signed overflow is undefined in C++: its result is any Integer.         *)
(***************************************************************************)
EXTENDS Integers

CONSTANTS Base,     \* the Base of IntegerParseVisitor, for which base_traits exist
          Max,      \* std::numeric_limits<Integer>::max()
          MaxLength \* bound on the characters of the rule
ASSUME BaseAssumption   == Base \in {10, 16}
ASSUME MaxAssumption    == Max \in Nat /\ Max >= Base
ASSUME LengthAssumption == MaxLength \in Nat

VARIABLES
    value, sign, \* the locals of operator()
    length,      \* how many characters it has looked at
    outcome,     \* "reading", "refused", or "delivered" to f_
    delivered,   \* what f_ was called with
    written      \* the number that the digits so far write

vars == <<value, sign, length, outcome, delivered, written>>

Digits  == 0..(Base - 1)
Integer == (-Max - 1)..Max

Results(x) == IF x \in Integer THEN {x} ELSE Integer

Init == value = 0 /\ sign = 1 /\ length = 0 /\ outcome = "reading" /\ delivered = 0 /\ written = 0

Read == outcome = "reading" /\ length < MaxLength /\ length' = length + 1

Minus ==
    /\ Read /\ length = 0
    /\ sign' = -1
    /\ UNCHANGED <<value, outcome, delivered, written>>

\* Wrong: the largest tenth is refused with what is above it.
RefuseEarly(d) ==
    /\ Read /\ value >= Max \div Base
    /\ outcome' = "refused"
    /\ written' = written * Base + d
    /\ UNCHANGED <<value, sign, delivered>>

(* Line 54: the product would be too large. *)
Refuse(d) ==
    /\ Read /\ value > Max \div Base
    /\ outcome' = "refused"
    /\ written' = written * Base + d
    /\ UNCHANGED <<value, sign, delivered>>

\* Wrong: the product may be too large.
DigitUnguarded(d) ==
    /\ Read
    /\ value' \in Results(value * Base + d)
    /\ written' = written * Base + d
    /\ UNCHANGED <<sign, outcome, delivered>>

(* The product fits unless it is negative already; the sum may not.        *)
Digit(d) ==
    /\ Read /\ value <= Max \div Base
    /\ \E product \in Results(value * Base) : value' \in Results(product + d)
    /\ written' = written * Base + d
    /\ UNCHANGED <<sign, outcome, delivered>>

(* The end of the range, or a character that is no digit: a second minus   *)
(* or, read as the first character, any but a minus.                       *)
Finish ==
    /\ outcome = "reading"
    /\ outcome' = "delivered"
    /\ delivered' \in Results(value * sign)
    /\ UNCHANGED <<value, sign, length, written>>

Next == Minus \/ Finish \/ \E d \in Digits : Refuse(d) \/ Digit(d)
Spec == Init /\ [][Next]_vars
-----------------------------------------------------------------------------
TypeOK ==
    /\ value \in Integer
    /\ sign \in {1, -1}
    /\ length \in 0..MaxLength
    /\ outcome \in {"reading", "refused", "delivered"}
    /\ delivered \in Integer
    /\ written \in Nat

(* A number of either sign whose digits write no more than the largest     *)
(* value is delivered exactly and never refused.  The smallest value,      *)
(* -Max - 1, is not among them: its digits overflow before the sign is     *)
(* applied (lines 57-60).                                                  *)
ExactUpToMax ==
    written <= Max => /\ outcome # "refused"
                      /\ outcome = "delivered" => delivered = sign * written

(* The guard of line 54 is off by less than one digit: what is delivered   *)
(* first goes wrong with a digit above Max % Base after Max \div Base.     *)
GoesWrongAtTheTop ==
    [][value = written /\ value' # written' /\ outcome' = "reading" => value = Max \div Base]_vars
=============================================================================
