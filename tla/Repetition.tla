----------------------------- MODULE Repetition -----------------------------
(***************************************************************************)
(* How many copies the repeating parsers take: repeat.h, exactly.h,        *)
(* at_least.h, at_most.h, between.h and repeat_and_then.h, run on a text   *)
(* that arrives piece by piece.                                            *)
(***************************************************************************)
EXTENDS Arrival

CONSTANT MaxCopies \* the largest count a grammar asks for

VARIABLES grammar,   \* what is parsed for
          error, end \* the ParseResult of what has arrived

Unbounded == 1000 \* more copies than any text has

(* Counted grammars, with the least and the most copies of a digit they    *)
(* take, and the example of repeat_and_then.h: *(alnum) alpha.             *)
Copies  == 0..MaxCopies
Counted == {[of |-> "Repeat", min |-> 0, max |-> Unbounded]}
           \cup {[of |-> "Exactly", min |-> k, max |-> k] : k \in Copies}
           \cup {[of |-> "AtLeast", min |-> k, max |-> Unbounded] : k \in Copies}
           \cup {[of |-> "AtMost", min |-> 0, max |-> k] : k \in Copies}
           \cup {[of |-> "Between", min |-> j, max |-> k] : j \in Copies, k \in Copies}
Fragment == [of |-> "RepeatAndThen"]

digit == Filter(isdigit)
TermOf(q) ==
    CASE q.of = "Repeat"  -> Star(digit)
      [] q.of = "Exactly" -> Exactly(q.min, digit)
      [] q.of = "AtLeast" -> AtLeast(q.min, digit)
      [] q.of = "AtMost"  -> AtMost(q.max, digit)
      [] q.of = "Between" -> Between(q.min, q.max, digit)
      [] q.of = "RepeatAndThen" -> StarThen(Filter(isalnum), Filter(isalpha))

Grammars == {q \in Counted : q.min <= q.max} \cup {Fragment}
G == INSTANCE Grammar WITH Rules <- [q \in Grammars |-> TermOf(q)],
                           Visitors <- << >>, Copied <- {}

Init == Nothing0 /\ grammar \in Grammars /\ error = "INCOMPLETE" /\ end = 0
Next ==
    /\ Arrive
    /\ LET r == G!Parse(text, received', grammar, "none") IN error' = r.error /\ end' = r.end
    /\ UNCHANGED grammar
-----------------------------------------------------------------------------
(* Nothing is read past what has arrived. *)
WithinTheText == end \in 0..received

(* What has arrived of the run of characters the text starts with. *)
RunOf(chars) ==
    Max({k \in 0..received : \A j \in 1..k : text[j] \in chars})

(* A counted grammar takes as many copies as there are, up to its maximum; *)
(* it is decided as soon as it has the maximum or has met another          *)
(* character, and not before; with too few it fails where they ended.      *)
TakesAsManyAsAllowed ==
    received > 0 /\ grammar # Fragment =>
        LET run == RunOf(isdigit)
        IN IF run >= grammar.max THEN error = "NONE" /\ end = grammar.max
           ELSE /\ end = run
                /\ error = IF run = received THEN "INCOMPLETE"
                           ELSE IF run >= grammar.min THEN "NONE" ELSE "BAD_CHAR"

(* RepeatAndThen gives back as little as it has to: it ends with the last  *)
(* letter that begins at one of the last 16 positions its repetition       *)
(* passed, and when there is none it fails.                                *)
GivesBackTheLeast ==
    received > 0 /\ grammar = Fragment =>
        LET run  == RunOf(isalnum)
            kept == {k \in 0..run : run - k < G!BacktrackMemorySize /\ k < received}
            ends == {k + 1 : k \in {j \in kept : text[j + 1] \in isalpha}}
        IN IF run = received THEN error = "INCOMPLETE" /\ end = run
           ELSE IF ends # {} THEN error = "NONE" /\ end = Max(ends)
           ELSE error = "BAD_CHAR"

=============================================================================
