----------------------------- MODULE Combinators -----------------------------
(***************************************************************************)
(* The terminal and composite parsers of src/hittop/parser.                *)
(*                                                                         *)
(* A parser is a function of two positions of a text t: p[i][n] is the     *)
(* ParseResult of running it on the characters i+1 .. n, the range         *)
(* [begin, end) the C++ parser is called with.  Its result holds the       *)
(* iterator it stopped at, its error and, in effects, what the visitors    *)
(* called during the parse did, in their order: an alternative that is     *)
(* abandoned does not take back what its visitors did.                     *)
(***************************************************************************)
EXTENDS Naturals, Sequences

ParseError == {"NONE", "INCOMPLETE", "BAD_CHAR", "FAILED_CONDITION", "UNKNOWN"}

Result(end, error, effects) == [end |-> end, error |-> error, effects |-> effects]
Ok(r) == r.error = "NONE"
Incomplete(r) == r.error = "INCOMPLETE"

\* Wrong: the input is taken to reach to the end of the buffer it is part of.
OneOfPastTheEnd(t, chars) ==
    [i \in Nat |-> [n \in Nat |->
        IF i = Len(t) THEN Result(i, "INCOMPLETE", << >>)
        ELSE IF t[i + 1] \in chars THEN Result(i + 1, "NONE", << >>)
        ELSE Result(i, "BAD_CHAR", << >>)]]

(* A parser that looks at one character and accepts those of a set. *)
OneOf(t, chars) ==
    [i \in Nat |-> [n \in Nat |->
        IF i = n THEN Result(i, "INCOMPLETE", << >>)
        ELSE IF t[i + 1] \in chars THEN Result(i + 1, "NONE", << >>)
        ELSE Result(i, "BAD_CHAR", << >>)]]

Literal(t, c)        == OneOf(t, {c})
CharFilter(t, chars) == OneOf(t, chars)
CharClass(t, chars)  == OneOf(t, chars)

AnyChar(t) ==
    [i \in Nat |-> [n \in Nat |->
        IF i = n THEN Result(i, "INCOMPLETE", << >>) ELSE Result(i + 1, "NONE", << >>)]]

Success == [i \in Nat |-> [n \in Nat |-> Result(i, "NONE", << >>)]]
Failure == [i \in Nat |-> [n \in Nat |-> Result(i, "UNKNOWN", << >>)]]

(* The token is compared with as much of it as the input holds. *)
Token(t, token) ==
    [i \in Nat |-> [n \in Nat |->
        LET size == IF n - i < Len(token) THEN n - i ELSE Len(token)
            diff == {k \in 1..size : t[i + k] # token[k]}
        IN IF diff # {} THEN Result(i + (CHOOSE k \in diff : \A j \in diff : k <= j) - 1,
                                    "BAD_CHAR", << >>)
           ELSE Result(i + size, IF size < Len(token) THEN "INCOMPLETE" ELSE "NONE", << >>)]]

(* The result of what runs after r, with what r's visitors did before it. *)
After(r, s) == Result(s.end, s.error, r.effects \o s.effects)

Concat2(p, q) ==
    [i \in Nat |-> [n \in Nat |->
        LET r == p[i][n] IN IF Ok(r) THEN After(r, q[r.end][n]) ELSE r]]

\* Wrong: an alternative that ran out of input is abandoned like one that failed.
Either2GoesOn(p, q) ==
    [i \in Nat |-> [n \in Nat |->
        LET r == p[i][n] IN IF Ok(r) THEN r ELSE After(r, q[i][n])]]

Either2(p, q) ==
    [i \in Nat |-> [n \in Nat |->
        LET r == p[i][n] IN IF Ok(r) \/ Incomplete(r) THEN r ELSE After(r, q[i][n])]]

Unless(reject, default) ==
    [i \in Nat |-> [n \in Nat |->
        LET r == reject[i][n]
        IN IF Incomplete(r) THEN r
           ELSE IF Ok(r) THEN Result(r.end, "FAILED_CONDITION", r.effects)
           ELSE After(r, default[i][n])]]

(* The error is dropped; the end stays where the parser stopped. *)
ForceParse(p) ==
    [i \in Nat |-> [n \in Nat |->
        LET r == p[i][n] IN Result(r.end, "NONE", r.effects)]]

(* Repeats while the part succeeds and moves on; INCOMPLETE passes through. *)
Repeat(p) ==
    [i \in Nat |-> [n \in Nat |->
        LET from[j \in 0..n] ==
              LET r == p[j][n]
              IN IF Incomplete(r) THEN r
                 ELSE IF Ok(r) /\ r.end # j THEN After(r, from[r.end])
                 ELSE Result(j, "NONE", r.effects)
        IN from[i]]]

\* Wrong: the newest position takes the place of the last one, not of the first.
RememberLast(history, i, memorySize) ==
    Append(IF Len(history) = memorySize THEN SubSeq(history, 1, memorySize - 1) ELSE history, i)

(* RepeatAndThen: the greedy chain of positions, of which the last         *)
(* memorySize are kept, and then rest from the last of them that           *)
(* accepts it.                                                             *)
Remember(history, i, memorySize) ==
    LET all == Append(history, i)
    IN IF Len(all) > memorySize THEN Tail(all) ELSE all

Histories(n) == {h \in Seq(0..n) : h # << >>}

BackTrack(rest, n) ==
    LET back[h \in Histories(n)] ==
          LET r == rest[h[Len(h)]][n]
          IN IF Ok(r) \/ Incomplete(r) \/ Len(h) = 1 THEN r
             ELSE After(r, back[SubSeq(h, 1, Len(h) - 1)])
    IN back

GoForward(p, rest, memorySize, n) ==
    LET go[h \in Histories(n)] ==
          LET r == p[h[Len(h)]][n]
          IN IF Incomplete(r) THEN r
             ELSE IF Ok(r) /\ r.end # h[Len(h)]
                  THEN After(r, go[Remember(h, r.end, memorySize)])
             ELSE After(r, BackTrack(rest, n)[h])
    IN go

RepeatAndThen(p, rest, memorySize) ==
    [i \in Nat |-> [n \in Nat |-> GoForward(p, rest, memorySize, n)[<<i>>]]]
=============================================================================
