------------------------------- MODULE Grammar -------------------------------
(***************************************************************************)
(* The parser that the templates of src/hittop/parser build for a grammar. *)
(*                                                                         *)
(* Rules gives the named rules their terms, so that a rule may refer to    *)
(* itself (forward_ref.h).  A visitor is a name; Visitors gives for it the *)
(* rules it can be called with and, for each, the visitor its handler runs *)
(* the rule with: "none" for run_parser(), where the optimized parsers     *)
(* take over.  C++ dispatches on the type of a rule, the model on its      *)
(* name: the modules that define Rules say where two names are one type.   *)
(* The handlers of the rules in Copied take their runner by value: the     *)
(* rule is parsed again, without a visitor, when the handler returns.      *)
(***************************************************************************)
EXTENDS Combinators, Terms, FiniteSetsExt

CONSTANTS Rules, Visitors, Copied

(* Rules that accept a single character. *)
RECURSIVE IsSingleCharRule(_)
IsSingleCharRule(g) ==
    CASE g.op \in {"Literal", "CharFilter", "AnyChar", "CharClass"} -> TRUE
      [] g.op = "Either" -> \A k \in DOMAIN g.parts : IsSingleCharRule(g.parts[k])
      [] g.op = "Unless" -> IsSingleCharRule(g.reject) /\ IsSingleCharRule(g.of)
      [] g.op = "Force"  -> IsSingleCharRule(g.of)
      [] g.op = "Rule"   -> IsSingleCharRule(Rules[g.name])
      [] OTHER           -> FALSE

(* The characters such a rule accepts: the table a CharClass is built with. *)
(* No other rule is asked.                                                 *)
RECURSIVE Accepted(_)
Accepted(g) ==
    CASE g.op = "Literal" -> {g.char}
      [] g.op \in {"CharFilter", "CharClass"} -> g.chars
      [] g.op \in {"AnyChar", "Force"} -> Char
      [] g.op = "Either"  -> UNION {Accepted(g.parts[k]) : k \in DOMAIN g.parts}
      [] g.op = "Unless"  -> Accepted(g.of) \ Accepted(g.reject)
      [] g.op = "Rule"    -> Accepted(Rules[g.name])
      [] OTHER            -> {}

\* Wrong: one alternative of a single character is enough.
FirstSingleAny(parts) ==
    Min({k \in 1..(Len(parts) + 1) : k = Len(parts) + 1 \/ IsSingleCharRule(parts[k])})

(* Where the alternatives that all accept a single character begin. *)
FirstSingle(parts) ==
    Min({k \in 1..(Len(parts) + 1) : \A j \in k..Len(parts) : IsSingleCharRule(parts[j])})

(* Without a visitor the single-character alternatives at the end of an    *)
(* Either become one CharClass.                                            *)
RECURSIVE Optimized(_)
Optimized(g) ==
    CASE g.op = "Concat" -> [g EXCEPT !.parts = [k \in DOMAIN @ |-> Optimized(@[k])]]
      [] g.op = "Either" ->
            LET k     == FirstSingle(g.parts)
                plain == [j \in 1..(k - 1) |-> Optimized(g.parts[j])]
            IN IF k > Len(g.parts) THEN Alt(plain)
               ELSE Alt(Append(plain, [op |-> "CharClass", chars |->
                        Accepted(Alt(SubSeq(g.parts, k, Len(g.parts))))]))
      [] g.op \in {"Repeat", "Force"} -> [g EXCEPT !.of = Optimized(@)]
      [] g.op = "RepeatAndThen" -> [g EXCEPT !.of = Optimized(@), !.rest = Optimized(@)]
      [] g.op = "Unless" -> [g EXCEPT !.of = Optimized(@), !.reject = Optimized(@)]
      [] OTHER -> g

OptimizedRules == [name \in DOMAIN Rules |-> Optimized(Rules[name])]

BacktrackMemorySize == 16

Body(name, v) == IF v = "none" THEN OptimizedRules[name] ELSE Rules[name]

(* The parser of another rule, built when it is called. *)
Referred(p) == [i \in Nat |-> [n \in Nat |-> p[i][n]]]

(* A handler sees the range its rule covered, whether it was accepted and  *)
(* what the handlers below it did; what the parse goes on with is the      *)
(* result its runner holds in the end.                                     *)
Visited(rule, seen, kept) ==
    [i \in Nat |-> [n \in Nat |->
        LET r == seen[i][n]
        IN [kept[i][n] EXCEPT !.effects = <<[rule |-> rule, from |-> i, to |-> r.end,
                                             ok |-> Ok(r), inner |-> r.effects]>>]]]

(* Parse<g>(range of t, visitor v). *)
RECURSIVE Parser(_, _, _)
Parser(t, g, v) ==
    CASE g.op = "Literal"       -> Literal(t, g.char)
      [] g.op = "CharFilter"    -> CharFilter(t, g.chars)
      [] g.op = "CharClass"     -> CharClass(t, g.chars)
      [] g.op = "AnyChar"       -> AnyChar(t)
      [] g.op = "Success"       -> Success
      [] g.op = "Token"         -> Token(t, g.token)
      [] g.op \in {"Concat", "Either"} /\ Len(g.parts) = 0 ->
            IF g.op = "Concat" THEN Success ELSE Failure
      [] g.op \in {"Concat", "Either"} /\ Len(g.parts) = 1 -> Parser(t, g.parts[1], v)
      [] g.op = "Concat" -> Concat2(Parser(t, g.parts[1], v), Parser(t, Cat(Tail(g.parts)), v))
      [] g.op = "Either" -> Either2(Parser(t, g.parts[1], v), Parser(t, Alt(Tail(g.parts)), v))
      [] g.op = "Repeat"        -> Repeat(Parser(t, g.of, v))
      [] g.op = "RepeatAndThen" -> RepeatAndThen(Parser(t, g.of, v), Parser(t, g.rest, v),
                                                 BacktrackMemorySize)
      [] g.op = "Unless"        -> Unless(Parser(t, g.reject, v), Parser(t, g.of, v))
      [] g.op = "Force"         -> ForceParse(Parser(t, g.of, v))
      [] g.op = "Rule"          ->
            IF v # "none" /\ g.name \in DOMAIN Visitors[v]
            THEN LET inner == Visitors[v][g.name]
                     seen  == Parser(t, Body(g.name, inner), inner)
                 IN Visited(g.name, seen, IF g.name \notin Copied THEN seen
                                          ELSE Parser(t, Body(g.name, "none"), "none"))
            ELSE Referred(Parser(t, Body(g.name, v), v))

(* The parse of the first n characters of t as the named rule. *)
Parse(t, n, name, v) == Parser(t, Rule(name), v)[0][n]
=============================================================================
