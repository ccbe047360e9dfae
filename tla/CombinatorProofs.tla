-------------------------- MODULE CombinatorProofs --------------------------
(***************************************************************************)
(* What the combinators promise, for every text and whatever visitors do.  *)
(*                                                                         *)
(* They stay within the range they are called with, and what they answer   *)
(* depends on nothing else of the text.  A verdict other than INCOMPLETE   *)
(* is final (parser/parse_error.h:18-21): the terminals have this property *)
(* and the combinators preserve it, so a caller may act on the first       *)
(* verdict it is given; Force alone does not preserve it, on purpose.      *)
(* Parsers that agree on what they accept can take each other's place, as  *)
(* a CharClass takes the place of a choice of characters where nothing is  *)
(* visited (parser/parser.h:96-97).                                        *)
(***************************************************************************)
EXTENDS Combinators, WellFoundedInduction, TLAPS

Results(E) == [end : Nat, error : ParseError, effects : Seq(E)]

(* On a range [begin, end) of a text a parser ends within the range.       *)
IsParser(p, E) ==
    \A n \in Nat : \A i \in 0..n : p[i][n] \in Results(E) /\ p[i][n].end \in i..n

IsFinal(p) ==
    \A m \in Nat : \A n \in 0..m : \A i \in 0..n :
        p[i][n].error # "INCOMPLETE" => p[i][m] = p[i][n]

(* Every set of naturals that is not empty has a least element.            *)
LEMMA LeastNatural ==
    ASSUME NEW S \in SUBSET Nat, S # {}
    PROVE  \E k \in S : \A j \in S : k <= j
<1>1. PICK k \in S : \A j \in S : ~ (<<j, k>> \in OpToRel(<, Nat))
  BY NatLessThanWellFounded, WFMin
<1>2. ASSUME NEW j \in S PROVE k <= j
  <2>1. j \in Nat /\ k \in Nat /\ ~ (j < k)
    BY <1>1 DEF OpToRel
  <2> QED BY <2>1
<1> QED BY <1>2

(* Adding what ran before to the effects of a result changes nothing else. *)
LEMMA AfterResult ==
    ASSUME NEW E, NEW r \in Results(E), NEW s \in Results(E)
    PROVE  /\ After(r, s) \in Results(E)
           /\ After(r, s).error = s.error
           /\ After(r, s).end = s.end
BY DEF After, Result, Results

(***************************************************************************)
(* Descent: from x to succ[x], which measures less, until Stop.            *)
(***************************************************************************)
Descends(D, Stop, succ, measure) ==
    /\ Stop \subseteq D
    /\ measure \in [D -> Nat]
    /\ \A x \in D \ Stop : succ[x] \in D /\ measure[succ[x]] < measure[x]

Recursion(f, D, Stop, base, pre, succ) ==
    f = [x \in D |-> IF x \in Stop THEN base[x] ELSE After(pre[x], f[succ[x]])]

(* What holds of x as soon as it holds of succ[x] holds of all.            *)
LEMMA ByDescent ==
    ASSUME NEW D, NEW Stop, NEW succ, NEW measure, Descends(D, Stop, succ, measure),
           NEW S, \A x \in D : (x \notin Stop => succ[x] \in S) => x \in S
    PROVE  D \subseteq S
<1> SUFFICES ASSUME NEW y \in D, y \notin S PROVE FALSE
  OBVIOUS
<1> DEFINE Bad == {k \in Nat : \E x \in D : x \notin S /\ measure[x] = k}
<1>1. measure[y] \in Bad
  BY DEF Descends
<1>2. PICK k \in Bad : \A j \in Bad : k <= j
  <2>1. Bad \in SUBSET Nat /\ Bad # {}
    BY <1>1
  <2> HIDE DEF Bad
  <2> QED BY <2>1, LeastNatural
<1>3. PICK x \in D : x \notin S /\ measure[x] = k
  OBVIOUS
<1>4. x \notin Stop /\ succ[x] \notin S
  BY <1>3
<1>5. succ[x] \in D /\ measure[succ[x]] \in Nat /\ measure[succ[x]] < k
  BY <1>3, <1>4 DEF Descends
<1>6. measure[succ[x]] \in Bad
  BY <1>4, <1>5
<1>7. k \in Nat /\ k <= measure[succ[x]]
  BY <1>2, <1>6
<1> QED BY <1>5, <1>7

(* One round of the recursion, at x.                                       *)
Round(g, x, Stop, base, pre, succ) ==
    IF x \in Stop THEN base[x] ELSE After(pre[x], g[succ[x]])

UpTo(g, k, D, Stop, base, pre, succ, measure) ==
    \A x \in D : measure[x] < k => g[x] = Round(g, x, Stop, base, pre, succ)

(* There is a function that satisfies the equation up to any measure,      *)
LEMMA SolvedUpTo ==
    ASSUME NEW D, NEW Stop, NEW base, NEW pre, NEW succ, NEW measure,
           Descends(D, Stop, succ, measure), NEW k \in Nat
    PROVE  \E g : UpTo(g, k, D, Stop, base, pre, succ, measure)
<1> DEFINE Solved(j) == \E g : UpTo(g, j, D, Stop, base, pre, succ, measure)
           Bad == {j \in Nat : ~Solved(j)}
<1> SUFFICES ASSUME ~Solved(k) PROVE FALSE
  OBVIOUS
<1>2. PICK j \in Bad : \A l \in Bad : j <= l
  <2>1. Bad \in SUBSET Nat /\ Bad # {}
    OBVIOUS
  <2> HIDE DEF Bad
  <2> QED BY <2>1, LeastNatural
<1>3. j \in Nat /\ j # 0
  <2>1. UpTo(base, 0, D, Stop, base, pre, succ, measure)
    BY DEF UpTo, Descends
  <2> QED BY <2>1
<1>4. PICK g : UpTo(g, j - 1, D, Stop, base, pre, succ, measure)
  <2>1. j - 1 \in Nat /\ ~(j <= j - 1)
    BY <1>3
  <2>2. j - 1 \notin Bad
    BY <1>2, <2>1
  <2>3. Solved(j - 1)
    BY <2>1, <2>2
  <2> QED BY <2>3
<1> DEFINE h == [x \in D |-> Round(g, x, Stop, base, pre, succ)]
<1>5. ASSUME NEW x \in D, measure[x] < j
      PROVE  h[x] = Round(h, x, Stop, base, pre, succ)
  <2>1. CASE x \in Stop
    BY <2>1 DEF Round
  <2>2. CASE x \notin Stop
    <3>1. succ[x] \in D /\ measure[succ[x]] < j - 1
      BY <1>3, <1>5, <2>2 DEF Descends
    <3>2. h[succ[x]] = g[succ[x]]
      BY <1>4, <3>1 DEF UpTo
    <3> QED BY <2>2, <3>2 DEF Round
  <2> QED BY <2>1, <2>2
<1>6. UpTo(h, j, D, Stop, base, pre, succ, measure)
  <2> HIDE DEF h
  <2> QED BY <1>5 DEF UpTo
<1> QED BY <1>6

(* two of them agree as far as both do,                                    *)
LEMMA SolutionsAgree ==
    ASSUME NEW D, NEW Stop, NEW base, NEW pre, NEW succ, NEW measure,
           Descends(D, Stop, succ, measure), NEW k \in Nat, NEW l \in Nat, NEW g, NEW h,
           UpTo(g, k, D, Stop, base, pre, succ, measure),
           UpTo(h, l, D, Stop, base, pre, succ, measure),
           NEW x \in D, measure[x] < k, measure[x] < l
    PROVE  g[x] = h[x]
<1> DEFINE S == {y \in D : measure[y] < k /\ measure[y] < l => g[y] = h[y]}
<1>1. ASSUME NEW y \in D, y \notin Stop => succ[y] \in S, measure[y] < k, measure[y] < l
      PROVE  g[y] = h[y]
  <2>1. /\ g[y] = Round(g, y, Stop, base, pre, succ)
        /\ h[y] = Round(h, y, Stop, base, pre, succ)
    BY <1>1 DEF UpTo
  <2>2. CASE y \in Stop
    BY <2>1, <2>2 DEF Round
  <2>3. CASE y \notin Stop
    <3>1. measure[succ[y]] < k /\ measure[succ[y]] < l
      BY <1>1, <2>3 DEF Descends
    <3>2. g[succ[y]] = h[succ[y]]
      BY <1>1, <2>3, <3>1
    <3> QED BY <2>1, <2>3, <3>2 DEF Round
  <2> QED BY <2>2, <2>3
<1>2. D \subseteq S
  <2>1. \A y \in D : (y \notin Stop => succ[y] \in S) => y \in S
    BY <1>1
  <2> HIDE DEF S
  <2> QED BY <2>1, ByDescent
<1> QED BY <1>2

(* and so there is one that satisfies it everywhere.                       *)
LEMMA RecursionExists ==
    ASSUME NEW D, NEW Stop, NEW base, NEW pre, NEW succ, NEW measure,
           Descends(D, Stop, succ, measure)
    PROVE  \E f : Recursion(f, D, Stop, base, pre, succ)
<1> DEFINE U(g, k) == UpTo(g, k, D, Stop, base, pre, succ, measure)
           G(k) == CHOOSE g : U(g, k)
           f == [x \in D |-> G(measure[x] + 1)[x]]
<1>1. \A k \in Nat : U(G(k), k)
  BY SolvedUpTo
<1>2. ASSUME NEW x \in D
      PROVE  f[x] = Round(f, x, Stop, base, pre, succ)
  <2>1. measure[x] \in Nat /\ measure[x] + 1 \in Nat /\ measure[x] < measure[x] + 1
    BY DEF Descends
  <2>2. G(measure[x] + 1)[x] = Round(G(measure[x] + 1), x, Stop, base, pre, succ)
    <3>1. U(G(measure[x] + 1), measure[x] + 1)
      BY <1>1, <2>1
    <3> HIDE DEF G
    <3> QED BY <2>1, <3>1 DEF UpTo
  <2>3. CASE x \in Stop
    <3> HIDE DEF G
    <3> QED BY <2>2, <2>3 DEF Round
  <2>4. CASE x \notin Stop
    <3> DEFINE y == succ[x]
    <3>1. /\ y \in D /\ measure[y] \in Nat /\ measure[y] < measure[x] + 1
          /\ measure[y] + 1 \in Nat /\ measure[y] < measure[y] + 1
      BY <2>1, <2>4 DEF Descends
    <3>2. U(G(measure[x] + 1), measure[x] + 1) /\ U(G(measure[y] + 1), measure[y] + 1)
      BY <1>1, <2>1, <3>1
    <3> HIDE DEF G, y
    <3>3. G(measure[y] + 1)[y] = G(measure[x] + 1)[y]
      <4>1. PICK k, l, g, h : /\ k = measure[y] + 1 /\ g = G(measure[y] + 1)
                              /\ l = measure[x] + 1 /\ h = G(measure[x] + 1)
        OBVIOUS
      <4>2. k \in Nat /\ l \in Nat /\ y \in D /\ measure[y] < k /\ measure[y] < l
        BY <2>1, <3>1, <4>1
      <4>3. U(g, k) /\ U(h, l)
        BY <3>2, <4>1
      <4>4. g[y] = h[y]
        BY <4>2, <4>3, SolutionsAgree
      <4> QED BY <4>1, <4>4
    <3>4. f[y] = G(measure[x] + 1)[y]
      BY <3>1, <3>3
    <3>5. f[x] = After(pre[x], G(measure[x] + 1)[y])
      BY <2>2, <2>4 DEF Round, y
    <3> QED BY <2>4, <3>4, <3>5 DEF Round, y
  <2> QED BY <2>3, <2>4
<1>3. f = [x \in D |-> Round(f, x, Stop, base, pre, succ)]
  <2>1. f = [x \in D |-> f[x]]
    OBVIOUS
  <2> HIDE DEF f
  <2> QED BY <1>2, <2>1
<1>4. Recursion(f, D, Stop, base, pre, succ)
  <2> HIDE DEF f
  <2> QED BY <1>3 DEF Recursion, Round
<1> QED BY <1>4

(***************************************************************************)
(* Terminals                                                               *)
(***************************************************************************)
\* Terminals end within the range.
LEMMA OneOfParser ==
    ASSUME NEW E, NEW t, NEW chars
    PROVE  IsParser(OneOf(t, chars), E)
BY DEF OneOf, Results, Result, ParseError, IsParser

\* An AnyChar does,
LEMMA AnyCharParser ==
    ASSUME NEW E, NEW t
    PROVE  IsParser(AnyChar(t), E)
BY DEF AnyChar, Results, Result, ParseError, IsParser

\* those that read nothing,
LEMMA SuccessParser ==
    ASSUME NEW E
    PROVE  IsParser(Success, E) /\ IsParser(Failure, E)
BY DEF Success, Failure, Results, Result, ParseError, IsParser

\* and a Token, as far as it matches.
LEMMA TokenParser ==
    ASSUME NEW E, NEW t, NEW token, Len(token) \in Nat
    PROVE  IsParser(Token(t, token), E)
<1> SUFFICES ASSUME NEW n \in Nat, NEW i \in 0..n
             PROVE  Token(t, token)[i][n] \in Results(E) /\ Token(t, token)[i][n].end \in i..n
  BY DEF IsParser
<1> DEFINE size == IF n - i < Len(token) THEN n - i ELSE Len(token)
           diff == {k \in 1..size : t[i + k] # token[k]}
           first == CHOOSE k \in diff : \A j \in diff : k <= j
<1>1. Token(t, token)[i][n] =
        IF diff # {} THEN Result(i + first - 1, "BAD_CHAR", << >>)
        ELSE Result(i + size, IF size < Len(token) THEN "INCOMPLETE" ELSE "NONE", << >>)
  BY DEF Token
<1>2. size \in Nat /\ i + size \in i..n
  OBVIOUS
<1>3. CASE diff = {}
  <2> HIDE DEF diff, size
  <2> QED BY <1>1, <1>2, <1>3 DEF Result, Results, ParseError
<1>4. CASE diff # {}
  <2>1. diff \in SUBSET Nat
    OBVIOUS
  <2>2. first \in diff
    <3>1. \E k \in diff : \A j \in diff : k <= j
      <4> HIDE DEF diff
      <4> QED BY <1>4, <2>1, LeastNatural
    <3> QED BY <3>1
  <2>3. first \in 1..size
    BY <2>2
  <2> HIDE DEF first, diff, size
  <2>4. i + first - 1 \in i..n
    BY <1>2, <2>3
  <2> QED BY <1>1, <1>4, <2>4 DEF Result, Results, ParseError
<1> QED BY <1>3, <1>4

(* No terminal reads beyond the end of the range it is called with.        *)
THEOREM TerminalsStayInRange ==
    ASSUME NEW E, NEW t, NEW chars, NEW token, Len(token) \in Nat
    PROVE  /\ IsParser(OneOf(t, chars), E) /\ IsParser(AnyChar(t), E)
           /\ IsParser(Token(t, token), E) /\ IsParser(Success, E) /\ IsParser(Failure, E)
BY OneOfParser, AnyCharParser, TokenParser, SuccessParser

(* The verdict of a Literal, a CharFilter or a CharClass is final.         *)
THEOREM OneOfFinal ==
    ASSUME NEW t, NEW chars
    PROVE  IsFinal(OneOf(t, chars))
BY DEF IsFinal, OneOf, Result

(* The verdict of an AnyChar is final.                                     *)
THEOREM AnyCharFinal ==
    ASSUME NEW t
    PROVE  IsFinal(AnyChar(t))
BY DEF IsFinal, AnyChar, Result

(* The verdict of a Token is final: the first character that differs stays *)
(* the first.                                                              *)
THEOREM TokenFinal ==
    ASSUME NEW t, NEW token, Len(token) \in Nat
    PROVE  IsFinal(Token(t, token))
<1> DEFINE size(i, n) == IF n - i < Len(token) THEN n - i ELSE Len(token)
           diff(i, n) == {k \in 1..size(i, n) : t[i + k] # token[k]}
           first(i, n) == CHOOSE k \in diff(i, n) : \A j \in diff(i, n) : k <= j
<1>1. SUFFICES ASSUME NEW m \in Nat, NEW n \in 0..m, NEW i \in 0..n,
                      Token(t, token)[i][n].error # "INCOMPLETE"
               PROVE  Token(t, token)[i][m] = Token(t, token)[i][n]
  BY DEF IsFinal
<1>2. \A x \in {n, m} : Token(t, token)[i][x] =
        IF diff(i, x) # {} THEN Result(i + first(i, x) - 1, "BAD_CHAR", << >>)
        ELSE Result(i + size(i, x), IF size(i, x) < Len(token) THEN "INCOMPLETE" ELSE "NONE", << >>)
  BY DEF Token
<1>3. /\ size(i, n) \in Nat /\ size(i, m) \in Nat
      /\ size(i, n) <= size(i, m) /\ size(i, m) <= Len(token)
  OBVIOUS
<1>4. CASE diff(i, n) = {}
  <2>1. size(i, n) = Len(token)
    BY <1>1, <1>2, <1>3, <1>4 DEF Result
  <2>2. size(i, m) = size(i, n) /\ diff(i, m) = diff(i, n)
    BY <2>1, <1>3
  <2> QED BY <1>2, <1>4, <2>2
<1>5. CASE diff(i, n) # {}
  <2>0. diff(i, n) \in SUBSET Nat
    OBVIOUS
  <2>1. PICK k \in diff(i, n) : \A j \in diff(i, n) : k <= j
    BY <1>5, <2>0, LeastNatural
  <2>2. k \in diff(i, m) /\ \A j \in diff(i, m) : k <= j
    BY <1>3, <2>1
  <2>3. first(i, n) = k
    BY <2>1
  <2>4. first(i, m) = k
    BY <2>2
  <2> QED BY <1>2, <1>5, <2>2, <2>3, <2>4
<1> QED BY <1>4, <1>5

(***************************************************************************)
(* Combinators of two parsers                                              *)
(***************************************************************************)
\* A sequence ends within the range,
LEMMA Concat2Parser ==
    ASSUME NEW E, NEW p, NEW q, IsParser(p, E), IsParser(q, E)
    PROVE  IsParser(Concat2(p, q), E)
<1> SUFFICES ASSUME NEW n \in Nat, NEW i \in 0..n
             PROVE  Concat2(p, q)[i][n] \in Results(E) /\ Concat2(p, q)[i][n].end \in i..n
  BY DEF IsParser
<1> DEFINE r == p[i][n]
           s == q[r.end][n]
<1>1. r \in Results(E) /\ r.end \in i..n /\ r.end \in 0..n
  BY DEF IsParser
<1>2. s \in Results(E) /\ s.end \in r.end..n
  BY <1>1 DEF IsParser
<1>3. Concat2(p, q)[i][n] = IF Ok(r) THEN After(r, s) ELSE r
  BY DEF Concat2
<1> HIDE DEF r, s
<1> QED BY <1>1, <1>2, <1>3, AfterResult

\* as does a choice,
LEMMA Either2Parser ==
    ASSUME NEW E, NEW p, NEW q, IsParser(p, E), IsParser(q, E)
    PROVE  IsParser(Either2(p, q), E)
<1> SUFFICES ASSUME NEW n \in Nat, NEW i \in 0..n
             PROVE  Either2(p, q)[i][n] \in Results(E) /\ Either2(p, q)[i][n].end \in i..n
  BY DEF IsParser
<1> DEFINE r == p[i][n]
           s == q[i][n]
<1>1. /\ r \in Results(E) /\ r.end \in i..n
      /\ s \in Results(E) /\ s.end \in i..n
  BY DEF IsParser
<1>2. Either2(p, q)[i][n] = IF Ok(r) \/ Incomplete(r) THEN r ELSE After(r, s)
  BY DEF Either2
<1> HIDE DEF r, s
<1> QED BY <1>1, <1>2, AfterResult

\* an exception,
LEMMA UnlessParser ==
    ASSUME NEW E, NEW reject, NEW default, IsParser(reject, E), IsParser(default, E)
    PROVE  IsParser(Unless(reject, default), E)
<1> SUFFICES ASSUME NEW n \in Nat, NEW i \in 0..n
             PROVE  /\ Unless(reject, default)[i][n] \in Results(E)
                    /\ Unless(reject, default)[i][n].end \in i..n
  BY DEF IsParser
<1> DEFINE r == reject[i][n]
           s == default[i][n]
<1>1. /\ r \in Results(E) /\ r.end \in i..n
      /\ s \in Results(E) /\ s.end \in i..n
  BY DEF IsParser
<1>2. Unless(reject, default)[i][n] =
        IF Incomplete(r) THEN r
        ELSE IF Ok(r) THEN Result(r.end, "FAILED_CONDITION", r.effects)
        ELSE After(r, s)
  BY DEF Unless
<1>3. Result(r.end, "FAILED_CONDITION", r.effects) \in Results(E)
  BY <1>1 DEF Result, Results, ParseError
<1>4. Result(r.end, "FAILED_CONDITION", r.effects).end = r.end
  BY DEF Result
<1> HIDE DEF r, s
<1> QED BY <1>1, <1>2, <1>3, <1>4, AfterResult

\* and what is accepted by force.
LEMMA ForceParser ==
    ASSUME NEW E, NEW p, IsParser(p, E)
    PROVE  IsParser(ForceParse(p), E)
BY DEF IsParser, ForceParse, Result, Results, ParseError

(* A sequence whose verdict is given has a first part whose verdict is     *)
(* given, and a second part that starts where the first one ended.         *)
THEOREM Concat2Final ==
    ASSUME NEW E, NEW p, NEW q, IsParser(p, E), IsFinal(p), IsParser(q, E), IsFinal(q)
    PROVE  IsFinal(Concat2(p, q))
<1> SUFFICES ASSUME NEW m \in Nat, NEW n \in 0..m, NEW i \in 0..n,
                    Concat2(p, q)[i][n].error # "INCOMPLETE"
             PROVE  Concat2(p, q)[i][m] = Concat2(p, q)[i][n]
  BY DEF IsFinal
<1> DEFINE r == p[i][n]
<1>1. r \in Results(E) /\ r.end \in 0..n
  BY DEF IsParser
<1>2. r.error # "INCOMPLETE"
  BY DEF Concat2, Ok
<1>3. p[i][m] = r
  BY <1>2 DEF IsFinal
<1>4. CASE Ok(r)
  <2>1. q[r.end][n] \in Results(E)
    BY <1>1 DEF IsParser
  <2>2. q[r.end][n].error # "INCOMPLETE"
    BY <1>1, <1>4, <2>1, AfterResult DEF Concat2
  <2>3. q[r.end][m] = q[r.end][n]
    BY <1>1, <2>2 DEF IsFinal
  <2> QED BY <1>3, <2>3 DEF Concat2
<1>5. CASE ~Ok(r)
  BY <1>3, <1>5 DEF Concat2
<1> QED BY <1>4, <1>5

(* An alternative is left only for a verdict that no input can change.     *)
THEOREM Either2Final ==
    ASSUME NEW E, NEW p, NEW q, IsParser(p, E), IsFinal(p), IsParser(q, E), IsFinal(q)
    PROVE  IsFinal(Either2(p, q))
<1> SUFFICES ASSUME NEW m \in Nat, NEW n \in 0..m, NEW i \in 0..n,
                    Either2(p, q)[i][n].error # "INCOMPLETE"
             PROVE  Either2(p, q)[i][m] = Either2(p, q)[i][n]
  BY DEF IsFinal
<1> DEFINE r == p[i][n]
<1>1. r \in Results(E) /\ q[i][n] \in Results(E)
  BY DEF IsParser
<1>2. r.error # "INCOMPLETE"
  BY DEF Either2, Incomplete
<1>3. p[i][m] = r
  BY <1>2 DEF IsFinal
<1>4. CASE Ok(r)
  BY <1>3, <1>4 DEF Either2
<1>5. CASE ~Ok(r)
  <2>1. q[i][n].error # "INCOMPLETE"
    BY <1>1, <1>2, <1>5, AfterResult DEF Either2, Incomplete
  <2>2. q[i][m] = q[i][n]
    BY <2>1 DEF IsFinal
  <2> QED BY <1>2, <1>3, <1>5, <2>2 DEF Either2
<1> QED BY <1>4, <1>5

(* An undecided condition leaves an Unless undecided.                      *)
THEOREM UnlessFinal ==
    ASSUME NEW E, NEW reject, NEW default,
           IsParser(reject, E), IsFinal(reject), IsParser(default, E), IsFinal(default)
    PROVE  IsFinal(Unless(reject, default))
<1> SUFFICES ASSUME NEW m \in Nat, NEW n \in 0..m, NEW i \in 0..n,
                    Unless(reject, default)[i][n].error # "INCOMPLETE"
             PROVE  Unless(reject, default)[i][m] = Unless(reject, default)[i][n]
  BY DEF IsFinal
<1> DEFINE r == reject[i][n]
<1>1. r \in Results(E) /\ default[i][n] \in Results(E)
  BY DEF IsParser
<1>2. r.error # "INCOMPLETE"
  BY DEF Unless, Incomplete
<1>3. reject[i][m] = r
  BY <1>2 DEF IsFinal
<1>4. CASE Ok(r)
  BY <1>2, <1>3, <1>4 DEF Unless
<1>5. CASE ~Ok(r)
  <2>1. default[i][n].error # "INCOMPLETE"
    BY <1>1, <1>2, <1>5, AfterResult DEF Unless, Incomplete
  <2>2. default[i][m] = default[i][n]
    BY <2>1 DEF IsFinal
  <2> QED BY <1>2, <1>3, <1>5, <2>2 DEF Unless
<1> QED BY <1>4, <1>5

(***************************************************************************)
(* Repeat                                                                  *)
(***************************************************************************)
(* The rounds of the loop of repeat.h go towards the end of the text.      *)
LoopEnds(p, n) == {j \in 0..n : ~(Ok(p[j][n]) /\ p[j][n].end # j)}
LoopVerdict(p, n) ==
    [j \in 0..n |-> IF Incomplete(p[j][n]) THEN p[j][n] ELSE Result(j, "NONE", p[j][n].effects)]
LoopNext(p, n) == [j \in 0..n |-> p[j][n].end]
LoopLeft(n) == [j \in 0..n |-> n - j]

\* Each of them goes on from a later position.
LEMMA LoopDescends ==
    ASSUME NEW E, NEW p, IsParser(p, E), NEW n \in Nat
    PROVE  Descends(0..n, LoopEnds(p, n), LoopNext(p, n), LoopLeft(n))
<1>1. \A j \in 0..n : p[j][n].end \in j..n
  BY DEF IsParser
<1> QED BY <1>1 DEF Descends, LoopEnds, LoopNext, LoopLeft

(* So the loop is a function, and satisfies its equation.                  *)
LEMMA RepeatRound ==
    ASSUME NEW E, NEW p, IsParser(p, E), NEW n \in Nat, NEW i \in 0..n
    PROVE  Repeat(p)[i][n] =
             IF Incomplete(p[i][n]) THEN p[i][n]
             ELSE IF Ok(p[i][n]) /\ p[i][n].end # i
                  THEN After(p[i][n], Repeat(p)[p[i][n].end][n])
             ELSE Result(i, "NONE", p[i][n].effects)
<1> DEFINE Body(f, j) == LET r == p[j][n]
                         IN IF Incomplete(r) THEN r
                            ELSE IF Ok(r) /\ r.end # j THEN After(r, f[r.end])
                            ELSE Result(j, "NONE", r.effects)
           Loop(f) == f = [j \in 0..n |-> Body(f, j)]
           from == CHOOSE f : Loop(f)
<1>1. \E f : Loop(f)
  <2>1. PICK f : Recursion(f, 0..n, LoopEnds(p, n), LoopVerdict(p, n),
                           [j \in 0..n |-> p[j][n]], LoopNext(p, n))
    BY LoopDescends, RecursionExists
  <2>2. f = [j \in 0..n |-> f[j]]
    BY <2>1 DEF Recursion
  <2>3. ASSUME NEW j \in 0..n PROVE f[j] = Body(f, j)
    BY <2>1 DEF Recursion, LoopEnds, LoopVerdict, LoopNext, Incomplete, Ok
  <2>4. Loop(f)
    <3> HIDE DEF Body
    <3> QED BY <2>2, <2>3
  <2> QED BY <2>4
<1>2. Loop(from)
  <2> HIDE DEF Loop
  <2> QED BY <1>1
<1>3. \A j \in 0..n : Repeat(p)[j][n] = from[j]
  BY DEF Repeat
<1>4. \A j \in 0..n : from[j] = Body(from, j)
  <2> HIDE DEF from, Body
  <2> QED BY <1>2
<1>5. p[i][n].end \in 0..n
  BY DEF IsParser
<1> HIDE DEF from
<1> QED BY <1>3, <1>4, <1>5

\* A repetition ends within the range.
LEMMA RepeatParser ==
    ASSUME NEW E, NEW p, IsParser(p, E)
    PROVE  IsParser(Repeat(p), E)
<1> SUFFICES ASSUME NEW n \in Nat
             PROVE  \A i \in 0..n : Repeat(p)[i][n] \in Results(E) /\ Repeat(p)[i][n].end \in i..n
  BY DEF IsParser
<1> DEFINE S == {i \in 0..n : Repeat(p)[i][n] \in Results(E) /\ Repeat(p)[i][n].end \in i..n}
<1>1. ASSUME NEW i \in 0..n, i \notin LoopEnds(p, n) => LoopNext(p, n)[i] \in S
      PROVE  i \in S
  <2> DEFINE r == p[i][n]
             s == Repeat(p)[r.end][n]
  <2>1. r \in Results(E) /\ r.end \in i..n /\ r.end \in 0..n
    BY DEF IsParser
  <2>2. Repeat(p)[i][n] = IF Incomplete(r) THEN r
                          ELSE IF Ok(r) /\ r.end # i THEN After(r, s)
                          ELSE Result(i, "NONE", r.effects)
    BY RepeatRound
  <2>3. Ok(r) /\ r.end # i => s \in Results(E) /\ s.end \in r.end..n
    BY <1>1, <2>1 DEF LoopEnds, LoopNext
  <2>4. Result(i, "NONE", r.effects) \in Results(E) /\ Result(i, "NONE", r.effects).end = i
    BY <2>1 DEF Result, Results, ParseError
  <2> HIDE DEF r, s
  <2> QED BY <2>1, <2>2, <2>3, <2>4, AfterResult
<1>2. 0..n \subseteq S
  <2> HIDE DEF S
  <2> QED BY <1>1, LoopDescends, ByDescent
<1> QED BY <1>2

(* A repetition passes INCOMPLETE on and every round moves it towards the  *)
(* end of the text: its verdict is final.                                  *)
THEOREM RepeatFinal ==
    ASSUME NEW E, NEW p, IsParser(p, E), IsFinal(p)
    PROVE  IsFinal(Repeat(p))
<1> SUFFICES ASSUME NEW m \in Nat, NEW n \in 0..m
             PROVE  \A i \in 0..n : Repeat(p)[i][n].error # "INCOMPLETE" =>
                                       Repeat(p)[i][m] = Repeat(p)[i][n]
  BY DEF IsFinal
<1>0. n \in Nat /\ n <= m
  OBVIOUS
<1> DEFINE S == {i \in 0..n : Repeat(p)[i][n].error # "INCOMPLETE" =>
                                 Repeat(p)[i][m] = Repeat(p)[i][n]}
<1>1. ASSUME NEW i \in 0..n, i \notin LoopEnds(p, n) => LoopNext(p, n)[i] \in S,
             Repeat(p)[i][n].error # "INCOMPLETE"
      PROVE  Repeat(p)[i][m] = Repeat(p)[i][n]
  <2> DEFINE r == p[i][n]
             s(x) == Repeat(p)[r.end][x]
             Loop(v, x) == IF Incomplete(v) THEN v
                        ELSE IF Ok(v) /\ v.end # i THEN After(v, Repeat(p)[v.end][x])
                        ELSE Result(i, "NONE", v.effects)
  <2>1. r \in Results(E) /\ r.end \in i..n /\ r.end \in 0..n
    <3>1. \A j \in 0..n : p[j][n] \in Results(E) /\ p[j][n].end \in j..n
      BY <1>0 DEF IsParser
    <3>2. r \in Results(E) /\ r.end \in i..n
      BY <3>1
    <3> HIDE DEF r
    <3> QED BY <1>0, <3>2
  <2>2. Repeat(p)[i][n] = Loop(r, n) /\ Repeat(p)[i][m] = Loop(p[i][m], m)
    <3>1. i \in 0..m /\ n \in Nat
      OBVIOUS
    <3> QED BY <3>1, RepeatRound
  <2>3. r.error # "INCOMPLETE"
    BY <1>1, <2>2 DEF Incomplete
  <2>4. p[i][m] = r
    BY <2>3 DEF IsFinal
  <2>5. CASE Ok(r) /\ r.end # i
    <3>1. Repeat(p)[i][n] = After(r, s(n)) /\ Repeat(p)[i][m] = After(r, s(m))
      BY <2>2, <2>3, <2>4, <2>5 DEF Incomplete
    <3>2. s(n).error # "INCOMPLETE"
      <4>1. After(r, s(n)).error # "INCOMPLETE"
        BY <1>1, <3>1
      <4> QED BY <4>1 DEF After, Result
    <3>3. r.end \in S
      BY <1>1, <2>1, <2>5 DEF LoopEnds, LoopNext
    <3> QED BY <3>1, <3>2, <3>3
  <2>6. CASE ~(Ok(r) /\ r.end # i)
    BY <2>2, <2>3, <2>4, <2>6 DEF Incomplete
  <2> QED BY <2>5, <2>6
<1>2. 0..n \subseteq S
  <2>1. \A i \in 0..n : (i \notin LoopEnds(p, n) => LoopNext(p, n)[i] \in S) => i \in S
    BY <1>1
  <2> HIDE DEF S
  <2> QED BY <1>0, <2>1, LoopDescends, ByDescent
<1> QED BY <1>2

(* Repeat takes as many copies as there are: it ends where its part does   *)
(* not match any more or does not move, and it never fails.                *)
THEOREM RepeatTakesAll ==
    ASSUME NEW E, NEW p, IsParser(p, E), NEW n \in Nat, NEW i \in 0..n,
           ~Incomplete(Repeat(p)[i][n])
    PROVE  /\ Ok(Repeat(p)[i][n])
           /\ LET r == p[Repeat(p)[i][n].end][n]
              IN ~Incomplete(r) /\ (Ok(r) => r.end = Repeat(p)[i][n].end)
<1> DEFINE Done(j) == LET e == Repeat(p)[j][n].end
                      IN /\ Ok(Repeat(p)[j][n])
                         /\ ~Incomplete(p[e][n]) /\ (Ok(p[e][n]) => p[e][n].end = e)
           S == {j \in 0..n : ~Incomplete(Repeat(p)[j][n]) => Done(j)}
<1>1. ASSUME NEW j \in 0..n, j \notin LoopEnds(p, n) => LoopNext(p, n)[j] \in S,
             ~Incomplete(Repeat(p)[j][n])
      PROVE  Done(j)
  <2> DEFINE r == p[j][n]
             s == Repeat(p)[r.end][n]
  <2>1. r \in Results(E) /\ r.end \in j..n /\ r.end \in 0..n
    BY DEF IsParser
  <2>2. Repeat(p)[j][n] = IF Incomplete(r) THEN r
                          ELSE IF Ok(r) /\ r.end # j THEN After(r, s)
                          ELSE Result(j, "NONE", r.effects)
    BY RepeatRound
  <2>3. ~Incomplete(r)
    BY <1>1, <2>2
  <2>4. CASE Ok(r) /\ r.end # j
    <3>1. Repeat(p)[j][n].error = s.error /\ Repeat(p)[j][n].end = s.end
      <4> HIDE DEF r, s
      <4>1. Repeat(p)[j][n] = After(r, s)
        BY <2>2, <2>3, <2>4
      <4>2. After(r, s).error = s.error /\ After(r, s).end = s.end
        BY DEF After, Result
      <4> QED BY <4>1, <4>2
    <3>2. r.end \in S
      BY <1>1, <2>1, <2>4 DEF LoopEnds, LoopNext
    <3> QED BY <1>1, <3>1, <3>2 DEF Incomplete, Ok
  <2>5. CASE ~(Ok(r) /\ r.end # j)
    <3>1. Repeat(p)[j][n].error = "NONE" /\ Repeat(p)[j][n].end = j
      BY <2>2, <2>3, <2>5 DEF Result
    <3> QED BY <2>3, <2>5, <3>1 DEF Ok
  <2> QED BY <2>4, <2>5
<1>2. 0..n \subseteq S
  <2>1. \A j \in 0..n : (j \notin LoopEnds(p, n) => LoopNext(p, n)[j] \in S) => j \in S
    BY <1>1
  <2> HIDE DEF S
  <2> QED BY <2>1, LoopDescends, ByDescent
<1> QED BY <1>2

(***************************************************************************)
(* RepeatAndThen                                                           *)
(***************************************************************************)
Newest(h) == h[Len(h)]

\* A history is not empty, and holds positions of the range.
LEMMA HistoryFacts ==
    ASSUME NEW n \in Nat, NEW h \in Histories(n)
    PROVE  /\ Len(h) \in Nat /\ Len(h) >= 1 /\ Newest(h) \in 0..n
           /\ \A k \in 1..Len(h) : h[k] \in 0..n
<1>1. h \in Seq(0..n) /\ h # << >>
  BY DEF Histories
<1> QED BY <1>1 DEF Newest

\* It begins with where the parser is called.
LEMMA FirstHistory ==
    ASSUME NEW n \in Nat, NEW i \in 0..n
    PROVE  <<i>> \in Histories(n) /\ Len(<<i>>) = 1 /\ Newest(<<i>>) = i /\ <<i>>[1] = i
BY DEF Histories, Newest

(* What the history is when the newest position has been taken from it,    *)
LEMMA PopHistory ==
    ASSUME NEW n \in Nat, NEW h \in Histories(n), Len(h) # 1,
           NEW g, g = SubSeq(h, 1, Len(h) - 1)
    PROVE  /\ g \in Histories(n) /\ Len(g) = Len(h) - 1
           /\ \A k \in 1..Len(g) : g[k] = h[k]
<1>0. h \in Seq(0..n) /\ h # << >> /\ Len(h) \in Nat /\ Len(h) >= 1
  BY HistoryFacts DEF Histories
<1>1. h \in Seq(0..n) /\ Len(h) \in Nat /\ Len(h) >= 2
  <2>1. PICK size : size = Len(h)
    OBVIOUS
  <2>2. size \in Nat /\ size >= 1 /\ size # 1
    BY <1>0, <2>1
  <2>3. size >= 2
    BY <2>2
  <2> QED BY <1>0, <2>1, <2>3
<1>2. Len(h) - 1 \in 1..Len(h)
  BY <1>1
<1>3. g \in Seq(0..n) /\ Len(g) = Len(h) - 1
  BY <1>1, <1>2
<1>4. \A k \in 1..Len(g) : g[k] = h[k]
  BY <1>1, <1>2, <1>3
<1>5. g # << >>
  <2>1. Len(g) # 0
    BY <1>1, <1>3
  <2> QED BY <2>1
<1> QED BY <1>3, <1>4, <1>5 DEF Histories

(* and when one has been remembered, for which the oldest may have gone.   *)
LEMMA RememberHistory ==
    ASSUME NEW n \in Nat, NEW h \in Histories(n), NEW e \in 0..n, NEW memorySize,
           NEW g, g = Remember(h, e, memorySize)
    PROVE  /\ g \in Histories(n) /\ Newest(g) = e
           /\ \/ Len(g) = Len(h) + 1 /\ \A k \in 1..Len(h) : g[k] = h[k]
              \/ Len(g) = Len(h) /\ \A k \in 1..(Len(h) - 1) : g[k] = h[k + 1]
<1>1. h \in Seq(0..n) /\ h # << >> /\ Len(h) \in Nat /\ Len(h) >= 1
  BY HistoryFacts DEF Histories
<1>2. PICK all : all = Append(h, e)
  OBVIOUS
<1>3. /\ all \in Seq(0..n) /\ Len(all) = Len(h) + 1 /\ all[Len(h) + 1] = e
      /\ \A k \in 1..Len(h) : all[k] = h[k]
  BY <1>1, <1>2
<1>4. g = all \/ g = Tail(all)
  BY <1>2 DEF Remember
<1>5. CASE g = all
  <2>1. g # << >>
    BY <1>1, <1>3, <1>5
  <2> QED BY <1>1, <1>3, <1>5, <2>1 DEF Histories, Newest
<1>6. CASE g = Tail(all)
  <2>1. /\ g \in Seq(0..n) /\ Len(g) = Len(h)
        /\ \A k \in 1..Len(h) : g[k] = all[k + 1]
    BY <1>1, <1>3, <1>6
  <2>2. g # << >> /\ g[Len(g)] = e
    BY <1>1, <1>3, <2>1
  <2>3. ASSUME NEW k \in 1..(Len(h) - 1) PROVE g[k] = h[k + 1]
    <3>1. k \in 1..Len(h) /\ k + 1 \in 1..Len(h)
      BY <1>1
    <3> QED BY <1>3, <2>1, <3>1
  <2> QED BY <2>1, <2>2, <2>3 DEF Histories, Newest
<1> QED BY <1>4, <1>5, <1>6

Before(h) == SubSeq(h, 1, Len(h) - 1)
BackEnds(rest, n) ==
    {h \in Histories(n) : \/ Ok(rest[Newest(h)][n]) \/ Incomplete(rest[Newest(h)][n])
                          \/ Len(h) = 1}
BackNext(n) == [h \in Histories(n) |-> Before(h)]
BackLeft(n) == [h \in Histories(n) |-> Len(h)]

\* The loop that goes back has one position less in every round.
LEMMA BackDescends ==
    ASSUME NEW rest, NEW n \in Nat
    PROVE  Descends(Histories(n), BackEnds(rest, n), BackNext(n), BackLeft(n))
<1>1. BackLeft(n) \in [Histories(n) -> Nat]
  BY HistoryFacts DEF BackLeft
<1>2. ASSUME NEW h \in Histories(n) \ BackEnds(rest, n)
      PROVE  /\ BackNext(n)[h] \in Histories(n)
             /\ BackLeft(n)[BackNext(n)[h]] < BackLeft(n)[h]
  <2>1. PICK g : g = SubSeq(h, 1, Len(h) - 1)
    OBVIOUS
  <2>2. Len(h) # 1
    BY DEF BackEnds
  <2>3. g \in Histories(n) /\ Len(g) = Len(h) - 1 /\ Len(h) \in Nat
    BY <2>1, <2>2, PopHistory, HistoryFacts
  <2>4. BackNext(n)[h] = g
    BY <2>1 DEF BackNext, Before
  <2> QED BY <2>3, <2>4 DEF BackLeft
<1> QED BY <1>1, <1>2 DEF Descends, BackEnds

(* One round of the loop that goes back.                                   *)
LEMMA BackRound ==
    ASSUME NEW rest, NEW n \in Nat, NEW h \in Histories(n)
    PROVE  BackTrack(rest, n)[h] =
             IF h \in BackEnds(rest, n) THEN rest[Newest(h)][n]
             ELSE After(rest[Newest(h)][n], BackTrack(rest, n)[Before(h)])
<1> DEFINE Body(f, g) == LET r == rest[g[Len(g)]][n]
                         IN IF Ok(r) \/ Incomplete(r) \/ Len(g) = 1 THEN r
                            ELSE After(r, f[SubSeq(g, 1, Len(g) - 1)])
           Loop(f) == f = [g \in Histories(n) |-> Body(f, g)]
           V == [g \in Histories(n) |-> rest[Newest(g)][n]]
<1>1. \E f : Loop(f)
  <2>1. PICK f : Recursion(f, Histories(n), BackEnds(rest, n), V, V, BackNext(n))
    BY BackDescends, RecursionExists
  <2>2. f = [g \in Histories(n) |-> f[g]]
    BY <2>1 DEF Recursion
  <2>3. ASSUME NEW g \in Histories(n) PROVE f[g] = Body(f, g)
    <3>1. f[g] = IF g \in BackEnds(rest, n) THEN V[g] ELSE After(V[g], f[BackNext(n)[g]])
      BY <2>1 DEF Recursion
    <3> QED BY <3>1 DEF BackEnds, BackNext, Before, Newest
  <2>4. Loop(f)
    <3> HIDE DEF Body
    <3> QED BY <2>2, <2>3
  <2> QED BY <2>4
<1>2. Loop(BackTrack(rest, n))
  <2>1. BackTrack(rest, n) = CHOOSE f : Loop(f)
    BY DEF BackTrack
  <2> HIDE DEF Loop
  <2> QED BY <1>1, <2>1
<1>3. BackTrack(rest, n)[h] = Body(BackTrack(rest, n), h)
  <2> HIDE DEF Body
  <2> QED BY <1>2
<1> QED BY <1>3 DEF BackEnds, Before, Newest

GoEnds(p, n) ==
    {h \in Histories(n) : ~(Ok(p[Newest(h)][n]) /\ p[Newest(h)][n].end # Newest(h))}
GoNext(p, n, memorySize) ==
    [h \in Histories(n) |-> Remember(h, p[Newest(h)][n].end, memorySize)]
GoLeft(n) == [h \in Histories(n) |-> n - Newest(h)]
GoVerdict(p, rest, n) ==
    [h \in Histories(n) |-> IF Incomplete(p[Newest(h)][n]) THEN p[Newest(h)][n]
                            ELSE After(p[Newest(h)][n], BackTrack(rest, n)[h])]

\* The loop that goes forward is nearer to the end of the text in every round.
LEMMA GoDescends ==
    ASSUME NEW E, NEW p, IsParser(p, E), NEW n \in Nat, NEW memorySize
    PROVE  Descends(Histories(n), GoEnds(p, n), GoNext(p, n, memorySize), GoLeft(n))
<1>1. \A h \in Histories(n) : Newest(h) \in 0..n
  BY HistoryFacts
<1>2. ASSUME NEW h \in Histories(n) \ GoEnds(p, n)
      PROVE  /\ GoNext(p, n, memorySize)[h] \in Histories(n)
             /\ GoLeft(n)[GoNext(p, n, memorySize)[h]] < GoLeft(n)[h]
  <2>1. PICK e, g : e = p[Newest(h)][n].end /\ g = Remember(h, e, memorySize)
    OBVIOUS
  <2>2. e \in Newest(h)..n /\ e # Newest(h) /\ e \in 0..n
    BY <1>1, <2>1 DEF IsParser, GoEnds
  <2>3. g \in Histories(n) /\ Newest(g) = e
    BY <2>1, <2>2, RememberHistory
  <2>4. GoNext(p, n, memorySize)[h] = g
    BY <2>1 DEF GoNext
  <2> QED BY <1>1, <2>2, <2>3, <2>4 DEF GoLeft
<1>3. GoLeft(n) \in [Histories(n) -> Nat]
  BY <1>1 DEF GoLeft
<1> QED BY <1>2, <1>3 DEF Descends, GoEnds

(* One round of the loop that goes forward.                                *)
LEMMA GoRound ==
    ASSUME NEW E, NEW p, IsParser(p, E), NEW rest, NEW memorySize,
           NEW n \in Nat, NEW h \in Histories(n), NEW r, r = p[Newest(h)][n]
    PROVE  GoForward(p, rest, memorySize, n)[h] =
             IF Incomplete(r) THEN r
             ELSE IF Ok(r) /\ r.end # Newest(h)
                  THEN After(r, GoForward(p, rest, memorySize, n)[Remember(h, r.end, memorySize)])
             ELSE After(r, BackTrack(rest, n)[h])
<1> DEFINE Body(f, g) == LET s == p[g[Len(g)]][n]
                         IN IF Incomplete(s) THEN s
                            ELSE IF Ok(s) /\ s.end # g[Len(g)]
                                 THEN After(s, f[Remember(g, s.end, memorySize)])
                            ELSE After(s, BackTrack(rest, n)[g])
           Loop(f) == f = [g \in Histories(n) |-> Body(f, g)]
           V == [g \in Histories(n) |-> p[Newest(g)][n]]
           go == GoForward(p, rest, memorySize, n)
<1>1. \E f : Loop(f)
  <2>1. PICK f : Recursion(f, Histories(n), GoEnds(p, n), GoVerdict(p, rest, n), V,
                           GoNext(p, n, memorySize))
    BY GoDescends, RecursionExists
  <2>2. f = [g \in Histories(n) |-> f[g]]
    BY <2>1 DEF Recursion
  <2>3. ASSUME NEW g \in Histories(n) PROVE f[g] = Body(f, g)
    <3>1. f[g] = IF g \in GoEnds(p, n) THEN GoVerdict(p, rest, n)[g]
                 ELSE After(V[g], f[GoNext(p, n, memorySize)[g]])
      BY <2>1 DEF Recursion
    <3> QED BY <3>1 DEF GoEnds, GoNext, GoVerdict, Newest, Incomplete, Ok
  <2>4. Loop(f)
    <3> HIDE DEF Body
    <3> QED BY <2>2, <2>3
  <2> QED BY <2>4
<1>2. Loop(go)
  <2>1. go = CHOOSE f : Loop(f)
    BY DEF GoForward
  <2> HIDE DEF Loop, go
  <2> QED BY <1>1, <2>1
<1>3. go[h] = Body(go, h)
  <2> HIDE DEF Body, go
  <2> QED BY <1>2
<1> HIDE DEF go
<1>4. go[h] = IF Incomplete(r) THEN r
             ELSE IF Ok(r) /\ r.end # Newest(h)
                  THEN After(r, go[Remember(h, r.end, memorySize)])
             ELSE After(r, BackTrack(rest, n)[h])
  BY <1>3 DEF Newest
<1> QED BY <1>4 DEF go

(* Both loops stay within the range and return a result of their parts.    *)
From(h, i) == \A k \in 1..Len(h) : i <= h[k]
InRange(v, E, h, n) ==
    v \in Results(E) /\ v.end <= n /\ \A i \in 0..n : From(h, i) => i <= v.end

\* Going back,
LEMMA BackInRange ==
    ASSUME NEW E, NEW rest, IsParser(rest, E), NEW n \in Nat, NEW h \in Histories(n)
    PROVE  InRange(BackTrack(rest, n)[h], E, h, n)
<1> DEFINE S == {g \in Histories(n) : InRange(BackTrack(rest, n)[g], E, g, n)}
<1>1. ASSUME NEW g \in Histories(n), g \notin BackEnds(rest, n) => BackNext(n)[g] \in S
      PROVE  InRange(BackTrack(rest, n)[g], E, g, n)
  <2>1. PICK r, l : r = rest[Newest(g)][n] /\ l = Len(g)
    OBVIOUS
  <2>2. l \in Nat /\ l >= 1 /\ Newest(g) \in 0..n /\ \A k \in 1..l : g[k] \in 0..n
    BY <2>1, HistoryFacts
  <2>3. r \in Results(E) /\ r.end \in Newest(g)..n
    BY <2>1, <2>2 DEF IsParser
  <2>4. \A i \in 0..n : From(g, i) => i <= Newest(g)
    BY <2>1, <2>2 DEF From, Newest
  <2>5. InRange(r, E, g, n)
    BY <2>2, <2>3, <2>4 DEF InRange
  <2>6. CASE g \in BackEnds(rest, n)
    BY <2>1, <2>5, <2>6, BackRound
  <2>7. CASE g \notin BackEnds(rest, n)
    <3>1. PICK b, s : b = Before(g) /\ s = BackTrack(rest, n)[b]
      OBVIOUS
    <3>2. BackTrack(rest, n)[g] = After(r, s)
      BY <2>1, <2>7, <3>1, BackRound
    <3>3. InRange(s, E, b, n)
      BY <1>1, <2>7, <3>1 DEF BackNext
    <3>4. Len(b) = l - 1 /\ \A k \in 1..Len(b) : b[k] = g[k]
      BY <2>1, <2>7, <3>1, PopHistory DEF Before, BackEnds
    <3>5. \A i \in 0..n : From(g, i) => From(b, i)
      BY <2>1, <2>2, <3>4 DEF From
    <3>6. After(r, s) \in Results(E) /\ After(r, s).end = s.end
      BY <2>3, <3>3, AfterResult DEF InRange
    <3> QED BY <3>2, <3>3, <3>5, <3>6 DEF InRange
  <2> QED BY <2>6, <2>7
<1>2. Histories(n) \subseteq S
  <2>1. \A g \in Histories(n) : (g \notin BackEnds(rest, n) => BackNext(n)[g] \in S) => g \in S
    BY <1>1
  <2> HIDE DEF S
  <2> QED BY <2>1, BackDescends, ByDescent
<1> QED BY <1>2

\* going forward,
LEMMA GoInRange ==
    ASSUME NEW E, NEW p, IsParser(p, E), NEW rest, IsParser(rest, E), NEW memorySize,
           NEW n \in Nat, NEW h \in Histories(n)
    PROVE  InRange(GoForward(p, rest, memorySize, n)[h], E, h, n)
<1>1. PICK go : go = GoForward(p, rest, memorySize, n)
  OBVIOUS
<1> DEFINE S == {g \in Histories(n) : InRange(go[g], E, g, n)}
<1>2. ASSUME NEW g \in Histories(n), g \notin GoEnds(p, n) => GoNext(p, n, memorySize)[g] \in S
      PROVE  InRange(go[g], E, g, n)
  <2>1. PICK r, l, b, s : /\ r = p[Newest(g)][n] /\ l = Len(g)
                          /\ b = Remember(g, r.end, memorySize) /\ s = go[b]
    OBVIOUS
  <2>2. l \in Nat /\ l >= 1 /\ Newest(g) \in 0..n /\ \A k \in 1..l : g[k] \in 0..n
    BY <2>1, HistoryFacts
  <2>3. r \in Results(E) /\ r.end \in Newest(g)..n /\ r.end \in 0..n
    BY <2>1, <2>2 DEF IsParser
  <2>4. \A i \in 0..n : From(g, i) => i <= Newest(g)
    BY <2>1, <2>2 DEF From, Newest
  <2>5. go[g] = IF Incomplete(r) THEN r
                ELSE IF Ok(r) /\ r.end # Newest(g) THEN After(r, s)
                ELSE After(r, BackTrack(rest, n)[g])
    BY <1>1, <2>1, GoRound
  <2>6. InRange(r, E, g, n)
    BY <2>2, <2>3, <2>4 DEF InRange
  <2>7. InRange(After(r, BackTrack(rest, n)[g]), E, g, n)
    <3>1. PICK v : v = BackTrack(rest, n)[g]
      OBVIOUS
    <3>2. InRange(v, E, g, n)
      BY <3>1, BackInRange
    <3>3. After(r, v) \in Results(E) /\ After(r, v).end = v.end
      BY <2>3, <3>2, AfterResult DEF InRange
    <3> QED BY <3>1, <3>2, <3>3 DEF InRange
  <2>8. Ok(r) /\ r.end # Newest(g) => InRange(After(r, s), E, g, n)
    <3>1. SUFFICES ASSUME Ok(r), r.end # Newest(g) PROVE InRange(After(r, s), E, g, n)
      OBVIOUS
    <3>2. InRange(s, E, b, n)
      BY <1>2, <2>1, <3>1 DEF GoEnds, GoNext
    <3>3. /\ b \in Histories(n) /\ Newest(b) = r.end
          /\ \/ Len(b) = l + 1 /\ \A k \in 1..l : b[k] = g[k]
             \/ Len(b) = l /\ \A k \in 1..(l - 1) : b[k] = g[k + 1]
      BY <2>1, <2>3, RememberHistory
    <3>4. ASSUME NEW i \in 0..n, From(g, i) PROVE From(b, i)
      <4>1. i <= r.end
        BY <2>2, <2>3, <2>4, <3>4
      <4>2. ASSUME NEW k \in 1..Len(b) PROVE i <= b[k]
        <5>1. b[Len(b)] = r.end
          BY <3>3 DEF Newest
        <5>2. \A j \in 1..l : i <= g[j]
          BY <2>1, <3>4 DEF From
        <5>3. CASE k = Len(b)
          BY <4>1, <5>1, <5>3
        <5>4. CASE k # Len(b)
          <6>1. \/ k \in 1..l /\ b[k] = g[k]
                \/ k + 1 \in 1..l /\ b[k] = g[k + 1]
            BY <2>2, <3>3, <5>4
          <6> QED BY <5>2, <6>1
        <5> QED BY <5>3, <5>4
      <4> QED BY <4>2 DEF From
    <3>5. After(r, s) \in Results(E) /\ After(r, s).end = s.end
      BY <2>3, <3>2, AfterResult DEF InRange
    <3> QED BY <3>2, <3>4, <3>5 DEF InRange
  <2> QED BY <2>5, <2>6, <2>7, <2>8
<1>3. Histories(n) \subseteq S
  <2>1. \A g \in Histories(n) :
          (g \notin GoEnds(p, n) => GoNext(p, n, memorySize)[g] \in S) => g \in S
    BY <1>2
  <2> HIDE DEF S
  <2> QED BY <2>1, GoDescends, ByDescent
<1> QED BY <1>1, <1>3

\* and so RepeatAndThen.
LEMMA RepeatAndThenParser ==
    ASSUME NEW E, NEW p, IsParser(p, E), NEW rest, IsParser(rest, E), NEW memorySize
    PROVE  IsParser(RepeatAndThen(p, rest, memorySize), E)
<1> SUFFICES ASSUME NEW n \in Nat, NEW i \in 0..n
             PROVE  /\ RepeatAndThen(p, rest, memorySize)[i][n] \in Results(E)
                    /\ RepeatAndThen(p, rest, memorySize)[i][n].end \in i..n
  BY DEF IsParser
<1>1. PICK v, h : h = <<i>> /\ v = GoForward(p, rest, memorySize, n)[h]
  OBVIOUS
<1>2. RepeatAndThen(p, rest, memorySize)[i][n] = v
  BY <1>1 DEF RepeatAndThen
<1>3. h \in Histories(n) /\ Len(h) = 1 /\ h[1] = i
  BY <1>1, FirstHistory
<1>4. InRange(v, E, h, n)
  BY <1>1, <1>3, GoInRange
<1>5. From(h, i)
  BY <1>3 DEF From
<1>6. v \in Results(E) /\ v.end \in Nat /\ i <= v.end /\ v.end <= n
  BY <1>4, <1>5 DEF InRange, Results
<1> QED BY <1>2, <1>6

\* A history of a range is one of any longer range.
LEMMA LongerRange ==
    ASSUME NEW m \in Nat, NEW n \in 0..m, NEW h \in Histories(n)
    PROVE  h \in Histories(m)
<1>1. h \in Seq(0..n) /\ h # << >> /\ 0..n \subseteq 0..m
  BY DEF Histories
<1>2. Len(h) \in Nat /\ h \in [1..Len(h) -> 0..m]
  BY <1>1
<1>3. h \in Seq(0..m)
  BY <1>2
<1> QED BY <1>1, <1>3 DEF Histories

\* Going back is decided by verdicts of rest that are final,
LEMMA BackFinal ==
    ASSUME NEW E, NEW rest, IsParser(rest, E), IsFinal(rest),
           NEW m \in Nat, NEW n \in 0..m, NEW h \in Histories(n),
           ~Incomplete(BackTrack(rest, n)[h])
    PROVE  BackTrack(rest, m)[h] = BackTrack(rest, n)[h]
<1>0. n \in Nat
  OBVIOUS
<1>1. PICK back, later : back = BackTrack(rest, n) /\ later = BackTrack(rest, m)
  OBVIOUS
<1> DEFINE S == {g \in Histories(n) : ~Incomplete(back[g]) => later[g] = back[g]}
<1>2. ASSUME NEW g \in Histories(n), g \notin BackEnds(rest, n) => BackNext(n)[g] \in S,
             ~Incomplete(back[g])
      PROVE  later[g] = back[g]
  <2>1. PICK r : r = rest[Newest(g)][n]
    OBVIOUS
  <2>2. Newest(g) \in 0..n /\ g \in Histories(m)
    BY <1>0, HistoryFacts, LongerRange
  <2>3. back[g] = IF g \in BackEnds(rest, n) THEN r ELSE After(r, back[Before(g)])
    BY <1>0, <1>1, <2>1, BackRound
  <2>4. later[g] = IF g \in BackEnds(rest, m) THEN rest[Newest(g)][m]
                   ELSE After(rest[Newest(g)][m], later[Before(g)])
    BY <1>1, <2>2, BackRound
  <2>5. ~Incomplete(r)
    BY <1>2, <2>1, <2>3 DEF BackEnds
  <2>6. rest[Newest(g)][m] = r
    BY <2>1, <2>2, <2>5 DEF IsFinal, Incomplete
  <2>7. g \in BackEnds(rest, m) <=> g \in BackEnds(rest, n)
    BY <2>1, <2>2, <2>6 DEF BackEnds
  <2>8. CASE g \in BackEnds(rest, n)
    BY <2>3, <2>4, <2>6, <2>7, <2>8
  <2>9. CASE g \notin BackEnds(rest, n)
    <3>1. PICK s : s = back[Before(g)]
      OBVIOUS
    <3>2. ~Incomplete(After(r, s))
      BY <1>2, <2>3, <2>9, <3>1
    <3>3. ~Incomplete(s)
      BY <3>2 DEF After, Result, Incomplete
    <3>4. later[Before(g)] = s
      BY <1>2, <2>9, <3>1, <3>3 DEF BackNext
    <3> QED BY <2>3, <2>4, <2>6, <2>7, <2>9, <3>1, <3>4
  <2> QED BY <2>8, <2>9
<1>3. Histories(n) \subseteq S
  <2>1. \A g \in Histories(n) : (g \notin BackEnds(rest, n) => BackNext(n)[g] \in S) => g \in S
    BY <1>2
  <2> HIDE DEF S
  <2> QED BY <1>0, <2>1, BackDescends, ByDescent
<1> QED BY <1>1, <1>3

\* and going forward by verdicts of the repeated part that are.
LEMMA GoFinal ==
    ASSUME NEW E, NEW p, IsParser(p, E), IsFinal(p), NEW rest, IsParser(rest, E), IsFinal(rest),
           NEW memorySize, NEW m \in Nat, NEW n \in 0..m, NEW h \in Histories(n),
           ~Incomplete(GoForward(p, rest, memorySize, n)[h])
    PROVE  GoForward(p, rest, memorySize, m)[h] = GoForward(p, rest, memorySize, n)[h]
<1>0. n \in Nat
  OBVIOUS
<1>1. PICK go, later : /\ go = GoForward(p, rest, memorySize, n)
                       /\ later = GoForward(p, rest, memorySize, m)
  OBVIOUS
<1> DEFINE S == {g \in Histories(n) : ~Incomplete(go[g]) => later[g] = go[g]}
<1>2. ASSUME NEW g \in Histories(n), g \notin GoEnds(p, n) => GoNext(p, n, memorySize)[g] \in S,
             ~Incomplete(go[g])
      PROVE  later[g] = go[g]
  <2>1. PICK r, b, s, v : /\ r = p[Newest(g)][n] /\ b = Remember(g, r.end, memorySize)
                          /\ s = go[b] /\ v = BackTrack(rest, n)[g]
    OBVIOUS
  <2>2. Newest(g) \in 0..n /\ g \in Histories(m)
    BY <1>0, HistoryFacts, LongerRange
  <2>3. go[g] = IF Incomplete(r) THEN r
                ELSE IF Ok(r) /\ r.end # Newest(g) THEN After(r, s)
                ELSE After(r, v)
    BY <1>0, <1>1, <2>1, GoRound
  <2>4. ~Incomplete(r)
    BY <1>2, <2>3
  <2>5. p[Newest(g)][m] = r
    BY <2>1, <2>2, <2>4 DEF IsFinal, Incomplete
  <2>6. later[g] = IF Incomplete(r) THEN r
                   ELSE IF Ok(r) /\ r.end # Newest(g) THEN After(r, later[b])
                   ELSE After(r, BackTrack(rest, m)[g])
    BY <1>1, <2>1, <2>2, <2>5, GoRound
  <2>7. CASE Ok(r) /\ r.end # Newest(g)
    <3>1. ~Incomplete(After(r, s))
      BY <1>2, <2>3, <2>4, <2>7
    <3>2. ~Incomplete(s)
      BY <3>1 DEF After, Result, Incomplete
    <3>3. later[b] = s
      BY <1>2, <2>1, <2>7, <3>2 DEF GoEnds, GoNext
    <3> QED BY <2>3, <2>4, <2>6, <2>7, <3>3
  <2>8. CASE ~(Ok(r) /\ r.end # Newest(g))
    <3>1. ~Incomplete(After(r, v))
      BY <1>2, <2>3, <2>4, <2>8
    <3>2. ~Incomplete(v)
      BY <3>1 DEF After, Result, Incomplete
    <3>3. BackTrack(rest, m)[g] = v
      BY <2>1, <3>2, BackFinal
    <3> QED BY <2>3, <2>4, <2>6, <2>8, <3>3
  <2> QED BY <2>7, <2>8
<1>3. Histories(n) \subseteq S
  <2>1. \A g \in Histories(n) :
          (g \notin GoEnds(p, n) => GoNext(p, n, memorySize)[g] \in S) => g \in S
    BY <1>2
  <2> HIDE DEF S
  <2> QED BY <1>0, <2>1, GoDescends, ByDescent
<1> QED BY <1>1, <1>3

(* The positions to go back to, and what rest says at each of them, do not *)
(* change when more input comes: the verdict of RepeatAndThen is final.    *)
THEOREM RepeatAndThenFinal ==
    ASSUME NEW E, NEW p, IsParser(p, E), IsFinal(p), NEW rest, IsParser(rest, E), IsFinal(rest),
           NEW memorySize
    PROVE  IsFinal(RepeatAndThen(p, rest, memorySize))
<1>1. ASSUME NEW m \in Nat, NEW n \in 0..m, NEW i \in 0..n,
             RepeatAndThen(p, rest, memorySize)[i][n].error # "INCOMPLETE"
      PROVE  RepeatAndThen(p, rest, memorySize)[i][m] = RepeatAndThen(p, rest, memorySize)[i][n]
  <2>1. PICK h : h = <<i>>
    OBVIOUS
  <2>2. n \in Nat /\ i \in 0..m
    OBVIOUS
  <2>3. \A x \in {n, m} : RepeatAndThen(p, rest, memorySize)[i][x] =
                            GoForward(p, rest, memorySize, x)[h]
    BY <2>1, <2>2 DEF RepeatAndThen
  <2>4. h \in Histories(n)
    BY <2>1, <2>2, FirstHistory
  <2>5. ~Incomplete(GoForward(p, rest, memorySize, n)[h])
    BY <1>1, <2>3 DEF Incomplete
  <2> QED BY <2>3, <2>4, <2>5, GoFinal
<1> QED BY <1>1 DEF IsFinal

Rejected(r) == ~Ok(r) /\ ~Incomplete(r)
SameEnd(r, s) == r.end = s.end /\ r.error = s.error

(* What going back from h gives.                                           *)
Given(rest, n, h, v) ==
    \/ Rejected(v) /\ \A k \in 1..Len(h) : Rejected(rest[h[k]][n])
    \/ \E k \in 1..Len(h) : /\ ~Rejected(rest[h[k]][n]) /\ SameEnd(v, rest[h[k]][n])
                            /\ \A j \in (k + 1)..Len(h) : Rejected(rest[h[j]][n])

\* The loop that goes back gives that.
LEMMA BackGives ==
    ASSUME NEW E, NEW rest, IsParser(rest, E), NEW n \in Nat, NEW h \in Histories(n)
    PROVE  Given(rest, n, h, BackTrack(rest, n)[h])
<1>1. PICK back : back = BackTrack(rest, n)
  OBVIOUS
<1> DEFINE S == {g \in Histories(n) : Given(rest, n, g, back[g])}
<1>2. ASSUME NEW g \in Histories(n), g \notin BackEnds(rest, n) => BackNext(n)[g] \in S
      PROVE  Given(rest, n, g, back[g])
  <2>1. PICK r, l, b : r = rest[Newest(g)][n] /\ l = Len(g) /\ b = Before(g)
    OBVIOUS
  <2>2. l \in Nat /\ l >= 1 /\ r = rest[g[l]][n]
    BY <2>1, HistoryFacts DEF Newest
  <2>3. back[g] = IF g \in BackEnds(rest, n) THEN r ELSE After(r, back[b])
    BY <1>1, <2>1, BackRound
  <2>4. CASE ~Rejected(r)
    <3>1. back[g] = r
      BY <2>1, <2>3, <2>4 DEF BackEnds, Rejected
    <3>2. l \in 1..Len(g) /\ \A j \in (l + 1)..Len(g) : FALSE
      BY <2>1, <2>2
    <3> QED BY <2>2, <2>4, <3>1, <3>2 DEF Given, SameEnd
  <2>5. CASE Rejected(r) /\ l = 1
    <3>1. back[g] = r
      BY <2>1, <2>3, <2>5 DEF BackEnds
    <3>2. \A k \in 1..Len(g) : k = l
      BY <2>1, <2>5
    <3> QED BY <2>2, <2>5, <3>1, <3>2 DEF Given
  <2>6. CASE Rejected(r) /\ l # 1
    <3>1. g \notin BackEnds(rest, n)
      BY <2>1, <2>6 DEF BackEnds, Rejected
    <3>2. PICK s, v : s = back[b] /\ v = After(r, s)
      OBVIOUS
    <3>3. back[g] = v /\ v.error = s.error /\ v.end = s.end
      BY <2>3, <3>1, <3>2 DEF After, Result
    <3>4. Given(rest, n, b, s)
      BY <1>2, <2>1, <3>1, <3>2 DEF BackNext
    <3>5. Len(b) = l - 1 /\ \A k \in 1..Len(b) : b[k] = g[k]
      BY <2>1, <2>6, PopHistory DEF Before
    <3>6. CASE Rejected(s) /\ \A k \in 1..Len(b) : Rejected(rest[b[k]][n])
      <4>1. ASSUME NEW k \in 1..l PROVE Rejected(rest[g[k]][n])
        <5>1. k = l \/ k \in 1..(l - 1)
          BY <2>2
        <5> QED BY <2>2, <2>6, <3>5, <3>6, <5>1
      <4> QED BY <2>1, <3>3, <3>6, <4>1 DEF Given, Rejected, Ok, Incomplete
    <3>7. CASE \E k \in 1..Len(b) : /\ ~Rejected(rest[b[k]][n]) /\ SameEnd(s, rest[b[k]][n])
                                    /\ \A j \in (k + 1)..Len(b) : Rejected(rest[b[j]][n])
      <4>1. PICK k \in 1..(l - 1) : /\ ~Rejected(rest[b[k]][n]) /\ SameEnd(s, rest[b[k]][n])
                                    /\ \A j \in (k + 1)..(l - 1) : Rejected(rest[b[j]][n])
        BY <3>5, <3>7
      <4>2. k \in 1..l /\ b[k] = g[k]
        BY <2>2, <3>5
      <4>3. ASSUME NEW j \in (k + 1)..l PROVE Rejected(rest[g[j]][n])
        <5>1. j = l \/ (j \in (k + 1)..(l - 1) /\ j \in 1..(l - 1))
          BY <2>2
        <5> QED BY <2>2, <2>6, <3>5, <4>1, <5>1
      <4>4. SameEnd(v, rest[g[k]][n]) /\ ~Rejected(rest[g[k]][n])
        BY <3>3, <4>1, <4>2 DEF SameEnd
      <4> QED BY <2>1, <3>3, <4>2, <4>3, <4>4 DEF Given
    <3> QED BY <3>4, <3>6, <3>7 DEF Given
  <2> QED BY <2>4, <2>5, <2>6
<1>3. Histories(n) \subseteq S
  <2>1. \A g \in Histories(n) : (g \notin BackEnds(rest, n) => BackNext(n)[g] \in S) => g \in S
    BY <1>2
  <2> HIDE DEF S
  <2> QED BY <2>1, BackDescends, ByDescent
<1> QED BY <1>1, <1>3

(* The positions that the repetition passed, each a copy after the last.   *)
IsRun(p, n, c) ==
    \A k \in 1..(Len(c) - 1) : LET r == p[c[k]][n]
                               IN Ok(r) /\ r.end # c[k] /\ c[k + 1] = r.end

(* There is no further copy.                                               *)
RunEnds(p, n, c) == LET r == p[Newest(c)][n]
                    IN ~Incomplete(r) /\ (Ok(r) => r.end = Newest(c))

(* h holds the newest positions of c, at most memorySize of them.          *)
Remembers(c, h, memorySize) ==
    /\ Len(h) = IF Len(c) > memorySize THEN memorySize ELSE Len(c)
    /\ \A k \in 1..Len(h) : h[k] = c[Len(c) - Len(h) + k]

(* Of the newest memorySize positions the last that rest does not reject   *)
(* decides; it is rejected when they all are.                              *)
GivesBackTheLeast(rest, n, c, memorySize, v) ==
    LET kept == {k \in 1..Len(c) : k > Len(c) - memorySize}
    IN \/ Rejected(v) /\ \A k \in kept : Rejected(rest[c[k]][n])
       \/ \E k \in kept : /\ ~Rejected(rest[c[k]][n]) /\ SameEnd(v, rest[c[k]][n])
                          /\ \A j \in kept : j > k => Rejected(rest[c[j]][n])

\* What is said of the memory is said of the newest positions of the run.
LEMMA GivenOfRun ==
    ASSUME NEW rest, NEW n \in Nat, NEW c \in Histories(n), NEW h \in Histories(n), NEW v,
           NEW memorySize \in Nat \ {0}, Remembers(c, h, memorySize), Given(rest, n, h, v)
    PROVE  GivesBackTheLeast(rest, n, c, memorySize, v)
<1>1. PICK l, d : l = Len(h) /\ d = Len(c) - Len(h)
  OBVIOUS
<1>2. /\ l \in Nat /\ l >= 1 /\ d \in Nat /\ Len(c) = d + l
      /\ \A k \in 1..l : h[k] = c[d + k]
  <2>1. PICK m : m = Len(c)
    OBVIOUS
  <2>2. l \in Nat /\ l >= 1 /\ m \in Nat /\ d = m - l
    BY <1>1, <2>1, HistoryFacts
  <2>3. l = IF m > memorySize THEN memorySize ELSE m
    BY <1>1, <2>1 DEF Remembers
  <2>4. d \in Nat /\ m = d + l
    BY <2>2, <2>3
  <2>5. \A k \in 1..l : h[k] = c[d + k]
    BY <1>1 DEF Remembers
  <2> QED BY <2>1, <2>2, <2>4, <2>5
<1> DEFINE kept == {k \in 1..Len(c) : k > Len(c) - memorySize}
<1>3. \A k \in kept : k - d \in 1..l /\ k = d + (k - d)
  <2>1. l = IF Len(c) > memorySize THEN memorySize ELSE Len(c)
    BY <1>1 DEF Remembers
  <2> QED BY <1>2, <2>1
<1>4. \A k \in 1..l : d + k \in kept
  <2>1. l = IF Len(c) > memorySize THEN memorySize ELSE Len(c)
    BY <1>1 DEF Remembers
  <2> QED BY <1>2, <2>1
<1>5. CASE Rejected(v) /\ \A k \in 1..Len(h) : Rejected(rest[h[k]][n])
  <2>1. ASSUME NEW k \in kept PROVE Rejected(rest[c[k]][n])
    <3>1. h[k - d] = c[k] /\ k - d \in 1..l
      BY <1>2, <1>3
    <3> HIDE DEF kept
    <3> QED BY <1>1, <1>5, <3>1
  <2> QED BY <1>5, <2>1 DEF GivesBackTheLeast
<1>6. CASE \E k \in 1..Len(h) : /\ ~Rejected(rest[h[k]][n]) /\ SameEnd(v, rest[h[k]][n])
                                /\ \A j \in (k + 1)..Len(h) : Rejected(rest[h[j]][n])
  <2>1. PICK k \in 1..l : /\ ~Rejected(rest[h[k]][n]) /\ SameEnd(v, rest[h[k]][n])
                          /\ \A j \in (k + 1)..l : Rejected(rest[h[j]][n])
    BY <1>1, <1>6
  <2>2. d + k \in kept /\ h[k] = c[d + k]
    BY <1>2, <1>4
  <2>3. ASSUME NEW j \in kept, j > d + k PROVE Rejected(rest[c[j]][n])
    <3>1. h[j - d] = c[j] /\ j - d \in (k + 1)..l
      BY <1>2, <1>3, <2>3
    <3> HIDE DEF kept
    <3> QED BY <2>1, <3>1
  <2> QED BY <2>1, <2>2, <2>3 DEF GivesBackTheLeast
<1> QED BY <1>5, <1>6 DEF Given

(* A copy more: of the run and of the memory.                              *)
LEMMA LongerRun ==
    ASSUME NEW p, NEW n \in Nat, NEW c \in Histories(n), NEW h \in Histories(n),
           NEW memorySize \in Nat \ {0}, Remembers(c, h, memorySize), IsRun(p, n, c),
           NEW e \in 0..n, Ok(p[Newest(c)][n]), e = p[Newest(c)][n].end, e # Newest(c),
           NEW g, g = Remember(h, e, memorySize)
    PROVE  \E d \in Histories(n) : d[1] = c[1] /\ IsRun(p, n, d) /\ Remembers(d, g, memorySize)
<1>1. PICK d : d = Append(c, e)
  OBVIOUS
<1>2. c \in Seq(0..n) /\ Len(c) \in Nat /\ Len(c) >= 1
  BY HistoryFacts DEF Histories
<1>3. /\ d \in Seq(0..n) /\ Len(d) = Len(c) + 1 /\ d[Len(c) + 1] = e
      /\ \A k \in 1..Len(c) : d[k] = c[k]
  BY <1>1, <1>2
<1>4. d \in Histories(n) /\ d[1] = c[1]
  <2>1. d # << >>
    BY <1>2, <1>3
  <2> QED BY <1>2, <1>3, <2>1 DEF Histories
<1>5. IsRun(p, n, d)
  <2>1. ASSUME NEW k \in 1..(Len(d) - 1)
        PROVE  Ok(p[d[k]][n]) /\ p[d[k]][n].end # d[k] /\ d[k + 1] = p[d[k]][n].end
    <3>1. CASE k = Len(c)
      BY <1>2, <1>3, <3>1 DEF Newest
    <3>2. CASE k # Len(c)
      <4>1. k \in 1..(Len(c) - 1) /\ k \in 1..Len(c) /\ k + 1 \in 1..Len(c)
        BY <1>2, <1>3, <3>2
      <4> QED BY <1>3, <4>1 DEF IsRun
    <3> QED BY <3>1, <3>2
  <2> QED BY <2>1 DEF IsRun
<1>6. PICK l, m, gl, gn : l = Len(h) /\ m = Len(c) /\ gl = Len(g) /\ gn = g[Len(g)]
  OBVIOUS
<1>7. /\ l = IF m > memorySize THEN memorySize ELSE m
      /\ \A k \in 1..l : h[k] = c[m - l + k]
  BY <1>6 DEF Remembers
<1>8. /\ gn = e
      /\ \/ gl = l + 1 /\ \A k \in 1..l : g[k] = h[k]
         \/ gl = l /\ \A k \in 1..(l - 1) : g[k] = h[k + 1]
  <2>1. /\ Newest(g) = e
        /\ \/ Len(g) = Len(h) + 1 /\ \A k \in 1..Len(h) : g[k] = h[k]
           \/ Len(g) = Len(h) /\ \A k \in 1..(Len(h) - 1) : g[k] = h[k + 1]
    <3>1. g = Remember(h, e, memorySize)
      OBVIOUS
    <3> QED BY <3>1, RememberHistory
  <2> QED BY <1>6, <2>1 DEF Newest
<1>9. gl = IF l + 1 > memorySize THEN l ELSE l + 1
  <2>1. PICK all : all = Append(h, e)
    OBVIOUS
  <2>2. h \in Seq(0..n) /\ all \in Seq(0..n) /\ l \in Nat /\ Len(all) = l + 1
    BY <1>6, <2>1, HistoryFacts DEF Histories
  <2>3. g = IF Len(all) > memorySize THEN Tail(all) ELSE all
    BY <2>1 DEF Remember
  <2>4. Len(Tail(all)) = l
    BY <2>2
  <2> QED BY <1>6, <2>2, <2>3, <2>4
<1>10. Remembers(d, g, memorySize)
  <2>1. l \in Nat /\ l >= 1 /\ m \in Nat /\ m >= 1 /\ Len(d) = m + 1
    BY <1>2, <1>3, <1>6, HistoryFacts
  <2>2. gl = IF m + 1 > memorySize THEN memorySize ELSE m + 1
    BY <1>7, <1>9, <2>1
  <2>3. ASSUME NEW k \in 1..gl PROVE g[k] = d[(m + 1) - gl + k]
    <3>1. CASE k = gl
      <4>1. gl \in Nat /\ (m + 1) - gl + k = m + 1
        BY <2>1, <2>2, <3>1
      <4>2. g[k] = e /\ d[m + 1] = e
        BY <1>3, <1>6, <1>8, <3>1
      <4> QED BY <4>1, <4>2
    <3>2. CASE k # gl /\ gl = l + 1 /\ \A j \in 1..l : g[j] = h[j]
      <4>1. k \in 1..l /\ m - l + k \in 1..m /\ (m + 1) - gl + k = m - l + k
        BY <1>7, <2>1, <3>2
      <4> QED BY <1>3, <1>6, <1>7, <3>2, <4>1
    <3>3. CASE k # gl /\ gl = l /\ \A j \in 1..(l - 1) : g[j] = h[j + 1]
      <4>1. /\ k \in 1..(l - 1) /\ k + 1 \in 1..l /\ m - l + (k + 1) \in 1..m
            /\ (m + 1) - gl + k = m - l + (k + 1)
        BY <1>7, <2>1, <3>3
      <4> QED BY <1>3, <1>6, <1>7, <3>3, <4>1
    <3> QED BY <1>8, <3>1, <3>2, <3>3
  <2> QED BY <1>6, <2>1, <2>2, <2>3 DEF Remembers
<1> QED BY <1>4, <1>5, <1>10

(* What the run c of copies is decided by.                                 *)
Decides(p, rest, n, c, memorySize, v) ==
    /\ IsRun(p, n, c)
    /\ \/ Incomplete(p[Newest(c)][n]) /\ SameEnd(v, p[Newest(c)][n])
       \/ RunEnds(p, n, c) /\ GivesBackTheLeast(rest, n, c, memorySize, v)

\* The loop that goes forward extends the run until there is no further copy.
LEMMA GoGives ==
    ASSUME NEW E, NEW p, IsParser(p, E), NEW rest, IsParser(rest, E),
           NEW memorySize \in Nat \ {0}, NEW n \in Nat, NEW h \in Histories(n),
           NEW c \in Histories(n), IsRun(p, n, c), Remembers(c, h, memorySize)
    PROVE  \E d \in Histories(n) : d[1] = c[1] /\
             Decides(p, rest, n, d, memorySize, GoForward(p, rest, memorySize, n)[h])
<1>1. PICK go : go = GoForward(p, rest, memorySize, n)
  OBVIOUS
<1> DEFINE Good(g) ==
      \A x \in Histories(n) : IsRun(p, n, x) /\ Remembers(x, g, memorySize) =>
        \E d \in Histories(n) : d[1] = x[1] /\ Decides(p, rest, n, d, memorySize, go[g])
    S == {g \in Histories(n) : Good(g)}
<1>2. ASSUME NEW g \in Histories(n), g \notin GoEnds(p, n) => GoNext(p, n, memorySize)[g] \in S,
             NEW x \in Histories(n), IsRun(p, n, x), Remembers(x, g, memorySize)
      PROVE  \E d \in Histories(n) : d[1] = x[1] /\ Decides(p, rest, n, d, memorySize, go[g])
  <2>1. PICK r, b, s, v : /\ r = p[Newest(g)][n] /\ b = Remember(g, r.end, memorySize)
                          /\ s = go[b] /\ v = BackTrack(rest, n)[g]
    OBVIOUS
  <2>2. Newest(x) = Newest(g) /\ Newest(g) \in 0..n
    <3>1. /\ Len(x) \in Nat /\ Len(g) \in Nat /\ Len(g) >= 1 /\ Newest(g) \in 0..n
      BY HistoryFacts
    <3>2. Len(g) \in 1..Len(g) /\ Len(x) - Len(g) + Len(g) = Len(x)
      BY <3>1
    <3>3. g[Len(g)] = x[Len(x) - Len(g) + Len(g)]
      BY <1>2, <3>2 DEF Remembers
    <3> QED BY <3>1, <3>2, <3>3 DEF Newest
  <2>3. r.end \in 0..n
    BY <2>1, <2>2 DEF IsParser
  <2>4. go[g] = IF Incomplete(r) THEN r
                ELSE IF Ok(r) /\ r.end # Newest(g) THEN After(r, s)
                ELSE After(r, v)
    BY <1>1, <2>1, GoRound
  <2>5. CASE Incomplete(r)
    BY <1>2, <2>1, <2>2, <2>4, <2>5 DEF Decides, SameEnd
  <2>6. CASE ~Incomplete(r) /\ Ok(r) /\ r.end # Newest(g)
    <3>1. b \in S
      BY <1>2, <2>1, <2>6 DEF GoEnds, GoNext
    <3>2. PICK y \in Histories(n) : y[1] = x[1] /\ IsRun(p, n, y) /\ Remembers(y, b, memorySize)
      BY <1>2, <2>1, <2>2, <2>3, <2>6, LongerRun
    <3>3. PICK d \in Histories(n) : d[1] = y[1] /\ Decides(p, rest, n, d, memorySize, s)
      BY <2>1, <3>1, <3>2
    <3>4. PICK w : w = After(r, s)
      OBVIOUS
    <3>5. w.end = s.end /\ w.error = s.error
      BY <3>4 DEF After, Result
    <3>6. Decides(p, rest, n, d, memorySize, w)
      BY <3>3, <3>5 DEF Decides, GivesBackTheLeast, SameEnd, Rejected, Ok, Incomplete
    <3> QED BY <2>4, <2>6, <3>2, <3>3, <3>4, <3>6
  <2>7. CASE ~Incomplete(r) /\ ~(Ok(r) /\ r.end # Newest(g))
    <3>1. PICK w : w = After(r, v)
      OBVIOUS
    <3>2. w.end = v.end /\ w.error = v.error /\ go[g] = w
      BY <2>4, <2>7, <3>1 DEF After, Result
    <3>3. Given(rest, n, g, v)
      BY <2>1, BackGives
    <3>4. GivesBackTheLeast(rest, n, x, memorySize, v)
      BY <1>2, <3>3, GivenOfRun
    <3>5. GivesBackTheLeast(rest, n, x, memorySize, w)
      BY <3>2, <3>4 DEF GivesBackTheLeast, SameEnd, Rejected, Ok, Incomplete
    <3>6. RunEnds(p, n, x)
      BY <2>1, <2>2, <2>7 DEF RunEnds
    <3> QED BY <1>2, <3>2, <3>5, <3>6 DEF Decides
  <2> QED BY <2>5, <2>6, <2>7
<1>3. Histories(n) \subseteq S
  <2>1. \A g \in Histories(n) :
          (g \notin GoEnds(p, n) => GoNext(p, n, memorySize)[g] \in S) => g \in S
    BY <1>2
  <2> HIDE DEF S
  <2> QED BY <2>1, GoDescends, ByDescent
<1>4. Good(h)
  BY <1>3
<1> QED BY <1>1, <1>4

(* RepeatAndThen takes the copies that follow each other from where it was *)
(* called; when there are no more it gives back as few as it has to, among *)
(* the last memorySize positions, and fails when rest accepts at none.     *)
THEOREM RepeatAndThenGivesBack ==
    ASSUME NEW E, NEW p, IsParser(p, E), NEW rest, IsParser(rest, E),
           NEW memorySize \in Nat \ {0}, NEW n \in Nat, NEW i \in 0..n
    PROVE  \E c \in Histories(n) : c[1] = i /\
             Decides(p, rest, n, c, memorySize, RepeatAndThen(p, rest, memorySize)[i][n])
<1>1. PICK h : h = <<i>>
  OBVIOUS
<1>2. RepeatAndThen(p, rest, memorySize)[i][n] = GoForward(p, rest, memorySize, n)[h]
  BY <1>1 DEF RepeatAndThen
<1>3. h \in Histories(n) /\ Len(h) = 1 /\ h[1] = i
  BY <1>1, FirstHistory
<1>4. IsRun(p, n, h) /\ Remembers(h, h, memorySize)
  BY <1>3 DEF IsRun, Remembers
<1> QED BY <1>2, <1>3, <1>4, GoGives

(***************************************************************************)
(* What a visitor, an optimization or the rest of a text cannot change.    *)
(***************************************************************************)
(* Two results that a parser goes on from in the same way.                 *)
Alike(r, s) ==
    /\ Ok(r) <=> Ok(s)
    /\ Incomplete(r) <=> Incomplete(s)
    /\ Ok(r) => r.end = s.end

Agree(p, q, n) == \A i \in 0..n : Alike(p[i][n], q[i][n])

\* What was visited before makes no difference to that.
LEMMA AfterAlike ==
    ASSUME NEW r, NEW s, NEW u, NEW v, Alike(s, v)
    PROVE  Alike(After(r, s), After(u, v)) /\ Alike(After(r, s), v) /\ Alike(s, After(u, v))
BY DEF Alike, After, Result, Ok, Incomplete

(* Parsers that agree can take each other's place in a sequence, a choice  *)
(* or an exception: those with and without visitors, or with and without   *)
(* the optimization of parser.h:96-97.  Force looks at where a parser that *)
(* failed stopped, and is not among them.                                  *)
THEOREM CombinatorsAgree ==
    ASSUME NEW E, NEW n \in Nat, NEW p1, NEW p2, NEW q1, NEW q2,
           IsParser(p1, E), Agree(p1, p2, n), Agree(q1, q2, n)
    PROVE  /\ Agree(Concat2(p1, q1), Concat2(p2, q2), n)
           /\ Agree(Either2(p1, q1), Either2(p2, q2), n)
           /\ Agree(Unless(p1, q1), Unless(p2, q2), n)
<1>1. ASSUME NEW i \in 0..n
      PROVE  /\ Alike(Concat2(p1, q1)[i][n], Concat2(p2, q2)[i][n])
             /\ Alike(Either2(p1, q1)[i][n], Either2(p2, q2)[i][n])
             /\ Alike(Unless(p1, q1)[i][n], Unless(p2, q2)[i][n])
  <2>1. PICK r, u : r = p1[i][n] /\ u = p2[i][n]
    OBVIOUS
  <2>2. Alike(r, u) /\ r.end \in 0..n /\ Alike(q1[i][n], q2[i][n])
    BY <2>1 DEF Agree, IsParser
  <2>3. Alike(Concat2(p1, q1)[i][n], Concat2(p2, q2)[i][n])
    <3>1. /\ Concat2(p1, q1)[i][n] = IF Ok(r) THEN After(r, q1[r.end][n]) ELSE r
          /\ Concat2(p2, q2)[i][n] = IF Ok(u) THEN After(u, q2[u.end][n]) ELSE u
      BY <2>1 DEF Concat2
    <3>2. CASE Ok(r)
      <4>1. u.end = r.end /\ Ok(u) /\ Alike(q1[r.end][n], q2[r.end][n])
        BY <2>2, <3>2 DEF Alike, Agree
      <4> QED BY <3>1, <3>2, <4>1, AfterAlike
    <3>3. CASE ~Ok(r)
      BY <2>2, <3>1, <3>3 DEF Alike
    <3> QED BY <3>2, <3>3
  <2>4. Alike(After(r, q1[i][n]), After(u, q2[i][n]))
    BY <2>2, AfterAlike
  <2>5. Alike(Either2(p1, q1)[i][n], Either2(p2, q2)[i][n])
    <3>1. /\ Either2(p1, q1)[i][n] = IF Ok(r) \/ Incomplete(r) THEN r ELSE After(r, q1[i][n])
          /\ Either2(p2, q2)[i][n] = IF Ok(u) \/ Incomplete(u) THEN u ELSE After(u, q2[i][n])
      BY <2>1 DEF Either2
    <3> QED BY <2>2, <2>4, <3>1 DEF Alike
  <2>6. Alike(Unless(p1, q1)[i][n], Unless(p2, q2)[i][n])
    <3>1. /\ Unless(p1, q1)[i][n] =
               IF Incomplete(r) THEN r
               ELSE IF Ok(r) THEN Result(r.end, "FAILED_CONDITION", r.effects)
               ELSE After(r, q1[i][n])
          /\ Unless(p2, q2)[i][n] =
               IF Incomplete(u) THEN u
               ELSE IF Ok(u) THEN Result(u.end, "FAILED_CONDITION", u.effects)
               ELSE After(u, q2[i][n])
      BY <2>1 DEF Unless
    <3>2. Alike(Result(r.end, "FAILED_CONDITION", r.effects),
                Result(u.end, "FAILED_CONDITION", u.effects))
      BY DEF Alike, Result, Ok, Incomplete
    <3> QED BY <2>2, <2>4, <3>1, <3>2 DEF Alike
  <2> QED BY <2>3, <2>5, <2>6
<1> QED BY <1>1 DEF Agree

\* They can in a repetition,
LEMMA RepeatAgrees ==
    ASSUME NEW D, NEW E, NEW n \in Nat, NEW p, NEW q, IsParser(p, D), IsParser(q, E),
           Agree(p, q, n)
    PROVE  Agree(Repeat(p), Repeat(q), n)
<1> DEFINE S == {i \in 0..n : Alike(Repeat(p)[i][n], Repeat(q)[i][n])}
<1>1. ASSUME NEW i \in 0..n, i \notin LoopEnds(p, n) => LoopNext(p, n)[i] \in S
      PROVE  Alike(Repeat(p)[i][n], Repeat(q)[i][n])
  <2>1. PICK r, u, s, v : /\ r = p[i][n] /\ u = q[i][n]
                          /\ s = Repeat(p)[r.end][n] /\ v = Repeat(q)[u.end][n]
    OBVIOUS
  <2>2. Alike(r, u)
    BY <2>1 DEF Agree
  <2>3. /\ Repeat(p)[i][n] = IF Incomplete(r) THEN r
                             ELSE IF Ok(r) /\ r.end # i THEN After(r, s)
                             ELSE Result(i, "NONE", r.effects)
        /\ Repeat(q)[i][n] = IF Incomplete(u) THEN u
                             ELSE IF Ok(u) /\ u.end # i THEN After(u, v)
                             ELSE Result(i, "NONE", u.effects)
    BY <2>1, RepeatRound
  <2>4. Ok(r) /\ r.end # i => Alike(After(r, s), After(u, v))
    <3>1. SUFFICES ASSUME Ok(r), r.end # i PROVE Alike(s, v)
      BY AfterAlike
    <3>2. u.end = r.end
      BY <2>2, <3>1 DEF Alike
    <3> QED BY <1>1, <2>1, <3>1, <3>2 DEF LoopEnds, LoopNext
  <2>5. Alike(Result(i, "NONE", r.effects), Result(i, "NONE", u.effects))
    BY DEF Alike, Result, Ok, Incomplete
  <2> QED BY <2>2, <2>3, <2>4, <2>5 DEF Alike
<1>2. 0..n \subseteq S
  <2>1. \A i \in 0..n : (i \notin LoopEnds(p, n) => LoopNext(p, n)[i] \in S) => i \in S
    BY <1>1
  <2> HIDE DEF S
  <2> QED BY <2>1, LoopDescends, ByDescent
<1> QED BY <1>2 DEF Agree

\* when rest is tried from the same positions,
LEMMA BackAgrees ==
    ASSUME NEW n \in Nat, NEW p, NEW q, Agree(p, q, n), NEW h \in Histories(n)
    PROVE  Alike(BackTrack(p, n)[h], BackTrack(q, n)[h])
<1>1. PICK f, g : f = BackTrack(p, n) /\ g = BackTrack(q, n)
  OBVIOUS
<1> DEFINE S == {x \in Histories(n) : Alike(f[x], g[x])}
<1>2. ASSUME NEW x \in Histories(n), x \notin BackEnds(p, n) => BackNext(n)[x] \in S
      PROVE  Alike(f[x], g[x])
  <2>1. PICK r, u : r = p[Newest(x)][n] /\ u = q[Newest(x)][n]
    OBVIOUS
  <2>2. Alike(r, u)
    BY <2>1, HistoryFacts DEF Agree
  <2>3. /\ f[x] = IF x \in BackEnds(p, n) THEN r ELSE After(r, f[Before(x)])
        /\ g[x] = IF x \in BackEnds(q, n) THEN u ELSE After(u, g[Before(x)])
    BY <1>1, <2>1, BackRound
  <2>4. x \in BackEnds(p, n) <=> x \in BackEnds(q, n)
    BY <2>1, <2>2 DEF BackEnds, Alike
  <2>5. x \notin BackEnds(p, n) => Alike(After(r, f[Before(x)]), After(u, g[Before(x)]))
    BY <1>2, AfterAlike DEF BackNext
  <2> QED BY <2>2, <2>3, <2>4, <2>5
<1>3. Histories(n) \subseteq S
  <2>1. \A x \in Histories(n) : (x \notin BackEnds(p, n) => BackNext(n)[x] \in S) => x \in S
    BY <1>2
  <2> HIDE DEF S
  <2> QED BY <2>1, BackDescends, ByDescent
<1> QED BY <1>1, <1>3

\* and so in a RepeatAndThen.
LEMMA RepeatAndThenAgrees ==
    ASSUME NEW D, NEW E, NEW n \in Nat, NEW p, NEW q, IsParser(p, D), IsParser(q, E),
           Agree(p, q, n), NEW rest, NEW other, Agree(rest, other, n), NEW memorySize
    PROVE  Agree(RepeatAndThen(p, rest, memorySize), RepeatAndThen(q, other, memorySize), n)
<1>1. PICK f, g : /\ f = GoForward(p, rest, memorySize, n)
                  /\ g = GoForward(q, other, memorySize, n)
  OBVIOUS
<1> DEFINE S == {x \in Histories(n) : Alike(f[x], g[x])}
<1>2. ASSUME NEW x \in Histories(n), x \notin GoEnds(p, n) => GoNext(p, n, memorySize)[x] \in S
      PROVE  Alike(f[x], g[x])
  <2>1. PICK r, u, b, c : /\ r = p[Newest(x)][n] /\ b = BackTrack(rest, n)[x]
                          /\ u = q[Newest(x)][n] /\ c = BackTrack(other, n)[x]
    OBVIOUS
  <2>2. Alike(r, u) /\ Alike(b, c)
    BY <2>1, HistoryFacts, BackAgrees DEF Agree
  <2>3. PICK s, v : s = f[Remember(x, r.end, memorySize)] /\ v = g[Remember(x, u.end, memorySize)]
    OBVIOUS
  <2>4. f[x] = IF Incomplete(r) THEN r
               ELSE IF Ok(r) /\ r.end # Newest(x) THEN After(r, s)
               ELSE After(r, b)
    BY <1>1, <2>1, <2>3, GoRound
  <2>5. g[x] = IF Incomplete(u) THEN u
               ELSE IF Ok(u) /\ u.end # Newest(x) THEN After(u, v)
               ELSE After(u, c)
    BY <1>1, <2>1, <2>3, GoRound
  <2>6. Ok(r) /\ r.end # Newest(x) => Alike(After(r, s), After(u, v))
    <3>1. SUFFICES ASSUME Ok(r), r.end # Newest(x) PROVE Alike(s, v)
      BY AfterAlike
    <3>2. u.end = r.end
      BY <2>2, <3>1 DEF Alike
    <3> QED BY <1>2, <2>1, <2>3, <3>1, <3>2 DEF GoEnds, GoNext
  <2>7. Alike(After(r, b), After(u, c))
    BY <2>2, AfterAlike
  <2> QED BY <2>2, <2>4, <2>5, <2>6, <2>7 DEF Alike
<1>3. Histories(n) \subseteq S
  <2>1. \A x \in Histories(n) :
          (x \notin GoEnds(p, n) => GoNext(p, n, memorySize)[x] \in S) => x \in S
    BY <1>2
  <2> HIDE DEF S
  <2> QED BY <2>1, GoDescends, ByDescent
<1>4. ASSUME NEW i \in 0..n
      PROVE  Alike(RepeatAndThen(p, rest, memorySize)[i][n],
                   RepeatAndThen(q, other, memorySize)[i][n])
  <2>1. PICK h : h = <<i>>
    OBVIOUS
  <2>2. /\ RepeatAndThen(p, rest, memorySize)[i][n] = f[h]
        /\ RepeatAndThen(q, other, memorySize)[i][n] = g[h]
    BY <1>1, <2>1 DEF RepeatAndThen
  <2>3. h \in Histories(n)
    BY <2>1, FirstHistory
  <2> QED BY <1>3, <2>2, <2>3
<1> QED BY <1>4 DEF Agree

(* Parsers that agree can take each other's place in a repetition.         *)
THEOREM LoopsAgree ==
    ASSUME NEW D, NEW E, NEW n \in Nat, NEW p, NEW q, IsParser(p, D), IsParser(q, E),
           Agree(p, q, n)
    PROVE  /\ Agree(Repeat(p), Repeat(q), n)
           /\ \A rest, other, memorySize : Agree(rest, other, n) =>
                Agree(RepeatAndThen(p, rest, memorySize), RepeatAndThen(q, other, memorySize), n)
BY RepeatAgrees, RepeatAndThenAgrees

(* Where nothing is visited a choice of two sets of characters is one set, *)
(* an exception is a difference, and AnyChar is the set of all: what the   *)
(* optimized parser looks up in a table (char_class.h, either.h).          *)
THEOREM OneClassWillDo ==
    ASSUME NEW t, NEW A, NEW B, NEW n \in Nat
    PROVE  /\ Agree(Either2(OneOf(t, A), OneOf(t, B)), CharClass(t, A \cup B), n)
           /\ Agree(Unless(OneOf(t, A), OneOf(t, B)), CharClass(t, B \ A), n)
           /\ (\A k \in 1..n : t[k] \in A) => Agree(AnyChar(t), CharClass(t, A), n)
<1>1. Agree(Either2(OneOf(t, A), OneOf(t, B)), CharClass(t, A \cup B), n)
  BY DEF Agree, Alike, Either2, OneOf, CharClass, After, Result, Ok, Incomplete
<1>2. Agree(Unless(OneOf(t, A), OneOf(t, B)), CharClass(t, B \ A), n)
  BY DEF Agree, Alike, Unless, OneOf, CharClass, After, Result, Ok, Incomplete
<1>3. (\A k \in 1..n : t[k] \in A) => Agree(AnyChar(t), CharClass(t, A), n)
  BY DEF Agree, Alike, AnyChar, OneOf, CharClass, Result, Ok, Incomplete
<1> QED BY <1>1, <1>2, <1>3

(***************************************************************************)
(* What is read of a text                                                  *)
(***************************************************************************)
SameOn(p, q, n) == \A i \in 0..n : p[i][n] = q[i][n]

(* On two texts that begin alike a terminal answers alike for any range    *)
(* that ends where they do: it reads no character beyond it.               *)
THEOREM TerminalsReadTheRange ==
    ASSUME NEW t, NEW u, NEW n \in Nat, \A k \in 1..n : t[k] = u[k],
           NEW chars, NEW token, Len(token) \in Nat
    PROVE  /\ SameOn(OneOf(t, chars), OneOf(u, chars), n)
           /\ SameOn(AnyChar(t), AnyChar(u), n)
           /\ SameOn(Token(t, token), Token(u, token), n)
<1>1. SameOn(OneOf(t, chars), OneOf(u, chars), n) /\ SameOn(AnyChar(t), AnyChar(u), n)
  BY DEF SameOn, OneOf, AnyChar
<1>2. SameOn(Token(t, token), Token(u, token), n)
  <2>1. ASSUME NEW i \in 0..n
        PROVE  Token(t, token)[i][n] = Token(u, token)[i][n]
    <3> DEFINE size == IF n - i < Len(token) THEN n - i ELSE Len(token)
               diff(x) == {k \in 1..size : x[i + k] # token[k]}
               first(x) == CHOOSE k \in diff(x) : \A j \in diff(x) : k <= j
    <3>1. diff(t) = diff(u)
      <4>1. \A k \in 1..size : i + k \in 1..n
        OBVIOUS
      <4> QED BY <4>1
    <3>2. \A x \in {t, u} : Token(x, token)[i][n] =
            IF diff(x) # {} THEN Result(i + first(x) - 1, "BAD_CHAR", << >>)
            ELSE Result(i + size, IF size < Len(token) THEN "INCOMPLETE" ELSE "NONE", << >>)
      BY DEF Token
    <3> HIDE DEF diff, size
    <3> QED BY <3>1, <3>2
  <2> QED BY <2>1 DEF SameOn
<1> QED BY <1>1, <1>2

\* A repetition reads what its part reads,
LEMMA RepeatSame ==
    ASSUME NEW n \in Nat, NEW p, NEW q, SameOn(p, q, n)
    PROVE  SameOn(Repeat(p), Repeat(q), n)
<1> DEFINE Body(x, f, j) == LET r == x[j][n]
                            IN IF Incomplete(r) THEN r
                               ELSE IF Ok(r) /\ r.end # j THEN After(r, f[r.end])
                               ELSE Result(j, "NONE", r.effects)
           Loop(x, f) == f = [j \in 0..n |-> Body(x, f, j)]
<1>1. \A j \in 0..n : p[j][n] = q[j][n]
  BY DEF SameOn
<1>2. ASSUME NEW f PROVE Loop(p, f) <=> Loop(q, f)
  BY <1>1
<1>3. (CHOOSE f : Loop(p, f)) = (CHOOSE f : Loop(q, f))
  <2> HIDE DEF Loop
  <2> QED BY <1>2, Zenon
<1>4. \A x \in {p, q} : \A i \in 0..n : Repeat(x)[i][n] = (CHOOSE f : Loop(x, f))[i]
  BY DEF Repeat
<1> HIDE DEF Loop
<1> QED BY <1>3, <1>4 DEF SameOn

\* and RepeatAndThen what its parts read.
LEMMA RepeatAndThenSame ==
    ASSUME NEW n \in Nat, NEW p, NEW q, SameOn(p, q, n), NEW rest, NEW other,
           SameOn(rest, other, n), NEW memorySize
    PROVE  SameOn(RepeatAndThen(p, rest, memorySize), RepeatAndThen(q, other, memorySize), n)
<1>1. BackTrack(rest, n) = BackTrack(other, n)
  <2> DEFINE Body(x, f, g) == LET r == x[g[Len(g)]][n]
                              IN IF Ok(r) \/ Incomplete(r) \/ Len(g) = 1 THEN r
                                 ELSE After(r, f[SubSeq(g, 1, Len(g) - 1)])
             Loop(x, f) == f = [g \in Histories(n) |-> Body(x, f, g)]
  <2>1. \A g \in Histories(n) : rest[g[Len(g)]][n] = other[g[Len(g)]][n]
    BY HistoryFacts DEF SameOn, Newest
  <2>2. ASSUME NEW f PROVE Loop(rest, f) <=> Loop(other, f)
    <3>1. \A g \in Histories(n) : Body(rest, f, g) = Body(other, f, g)
      BY <2>1
    <3> HIDE DEF Body
    <3> QED BY <3>1
  <2>3. \A x \in {rest, other} : BackTrack(x, n) = CHOOSE f : Loop(x, f)
    BY DEF BackTrack
  <2> HIDE DEF Loop
  <2>4. (CHOOSE f : Loop(rest, f)) = (CHOOSE f : Loop(other, f))
    BY <2>2, Zenon
  <2> QED BY <2>3, <2>4
<1>2. GoForward(p, rest, memorySize, n) = GoForward(q, other, memorySize, n)
  <2>0. PICK back : back = BackTrack(rest, n) /\ back = BackTrack(other, n)
    BY <1>1
  <2> DEFINE Body(x, f, g) == LET s == x[g[Len(g)]][n]
                              IN IF Incomplete(s) THEN s
                                 ELSE IF Ok(s) /\ s.end # g[Len(g)]
                                      THEN After(s, f[Remember(g, s.end, memorySize)])
                                 ELSE After(s, back[g])
             Loop(x, f) == f = [g \in Histories(n) |-> Body(x, f, g)]
  <2>1. \A g \in Histories(n) : p[g[Len(g)]][n] = q[g[Len(g)]][n]
    BY HistoryFacts DEF SameOn, Newest
  <2>2. ASSUME NEW f PROVE Loop(p, f) <=> Loop(q, f)
    <3>1. \A g \in Histories(n) : Body(p, f, g) = Body(q, f, g)
      BY <2>1
    <3> HIDE DEF Body
    <3> QED BY <3>1
  <2>3. /\ GoForward(p, rest, memorySize, n) = CHOOSE f : Loop(p, f)
        /\ GoForward(q, other, memorySize, n) = CHOOSE f : Loop(q, f)
    BY <2>0 DEF GoForward
  <2> HIDE DEF Loop
  <2>4. (CHOOSE f : Loop(p, f)) = (CHOOSE f : Loop(q, f))
    BY <2>2, Zenon
  <2> QED BY <2>3, <2>4
<1> QED BY <1>2 DEF SameOn, RepeatAndThen

(* A combinator reads what its parts read of the range it is called with,  *)
(* and nothing else, for the result and for what its visitors did.         *)
THEOREM CombinatorsReadTheRange ==
    ASSUME NEW E, NEW n \in Nat, NEW p1, NEW p2, NEW q1, NEW q2,
           IsParser(p1, E), SameOn(p1, p2, n), SameOn(q1, q2, n)
    PROVE  /\ SameOn(Concat2(p1, q1), Concat2(p2, q2), n)
           /\ SameOn(Either2(p1, q1), Either2(p2, q2), n)
           /\ SameOn(Unless(p1, q1), Unless(p2, q2), n)
           /\ SameOn(ForceParse(p1), ForceParse(p2), n)
           /\ SameOn(Repeat(p1), Repeat(p2), n)
           /\ \A memorySize : SameOn(RepeatAndThen(p1, q1, memorySize),
                                     RepeatAndThen(p2, q2, memorySize), n)
<1>1. SameOn(Concat2(p1, q1), Concat2(p2, q2), n)
  BY DEF SameOn, Concat2, IsParser
<1>2. SameOn(Either2(p1, q1), Either2(p2, q2), n)
  BY DEF SameOn, Either2
<1>3. SameOn(Unless(p1, q1), Unless(p2, q2), n)
  BY DEF SameOn, Unless
<1>4. SameOn(ForceParse(p1), ForceParse(p2), n)
  BY DEF SameOn, ForceParse
<1> QED BY <1>1, <1>2, <1>3, <1>4, RepeatSame, RepeatAndThenSame

(* Every combinator of parsers that stay within the range stays within it. *)
THEOREM CombinatorsStayInRange ==
    ASSUME NEW E, NEW p, NEW q, IsParser(p, E), IsParser(q, E)
    PROVE  /\ IsParser(Concat2(p, q), E) /\ IsParser(Either2(p, q), E)
           /\ IsParser(Unless(p, q), E) /\ IsParser(ForceParse(p), E)
           /\ IsParser(Repeat(p), E)
           /\ \A memorySize : IsParser(RepeatAndThen(p, q, memorySize), E)
BY Concat2Parser, Either2Parser, UnlessParser, ForceParser, RepeatParser, RepeatAndThenParser
=============================================================================
