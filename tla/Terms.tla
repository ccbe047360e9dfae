-------------------------------- MODULE Terms --------------------------------
(***************************************************************************)
(* Grammars as data: the types of src/hittop/parser that a grammar is      *)
(* written with, as terms.  The combinators that only inherit the parser   *)
(* of another grammar are the term they inherit from.                      *)
(***************************************************************************)
EXTENDS Integers, Sequences

(* The characters of a string, as a set and as a text. *)
CharsOf(s) == {SubSeq(s, k, k) : k \in 1..Len(s)}
TextOf(s)  == [k \in 1..Len(s) |-> SubSeq(s, k, k)]

(* <cctype>, for the characters of ASCII that a text here may hold. *)
isdigit  == CharsOf("0123456789")
isxdigit == isdigit \cup CharsOf("abcdefABCDEF")
isalpha  == CharsOf("ABCDEFGHIJKLMNOPQRSTUVWXYZabcdefghijklmnopqrstuvwxyz")
isalnum  == isalpha \cup isdigit
isspace  == CharsOf(" \t\n\f\r")
iscntrl  == CharsOf("\t\n\f\r")
Char     == isalnum \cup isspace \cup CharsOf("!\"#$%&'()*+,-./:;<=>?@[\\]^_{|}~")

Lit(c)         == [op |-> "Literal", char |-> c]
Filter(chars)  == [op |-> "CharFilter", chars |-> chars]
AnyOne         == [op |-> "AnyChar"]
Nothing        == [op |-> "Success"]
Tok(s)         == [op |-> "Token", token |-> TextOf(s)]
Cat(parts)     == [op |-> "Concat", parts |-> parts]
Alt(parts)     == [op |-> "Either", parts |-> parts]
Star(g)        == [op |-> "Repeat", of |-> g]
StarThen(g, r) == [op |-> "RepeatAndThen", of |-> g, rest |-> r]
Not(x, g)      == [op |-> "Unless", reject |-> x, of |-> g]
Forced(g)      == [op |-> "Force", of |-> g]
Rule(name)     == [op |-> "Rule", name |-> name]
LitOf(s)       == Alt([k \in 1..Len(s) |-> Lit(SubSeq(s, k, k))])

Opt(g)         == Alt(<<g, Nothing>>)
Exactly(k, g)  == Cat([j \in 1..k |-> g])
AtLeast(k, g)  == Cat(<<Exactly(k, g), Star(g)>>)
AtMost(k, g)   ==
    LET upTo[j \in Nat] == IF j = 0 THEN Nothing ELSE IF j = 1 THEN Opt(g)
                           ELSE Opt(Cat(<<g, Opt(upTo[j - 1])>>))
    IN upTo[k]

Between(j, k, g)     == Cat(<<Exactly(j, g), AtMost(k - j, g)>>)
Inter(g, d)    == Opt(Cat(<<g, Star(Cat(<<d, g>>))>>))

Trim(g)        == Cat(<<Forced(Star(Filter(isspace))), g, Forced(Star(Filter(isspace)))>>)
ImpliedDelim(d, parts) ==
    Cat([k \in 1..(2 * Len(parts) - 1) |-> IF k % 2 = 1 THEN parts[(k + 1) \div 2] ELSE d])
=============================================================================
