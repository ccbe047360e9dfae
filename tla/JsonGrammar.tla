----------------------------- MODULE JsonGrammar -----------------------------
(***************************************************************************)
(* src/hittop/json/grammar.h.  The rules that a visitor names are Rules;   *)
(* each is a type of its own there.                                        *)
(***************************************************************************)
EXTENDS Terms

digit     == Filter(isdigit)
digit_1_9 == Not(Lit("0"), digit)
hex_digit == Filter(isxdigit)

StringContents ==
    Star(Alt(<<Not(Alt(<<Lit("\""), Lit("\\"), Filter(iscntrl)>>), AnyOne),
               Cat(<<Lit("\\"), Alt(LitOf("\"\\/bfnrt").parts
                                    \o <<Cat(<<Lit("u"), Exactly(4, hex_digit)>>)>>)>>)>>))
String == Trim(Cat(<<Lit("\""), Rule("StringContents"), Lit("\"")>>))
Number ==
    Trim(Cat(<<Opt(Lit("-")),
               Alt(<<Lit("0"), Cat(<<digit_1_9, Star(digit)>>)>>),
               Opt(Cat(<<Lit("."), AtLeast(1, digit)>>)),
               Opt(Cat(<<LitOf("eE"), Opt(LitOf("+-")), AtLeast(1, digit)>>))>>))
Property == Cat(<<Trim(String), Lit(":"), Trim(Rule("Value"))>>)
Object   == Trim(Cat(<<Lit("{"), Inter(Rule("Property"), Lit(",")), Lit("}")>>))

Array    == Trim(Cat(<<Lit("["), Inter(Trim(Rule("Value")), Lit(",")), Lit("]")>>))
Boolean  == Trim(Alt(<<Tok("true"), Tok("false")>>))
Value    == Alt(<<String, Rule("Number"), Rule("Object"), Rule("Array"), Rule("Boolean"), Rule("Null")>>)

JsonRules == [StringContents |-> StringContents, Number |-> Number, Property |-> Property,
              Object |-> Object, Array |-> Array, Boolean |-> Boolean, Null |-> Tok("null"),
              Value |-> Value]
=============================================================================
