----------------------------- MODULE JsonParsing -----------------------------
(***************************************************************************)
(* json/parser.h, json/parse_visitor.h and json/types.h: parsing a JSON    *)
(* value while its text arrives.  A string is the sequence of its bytes, a *)
(* number the characters std::stod is given without the blanks it skips,   *)
(* an object a function from the names to the values.                      *)
(***************************************************************************)
EXTENDS JsonGrammar, Arrival, TLC

CONSTANT Meaning \* for a well-formed text, the value it was written for

VARIABLES error, end, \* the ParseResult of what has arrived
          value       \* the json::Value it filled

JsonVisitors ==
    [value    |-> [StringContents |-> "none", Boolean |-> "none", Number |-> "none",
                   Null |-> "none", Array |-> "item", Object |-> "object"],
     item     |-> [Value |-> "value"],
     object   |-> [Property |-> "property"],
     property |-> [StringContents |-> "none", Value |-> "value"]]

G == INSTANCE Grammar WITH Rules <- JsonRules, Visitors <- JsonVisitors,
                           Copied <- {"Value", "Property"}

(* The code of a printable ASCII character; no text here has a backtick,  *)
(* which a TLA+ string cannot hold and whose place the line feed takes.    *)
Ascii   == " !\"#$%&'()*+,-./0123456789:;<=>?@ABCDEFGHIJKLMNOPQRSTUVWXYZ[\\]^_\nabcdefghijklmnopqrstuvwxyz{|}~"
Code(c) == 31 + (CHOOSE k \in 1..Len(Ascii) : SubSeq(Ascii, k, k) = c)

HexValue(x) ==
    IF x <= Code("9") THEN x - Code("0")
    ELSE IF x >= Code("a") THEN x - Code("a") + 10
    ELSE x - Code("A") + 10

(* The UTF-8 bytes of a 16-bit code unit. *)
Utf8(u) ==
    IF u < 128 THEN <<u>>
    ELSE IF u < 2048 THEN <<192 + u \div 64, 128 + (u % 64)>>
    ELSE <<224 + u \div 4096, 128 + ((u \div 64) % 64), 128 + (u % 64)>>

SimpleEscape == [b |-> 8, f |-> 12, n |-> 10, r |-> 13, t |-> 9]
Hex4(s, k)   == FoldLeft(LAMBDA u, j : 16 * u + HexValue(Code(s[k + j])), 0, <<1, 2, 3, 4>>)

(* UnescapeUnsafe: next moves on by 3 over the four digits of \uXXXX, and  *)
(* by one more with the loop.                                              *)
UnescapeUnsafe(s) ==
    LET from[k \in Nat] ==
            CASE k > Len(s)   -> << >>
              [] s[k] # "\\"  -> <<Code(s[k])>> \o from[k + 1]
              [] OTHER ->
                    CASE s[k + 1] = "u" -> Utf8(Hex4(s, k + 1)) \o from[k + 5]
                      [] s[k + 1] \in DOMAIN SimpleEscape -> <<SimpleEscape[s[k + 1]]>> \o from[k + 2]
                      [] OTHER -> <<Code(s[k + 1])>> \o from[k + 2]
    IN from[1]

TextAt(e) == SubSeq(text, e.from + 1, e.to)
Null      == [null |-> TRUE]

\* Wrong: the last of two properties with one name is kept.
EmplaceLast(object, name, v) == (name :> v) @@ object

(* std::unordered_map::emplace leaves a name that is there alone. *)
Emplace(object, name, v) == object @@ (name :> v)

(* What the handlers leave in *output_: the last accepted one decides. *)
RECURSIVE ValueOf(_), ObjectOf(_)
ValueOf(events) ==
    LET accepted == Successes(events)
        e == Last(accepted)
    IN CASE accepted = << >> -> Null
         [] e.rule = "StringContents" -> [string |-> UnescapeUnsafe(TextAt(e))]
         [] e.rule = "Boolean" -> [boolean |-> text[e.from + 1] = "t"]
         [] e.rule = "Number"  -> [number |-> SelectSeq(TextAt(e), LAMBDA c : c \notin isspace)]
         [] e.rule = "Null"    -> Null
         [] e.rule = "Array"   -> LET items == Successes(e.inner)
                                  IN [array |-> [k \in DOMAIN items |-> ValueOf(items[k].inner)]]
         [] e.rule = "Object"  -> [object |-> ObjectOf(e.inner)]

(* A property is emplaced when its value is accepted, under the name that  *)
(* was accepted before it.                                                 *)
ObjectOf(properties) ==
    IF properties = << >> THEN << >>
    ELSE LET accepted == Successes(Last(properties).inner)
             object   == ObjectOf(Front(properties))
         IN IF accepted # << >> /\ Last(accepted).rule = "Value"
            THEN Emplace(object, UnescapeUnsafe(TextAt(accepted[1])), ValueOf(Last(accepted).inner))
            ELSE object

(* ParseValue(the first n characters). *)
ParseValue(n) ==
    LET r == G!Parse(text, n, "Value", "value")
    IN value' = ValueOf(r.effects) /\ error' = r.error /\ end' = r.end

Init == Nothing0 /\ error = "INCOMPLETE" /\ end = 0 /\ value = Null
Next == Arrive /\ ParseValue(received')
-----------------------------------------------------------------------------
(* Nothing is read past what has arrived. *)
WithinTheText == end \in 0..received

Blank(from, to) == \A k \in (from + 1)..to : text[k] \in isspace

(* What INCOMPLETE promises (parse_error.h:18-21), for a grammar that      *)
(* forces the blanks around a value: any other verdict and the value stay, *)
(* and all that a longer text can add is more of the blanks that follow.   *)
VerdictStays ==
    error # "INCOMPLETE" => /\ error' = error /\ value' = value
                            /\ end' >= end /\ Blank(end, end')

(* The handlers that copy their runner parse a nested value twice, with    *)
(* and without a visitor, and go on from where the second parse ended: the *)
(* two agree, as does the parse without any visitor.                       *)
VisitsDoNotMatter ==
    LET r == G!Parse(text, received, "Value", "none")
    IN received > 0 => r.end = end /\ (G!Ok(r) <=> error = "NONE")

(* A well-formed text is accepted when nothing but blanks is left, never   *)
(* before, and gives the value it was written for: the items of an array   *)
(* in order, the first property of a name, every escape replaced.  Any     *)
(* other is never accepted to its end.                                     *)
ValueAsWritten ==
    IF text \in WellFormed
    THEN /\ error # "INCOMPLETE" => error = "NONE" /\ value = Meaning[text] /\ Blank(end, Len(text))
         /\ Complete => error = "NONE"
    ELSE Complete /\ error = "NONE" => end < received
=============================================================================
