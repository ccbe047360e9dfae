------------------------------- MODULE Arrival -------------------------------
(***************************************************************************)
(* A text that arrives piece by piece at a caller of the parsers.  Each    *)
(* time more of it is there the caller parses all of it again, as          *)
(* ParseError::INCOMPLETE asks for (parser/parse_error.h:18-21).           *)
(***************************************************************************)
EXTENDS Terms, SequencesExt

CONSTANTS Texts,     \* the texts that may arrive
          WellFormed \* those of them that the grammar's documents admit

VARIABLES text, received \* the text and how much of it has arrived

Nothing0 == text \in Texts /\ received = 0

(* One more character arrives, or all that is left. *)
Arrive ==
    \E n \in {received + 1, Len(text)} \cap (received + 1)..Len(text) :
        received' = n /\ text' = text

Complete == received = Len(text)

(* What handlers keep of their events: a range of the text, as the pair    *)
(* <<from, to>> of the characters from+1 .. to, or None.                   *)
None         == << >>
Span(e)      == <<e.from, e.to>>
Spans(es)    == [k \in DOMAIN es |-> Span(es[k])]
Successes(es) == SelectSeq(es, LAMBDA e : e.ok)
IsSpan(s)    == s = None \/ (s[2] \in 0..received /\ s[1] \in 0..s[2])
=============================================================================
