------------------------------- MODULE Parsing -------------------------------
(***************************************************************************)
(* A text arrives at a caller of one of the parsers, which parses what is  *)
(* there again and again until the verdict is not INCOMPLETE any more, or  *)
(* the text has ended: a URI reference, an HTTP request, an HTTP message   *)
(* of which only the headers are kept, a JSON value, or a repetition.      *)
(***************************************************************************)
EXTENDS Terms, Sequences

CONSTANTS TextsFor, WellFormedFor, \* the texts, by what they are parsed as
          Meaning,                 \* of the well-formed JSON texts
          MaxCopies

Subjects == {"URI", "Request", "HTTP_message", "JSON", "repetition"}
ASSUME SubjectsAssumption ==
    \A s \in Subjects : WellFormedFor[s] \subseteq TextsFor[s] /\ TextsFor[s] \subseteq Seq(Char)

VARIABLES text, received, \* the text and how much of it has arrived
          subject,    \* what the text is parsed as
          error, end, \* the ParseResult of what has arrived
          output      \* what the visitors made of it

vars == <<text, received, subject, error, end, output>>

Uri == INSTANCE UriParsing WITH
         uri <- output, Texts <- TextsFor["URI"], WellFormed <- WellFormedFor["URI"]
Request == INSTANCE HttpParsing WITH
         request <- output, Message <- "Request",
         Texts <- TextsFor["Request"], WellFormed <- WellFormedFor["Request"]
Captured == INSTANCE HttpParsing WITH
         request <- output, Message <- "HTTP_message",
         Texts <- TextsFor["HTTP_message"], WellFormed <- WellFormedFor["HTTP_message"]
Json == INSTANCE JsonParsing WITH
         value <- output, Texts <- TextsFor["JSON"], WellFormed <- WellFormedFor["JSON"]
Repeated == INSTANCE Repetition WITH
         grammar <- output, Texts <- TextsFor["repetition"], WellFormed <- {}

Init ==
    \/ subject = "URI"          /\ Uri!Init
    \/ subject = "Request"      /\ Request!Init
    \/ subject = "HTTP_message" /\ Captured!Init
    \/ subject = "JSON"         /\ Json!Init
    \/ subject = "repetition"   /\ Repeated!Init

Next ==
    /\ UNCHANGED subject
    /\ \/ subject = "URI"          /\ Uri!Next
       \/ subject = "Request"      /\ Request!Next
       \/ subject = "HTTP_message" /\ Captured!Next
       \/ subject = "JSON"         /\ Json!Next
       \/ subject = "repetition"   /\ Repeated!Next

Spec == Init /\ [][Next]_vars
-----------------------------------------------------------------------------
(* What INCOMPLETE promises (parse_error.h:18-21): any other verdict, and  *)
(* all that was recorded with it, is what the whole text would give,       *)
(* however the text is cut; a server neither acts on half a request nor    *)
(* waits for more of one that is there.                                    *)
FinalVerdict ==
    [][/\ subject = "URI"          => Uri!VerdictStays
       /\ subject = "Request"      => Request!VerdictStays
       /\ subject = "HTTP_message" => Captured!VerdictStays
       /\ subject = "JSON"         => Json!VerdictStays]_vars

(* The optimized parsers, and those that parse a range again for a handler *)
(* that copied its runner, agree with the visited ones on where a text     *)
(* ends and whether it is accepted (parser.h:96-97).                       *)
VisitsDoNotMatter ==
    /\ subject = "URI"          => Uri!VisitsDoNotMatter
    /\ subject = "Request"      => Request!VisitsDoNotMatter
    /\ subject = "HTTP_message" => Captured!VisitsDoNotMatter
    /\ subject = "JSON"         => Json!VisitsDoNotMatter

(* No parser reads, and no visitor records, past what has arrived.         *)
WithinTheText ==
    /\ subject = "URI"          => Uri!WithinTheText
    /\ subject = "Request"      => Request!WithinTheText
    /\ subject = "HTTP_message" => Captured!WithinTheText
    /\ subject = "JSON"         => Json!WithinTheText
    /\ subject = "repetition"   => Repeated!WithinTheText

(* A well-formed reference is accepted whole, and the BasicUri of an       *)
(* accepted one has exactly the parts and segments that were written,      *)
(* although the alternatives that were abandoned were visited too; all     *)
(* they leave behind is a scheme before a relative path, and a user whose  *)
(* host was refused, where the reference has none.                         *)
UriAsWritten ==
    subject = "URI" => Uri!WholeReferenceParsed /\ Uri!PartsAsWritten /\ Uri!SegmentsAreThePath

(* A request, or a response, is accepted with the last byte of its blank   *)
(* line; its request line and its headers, folded ones included, are       *)
(* recorded as they were written, none twice and none left out.            *)
MessageAsWritten ==
    /\ subject = "Request" => /\ Request!AcceptedAtTheBlankLine
                              /\ Request!HeadersAsWritten /\ Request!RequestLineAsWritten
    /\ subject = "HTTP_message" => Captured!AcceptedAtTheBlankLine /\ Captured!HeadersAsWritten

(* A JSON text gives the value it was written for: nested, with blanks,    *)
(* with escapes and with names that come twice; and a malformed one is     *)
(* never accepted to its end.                                              *)
ValueAsWritten == subject = "JSON" => Json!ValueAsWritten

(* A repetition takes as many copies as it may, and RepeatAndThen gives    *)
(* back the fewest it has to, of the last 16 it remembers.                 *)
CopiesTaken ==
    subject = "repetition" => Repeated!TakesAsManyAsAllowed /\ Repeated!GivesBackTheLeast
=============================================================================
