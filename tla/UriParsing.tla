------------------------------ MODULE UriParsing ------------------------------
(***************************************************************************)
(* uri/uri_parse_visitor.h and uri/basic_uri.h: parsing a URI reference    *)
(* into a fresh BasicUri while its text arrives.  The port keeps its       *)
(* digits, which std::stoul turns into a number and throws on when there   *)
(* are none.                                                               *)
(***************************************************************************)
EXTENDS UriGrammar, Arrival

VARIABLES error, end, \* the ParseResult of what has arrived
          uri         \* the BasicUri it filled

UriVisitors ==
    [reference |-> [URI_reference |-> "field"],
     field     |-> [scheme |-> "none", userinfo_at |-> "user", host |-> "none",
                    port |-> "none", abs_path |-> "path", rel_path |-> "path",
                    query |-> "none", fragment |-> "none"],
     user      |-> [userinfo |-> "none"],
     path      |-> [segment |-> "none"]]

G == INSTANCE Grammar WITH Rules <- UriRules, Visitors <- UriVisitors, Copied <- {}

NewUri == [range |-> None, scheme |-> None, user |-> None, host |-> None, port |-> None,
           path |-> None, query |-> None, fragment |-> None, path_segments |-> << >>,
           threw |-> FALSE]

(* assign_scheme, assign_user and the other setters of BasicUri. *)
AssignTo(u, part, e) == [u EXCEPT ![part] = Span(e)]

(* The handler of scheme, host, query and fragment. *)
AssignPart(u, e) == IF e.ok THEN AssignTo(u, e.rule, e) ELSE u

\* Wrong: a user that no "@" follows is kept.
AssignUserKept(u, e) ==
    [u EXCEPT !.user = IF e.inner # << >> /\ e.inner[1].ok THEN Span(e.inner[1]) ELSE @]

(* userinfo_at: the user is assigned inside it and reset if it fails. *)
AssignUser(u, e) ==
    IF ~e.ok THEN [u EXCEPT !.user = None]
    ELSE IF e.inner[1].ok THEN AssignTo(u, "user", e.inner[1]) ELSE u

(* std::stoul throws std::invalid_argument for a port without digits. *)
AssignPort(u, e) ==
    IF ~e.ok THEN u
    ELSE IF e.from = e.to THEN [u EXCEPT !.threw = TRUE]
    ELSE AssignTo(u, "port", e)

(* visit_path: each accepted segment is appended as it is parsed. *)
AssignPath(u, e) ==
    LET v == [u EXCEPT !.path_segments = @ \o Spans(Successes(e.inner))]
    IN IF e.ok THEN AssignTo(v, "path", e) ELSE v

(* One call of a handler; an exception leaves the parse at once. *)
Assign(u, e) ==
    CASE u.threw                            -> u
      [] e.rule = "userinfo_at"             -> AssignUser(u, e)
      [] e.rule = "port"                    -> AssignPort(u, e)
      [] e.rule \in {"abs_path", "rel_path"} -> AssignPath(u, e)
      [] OTHER                              -> AssignPart(u, e)

(* The field visitor of a reference or of a request's URI. *)
Fields(e) ==
    LET u == FoldLeft(Assign, NewUri, e.inner)
    IN IF e.ok /\ ~u.threw THEN AssignTo(u, "range", e) ELSE u

(* Parse<URI_reference>(the first n characters, MakeUriParseVisitor(&uri)). *)
ParseReference(n) ==
    LET r == G!Parse(text, n, "URI_reference", "reference")
        u == Fields(r.effects[1])
    IN /\ uri' = u
       /\ error' = IF u.threw THEN "THREW" ELSE r.error
       /\ end' = IF u.threw THEN 0 ELSE r.end

Init == Nothing0 /\ error = "INCOMPLETE" /\ end = 0 /\ uri = NewUri
Next == Arrive /\ ParseReference(received')
-----------------------------------------------------------------------------
Parts == {"scheme", "user", "host", "port", "path", "query", "fragment"}

(* Nothing is read, or recorded, past what has arrived. *)
WithinTheText == end \in 0..received /\ \A p \in Parts : IsSpan(uri[p])

(* What INCOMPLETE promises (parse_error.h:18-21): any other verdict, and  *)
(* every part recorded with it, is the one the whole text would give,      *)
(* however the text is cut.                                                *)
VerdictStays == error # "INCOMPLETE" => UNCHANGED <<error, end, uri>>

(* The parsers built for a visitor and the optimized ones without any      *)
(* agree on where a reference ends and on whether it is one                *)
(* (parser.h:96-97: the optimizations are transparent).                    *)
VisitsDoNotMatter ==
    LET r == G!Parse(text, received, "URI_reference", "none")
    IN error # "THREW" /\ received > 0 => r.end = end /\ (G!Ok(r) <=> error = "NONE")

\* The first of chars among the characters from..to, or the place after them.
First(chars, from, to) == Min({j \in from..to : text[j] \in chars} \cup {to + 1})

(* The parts of what was accepted, read off its delimiters: the ":" that   *)
(* ends a scheme, "//" and the "@" and ":" of an authority, "?" and "#".   *)
WrittenParts ==
    LET colon  == First({":", "/", "?", "#"}, 1, end)
        named  == colon <= end /\ text[colon] = ":"
        start  == IF named THEN colon + 1 ELSE 1
        opaque == named /\ text[start] # "/"
        hash   == First({"#"}, start, end)
        qmark  == IF opaque THEN hash ELSE First({"?"}, start, hash - 1)
        net    == start + 1 < qmark /\ text[start] = "/" /\ text[start + 1] = "/"
        root   == IF net THEN First({"/"}, start + 2, qmark - 1) ELSE start
        at     == First({"@"}, start + 2, root - 1)
        name   == IF at < root THEN at + 1 ELSE start + 2
        sep    == First({":"}, name, root - 1)
    IN [scheme   |-> IF named THEN <<0, colon - 1>> ELSE None,
        user     |-> IF net /\ at < root THEN <<start + 1, at - 1>> ELSE None,
        host     |-> IF net /\ name < sep THEN <<name - 1, sep - 1>> ELSE None,
        port     |-> IF net /\ sep < root THEN <<sep, root - 1>> ELSE None,
        path     |-> IF ~opaque /\ root < qmark THEN <<root - 1, qmark - 1>> ELSE None,
        query    |-> IF qmark < hash THEN <<qmark, hash - 1>> ELSE None,
        fragment |-> IF hash <= end THEN <<hash, end>> ELSE None]

\* absoluteURI was given up behind its scheme, which now begins a relative path.
SchemeLeft == uri.path # None /\ uri.path[1] = 0
              /\ uri.scheme[1] = 0 /\ uri.scheme[2] <= uri.path[2]

\* hostport has failed behind the "@" and the empty server was accepted.
UserLeft == end <= uri.user[1] /\ text[uri.user[2] + 1] = "@"

(* An accepted reference has the parts that its delimiters show, no more   *)
(* and no fewer, although the alternatives that were abandoned were        *)
(* visited too.  Two of these do leave something behind, where the         *)
(* reference has no such part: a scheme and a user                         *)
(* (uri_parse_visitor.h:17-35).                                            *)
PartsAsWritten ==
    error = "NONE" =>
        \A p \in Parts :
            \/ uri[p] = WrittenParts[p]
            \/ /\ WrittenParts[p] = None
               /\ \/ p = "scheme" /\ SchemeLeft
                  \/ p = "user" /\ UserLeft

(* The segments recorded for a path are its own: one between any two of    *)
(* its "/", in order, none twice and none left by an alternative that was  *)
(* abandoned (only a relative path's first segment is not recorded).       *)
SegmentsAreThePath ==
    error = "NONE" =>
        LET s == uri.path_segments
        IN /\ s # << >> => uri.path # None /\ s[Len(s)][2] = uri.path[2] /\ s[1][1] > uri.path[1]
           /\ \A k \in DOMAIN s :
                /\ text[s[k][1]] = "/" /\ \A j \in (s[k][1] + 1)..s[k][2] : text[j] # "/"
                /\ k > 1 => s[k][1] = s[k - 1][2] + 1
           /\ uri.path # None =>
                Len(s) = Cardinality({j \in (uri.path[1] + 1)..uri.path[2] : text[j] = "/"})

(* A well-formed reference is accepted up to the blank that ends it. *)
WholeReferenceParsed ==
    text \in WellFormed /\ Complete => error = "NONE" /\ end = received - 1
=============================================================================
