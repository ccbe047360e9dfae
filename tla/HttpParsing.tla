----------------------------- MODULE HttpParsing -----------------------------
(***************************************************************************)
(* http/request_parse_visitor.h and http/basic_request.h: parsing an HTTP  *)
(* request into a fresh BasicRequest while its text arrives, and           *)
(* http/parse-test.cc: parsing a message with no more than its headers.    *)
(***************************************************************************)
EXTENDS HttpGrammar, Arrival

CONSTANT Message \* the rule that is parsed: "Request" or "HTTP_message"

VARIABLES error, end, \* the ParseResult of what has arrived
          request     \* the BasicRequest it filled

HttpVisitors ==
    [request |-> [HTTP_major_version |-> "none", HTTP_minor_version |-> "none",
                  Request_URI |-> "field", HttpMethod |-> "none", message_header |-> "header"],
     field   |-> [scheme |-> "none", userinfo_at |-> "user", host |-> "none",
                  port |-> "none", abs_path |-> "path", rel_path |-> "path",
                  query |-> "none", fragment |-> "none"],
     user    |-> [userinfo |-> "none"],
     path    |-> [segment |-> "none"],
     capture |-> [message_header |-> "header"],
     header  |-> [field_name |-> "none", field_value |-> "none"]]

Visitor == IF Message = "Request" THEN "request" ELSE "capture"

G == INSTANCE Grammar WITH Rules <- HttpRules, Visitors <- HttpVisitors, Copied <- {}

HttpMethods == {"UNKNOWN", "CONNECT", "DELETE", "GET", "HEAD", "POST", "PUT", "TRACE"}

(* A BasicHeader keeps the spans of its name and its value. *)
Header(name, value) == [name |-> Span(name), value |-> Span(value)]

(* None stands for the 1 of each number of the version. *)
NewRequest == [method |-> "UNKNOWN", uri |-> None, major |-> None, minor |-> None, headers |-> << >>]

(* The switch on the first character, and the second for a "P". *)
MethodOf(first, second) ==
    CASE first = "C" -> "CONNECT" [] first = "D" -> "DELETE" [] first = "G" -> "GET"
      [] first = "H" -> "HEAD" [] first = "T" -> "TRACE"
      [] first = "P" -> IF second = "U" THEN "PUT" ELSE "POST"
      [] OTHER -> "UNKNOWN"

AssignMethod(r, e) ==
    IF e.ok THEN [r EXCEPT !.method = MethodOf(text[e.from + 1], text[e.from + 2])] ELSE r

(* A header is appended when its value is accepted, under the name that    *)
(* was accepted before it.                                                 *)
AssignHeader(r, e) ==
    LET accepted == Successes(e.inner)
    IN IF accepted # << >> /\ Last(accepted).rule = "field_value"
       THEN [r EXCEPT !.headers = Append(@, Header(accepted[1], Last(accepted)))]
       ELSE r

(* The map of the tests' CaptureHeaders keeps the first of a name. *)
CaptureHeader(r, e) ==
    LET NameOf(s) == SubSeq(text, s[1] + 1, s[2])
        new == Header(e.inner[1], Last(e.inner))
    IN IF e.ok /\ \A k \in DOMAIN r.headers : NameOf(r.headers[k].name) # NameOf(new.name)
       THEN [r EXCEPT !.headers = Append(@, new)] ELSE r

(* The URI is recorded as in UriParsing; here its range is enough. *)
Assign(r, e) ==
    CASE e.rule = "HttpMethod"     -> AssignMethod(r, e)
      [] e.rule = "message_header" ->
            IF Message = "Request" THEN AssignHeader(r, e) ELSE CaptureHeader(r, e)
      [] ~e.ok                     -> r
      [] e.rule = "Request_URI"        -> [r EXCEPT !.uri = Span(e)]
      [] e.rule = "HTTP_major_version" -> [r EXCEPT !.major = Span(e)]
      [] e.rule = "HTTP_minor_version" -> [r EXCEPT !.minor = Span(e)]

(* ParseRequest(the first n characters, &request), or a test's             *)
(* Parse<HTTP_message>(the first n characters, CaptureHeaders(&headers)).  *)
ParseRequest(n) ==
    LET r == G!Parse(text, n, Message, Visitor)
    IN /\ request' = FoldLeft(Assign, NewRequest, r.effects)
       /\ error' = r.error
       /\ end' = r.end

Init == Nothing0 /\ error = "INCOMPLETE" /\ end = 0 /\ request = NewRequest
Next == Arrive /\ ParseRequest(received')
-----------------------------------------------------------------------------
(* Nothing is read, or recorded, past what has arrived. *)
WithinTheText ==
    /\ end \in 0..received
    /\ request.method \in HttpMethods
    /\ IsSpan(request.uri) /\ IsSpan(request.major) /\ IsSpan(request.minor)
    /\ \A k \in DOMAIN request.headers :
            IsSpan(request.headers[k].name) /\ IsSpan(request.headers[k].value)

(* What INCOMPLETE promises (parse_error.h:18-21): any other verdict, and  *)
(* the request recorded with it, is the one the whole text would give,     *)
(* however the text is cut.                                                *)
VerdictStays == error # "INCOMPLETE" => UNCHANGED <<error, end, request>>

(* The parse without visitors, with the optimized parsers, gives the same  *)
(* end and the same success (parser.h:96-97).                              *)
VisitsDoNotMatter ==
    LET r == G!Parse(text, received, Message, "none")
    IN received > 0 => r.end = end /\ (G!Ok(r) <=> error = "NONE")

At(s, from) == from \in 0..(Len(text) - Len(s)) /\ SubSeq(text, from + 1, from + Len(s)) = TextOf(s)

(* Where the headers end: after the first blank line. *)
HeadersEnd == Min({k \in 4..Len(text) : At("\r\n\r\n", k - 4)})

(* A well-formed message is accepted with the last byte of its blank line, *)
(* never before it and never asking for more: a server neither acts on     *)
(* half a request nor waits for a client that has sent all of it.          *)
AcceptedAtTheBlankLine ==
    text \in WellFormed =>
        /\ error = "NONE" <=> received >= HeadersEnd
        /\ error = "NONE" => end = HeadersEnd
        /\ error # "NONE" => error = "INCOMPLETE"

(* The starts of the header lines; a line that begins with a blank goes on *)
(* with the one before it.                                                 *)
LineStarts == {k \in 2..(end - 3) : At("\r\n", k - 2) /\ text[k + 1] \notin {" ", "\t", "\r"}}

(* Every header line of an accepted request is recorded once, in order,    *)
(* its name at the start of the line, its value after the colon and up to  *)
(* the next line that is not folded into it.                               *)
HeadersAsWritten ==
    error = "NONE" =>
        LET h == request.headers
        IN /\ Len(h) = Cardinality(LineStarts)
           /\ \A k \in DOMAIN h :
                /\ h[k].name[1] \in LineStarts
                /\ k > 1 => h[k - 1].name[1] < h[k].name[1]
                /\ \E c \in h[k].name[2]..(h[k].value[1] - 1) :
                    /\ text[c + 1] = ":"
                    /\ \A j \in (h[k].name[2] + 1)..h[k].value[1] : j # c + 1 => text[j] \in isspace
                /\ At("\r\n", h[k].value[2]) /\ h[k].value[2] + 2 \in LineStarts \cup {end - 2}

(* The recorded method, URI and version are those of the request line; a   *)
(* method without a value of HttpMethod is UNKNOWN.                        *)
RequestLineAsWritten ==
    error = "NONE" =>
        LET sp == request.uri[1] - 1
        IN /\ At(" ", sp) /\ At(" HTTP/", request.uri[2])
           /\ \A j \in 1..sp : text[j] # " "
           /\ request.method # "UNKNOWN" => sp = Len(request.method) /\ At(request.method, 0)
           /\ request.method = "UNKNOWN" => ~\E m \in {"GET", "PUT", "POST", "HEAD"} : At(m, 0)
           /\ request.major[1] = request.uri[2] + 6
           /\ At(".", request.major[2]) /\ request.minor[1] = request.major[2] + 1
           /\ At("\r\n", request.minor[2])
=============================================================================
