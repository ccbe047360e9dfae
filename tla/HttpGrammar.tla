----------------------------- MODULE HttpGrammar -----------------------------
(***************************************************************************)
(* src/hittop/http/grammar.h: the rules of RFC 2616 that Request and       *)
(* HTTP_message are made of.  `comment' and `ctext', `entity_body',        *)
(* `start_line' and `generic_message' are defined there and used by no     *)
(* rule of a message.                                                      *)
(***************************************************************************)
EXTENDS UriGrammar, TLC

SP      == Lit(" ")
CRLF    == Cat(<<Lit("\r"), Lit("\n")>>)
LWS     == Cat(<<Opt(Rule("CRLF")), AtLeast(1, LitOf(" \t"))>>)
CTLs    == Filter(iscntrl)
separators == LitOf("()<>@,;:\\\"/[]?={} \t")
Glue(parts) == ImpliedDelim(Star(Rule("LWS")), parts)

TEXT          == Alt(<<Rule("LWS"), Not(CTLs, AnyOne)>>)
quoted_pair   == Cat(<<Lit("\\"), AnyOne>>)
qdtext        == Not(Lit("\""), AnyOne)
quoted_string == Cat(<<Lit("\""), Star(Alt(<<qdtext, quoted_pair>>)), Lit("\"")>>)
token         == AtLeast(1, Not(Alt(<<CTLs, separators>>), AnyOne))

field_content == Alt(<<Star(TEXT), Star(Alt(<<token, separators, quoted_string>>))>>)

\* Wrong: a value ends at the end of its line, folded or not.
field_valueUnfolded == Star(Not(CTLs, AnyOne))
field_value    == Star(Alt(<<field_content, Rule("LWS")>>))
field_name     == token
message_header == Glue(<<Rule("field_name"), Lit(":"), Opt(Rule("field_value"))>>)

Reason_Phrase  == Star(Not(LitOf("\r\n"), TEXT))
version_number == AtLeast(1, Filter(isdigit))
HTTP_Version   == Cat(<<Tok("HTTP/"), Rule("HTTP_major_version"), Lit("."), Rule("HTTP_minor_version")>>)
Status_Line    == Cat(<<HTTP_Version, SP, Exactly(3, Filter(isdigit)), SP, Reason_Phrase, Rule("CRLF")>>)
Response       == Cat(<<Status_Line, Star(Cat(<<Rule("message_header"), Rule("CRLF")>>)), Rule("CRLF")>>)

HttpMethod == Alt(<<Tok("GET"), Tok("POST"), Tok("PUT"), Tok("DELETE"),
                    Tok("OPTIONS"), Tok("HEAD"), Tok("TRACE"), Tok("CONNECT")>>)
Method     == Alt(<<Rule("HttpMethod"), Rule("extension_method")>>)

Request_URI == Alt(<<Cat(<<Rule("hier_part"), OptFragment>>), Rule("Star"), Rule("absoluteURI"),
                     Rule("abs_path"), Rule("authority")>>)
Request_Line == Cat(<<Method, SP, Rule("Request_URI"), SP, HTTP_Version, Rule("CRLF")>>)

Request      == Cat(<<Request_Line, Star(Glue(<<Rule("message_header"), Rule("CRLF")>>)), Rule("CRLF")>>)
HTTP_message == Alt(<<Rule("Request"), Response>>)

HttpRules == UriRules @@ [
    CRLF |-> CRLF, LWS |-> LWS, field_name |-> field_name, field_value |-> field_value,
    message_header |-> message_header, HTTP_major_version |-> version_number,
    HTTP_minor_version |-> version_number, HttpMethod |-> HttpMethod,
    extension_method |-> token, Star |-> Lit("*"), Request_URI |-> Request_URI,
    Request |-> Request, HTTP_message |-> HTTP_message]
=============================================================================
