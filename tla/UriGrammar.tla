------------------------------ MODULE UriGrammar ------------------------------
(***************************************************************************)
(* src/hittop/uri/grammar.h: RFC 2396, one definition per rule that is     *)
(* more than a character class or that a visitor names; `path' and         *)
(* `delims', `unwise', `control', `space' are defined there and used       *)
(* nowhere.  `port' is the type Repeat<digit>, which occurs in             *)
(* IPv4Address too, but only below `host', whose handler runs the rule     *)
(* without a visitor.                                                      *)
(***************************************************************************)
EXTENDS Terms

alphanum   == Filter(isalnum)
reserved   == LitOf(";/?:@&=+$,")
mark       == LitOf("-_.!~*'()")
unreserved == Alt(<<alphanum, mark>>)
escaped    == Cat(<<Lit("%"), Filter(isxdigit), Filter(isxdigit)>>)
uric       == Alt(<<reserved, unreserved, escaped>>)

(* unreserved | escaped | one of chars *)
UriChar(chars) == Alt(<<unreserved, escaped>> \o LitOf(chars).parts)
pchar          == UriChar(":@&=+$,")
uric_no_slash  == Not(Lit("/"), uric)
opaque_part    == Cat(<<uric_no_slash, Star(uric)>>)

segment       == Cat(<<Star(pchar), Star(Cat(<<Lit(";"), Star(pchar)>>))>>)
path_segments == Cat(<<Rule("segment"), Star(Cat(<<Lit("/"), Rule("segment")>>))>>)
abs_path      == Cat(<<Lit("/"), path_segments>>)

reg_name    == AtLeast(1, UriChar("$,;:@&=+"))
userinfo    == Star(UriChar(";:&=+$,"))
userinfo_at == Cat(<<Rule("userinfo"), Lit("@")>>)

domainlabel == Inter(AtLeast(1, alphanum), Lit("-"))
toplabel    == Alt(<<Cat(<<Filter(isalpha), StarThen(Alt(<<alphanum, Lit("-")>>), alphanum)>>),
                     Filter(isalpha)>>)
hostname    == StarThen(Cat(<<domainlabel, Lit(".")>>), Cat(<<toplabel, Opt(Lit("."))>>))
digits      == AtLeast(1, Filter(isdigit))
IPv4Address == Cat(<<digits, Lit("."), digits, Lit("."), digits, Lit("."), digits>>)
host        == Alt(<<hostname, IPv4Address>>)
port        == Star(Filter(isdigit))
hostport    == Cat(<<Rule("host"), Opt(Cat(<<Lit(":"), Rule("port")>>))>>)

server      == Opt(Cat(<<Opt(Rule("userinfo_at")), hostport>>))
authority   == Alt(<<server, reg_name>>)
net_path    == Cat(<<Lit("/"), Lit("/"), authority, Opt(Rule("abs_path"))>>)

query       == Star(uric)
fragment    == Star(uric)
OptQuery    == Opt(Cat(<<Lit("?"), Rule("query")>>))
OptFragment == Opt(Cat(<<Lit("#"), Rule("fragment")>>))
hier_part   == Cat(<<Alt(<<net_path, Rule("abs_path")>>), OptQuery>>)
scheme      == Cat(<<Filter(isalpha), Star(Alt(<<Filter(isalpha), Filter(isdigit)>> \o LitOf("+-.").parts))>>)
absoluteURI == Cat(<<Rule("scheme"), Lit(":"), Alt(<<hier_part, opaque_part>>)>>)
rel_segment == AtLeast(1, UriChar(";@&=+$,"))
rel_path    == Cat(<<rel_segment, Opt(Rule("abs_path"))>>)
relativeURI == Cat(<<Alt(<<net_path, Rule("abs_path"), Rule("rel_path")>>), OptQuery>>)
URI_reference == Cat(<<Opt(Alt(<<absoluteURI, relativeURI>>)), OptFragment>>)

UriRules == [
    segment |-> segment, abs_path |-> abs_path, userinfo |-> userinfo,
    userinfo_at |-> userinfo_at, host |-> host, port |-> port, query |-> query,
    fragment |-> fragment, scheme |-> scheme, rel_path |-> rel_path,
    absoluteURI |-> absoluteURI, hier_part |-> hier_part, authority |-> authority,
    URI_reference |-> URI_reference]
=============================================================================
