------------------------------ MODULE MCParsing ------------------------------
(* Texts for TLC, put together from their parts. *)
EXTENDS Parsing, TLC

Join(parts) == {TextOf(p) : p \in parts}

(* Well formed by RFC 2396. *)
Schemes     == {"", "h:", "f+1:"}
Authorities == {"", "//a", "//a.b.c-d:8", "//u%4a@1.2.3.4", "//u@b.:80"}
Paths       == {"", "/", "/a;p/b", "//"}
Tails       == {"", "?q=/?", "#f", "?q#f"}
HierTexts   == Join({s \o a \o p \o t \o " " :
                        s \in Schemes, a \in Authorities \ {""}, p \in Paths \ {"//"}, t \in Tails})
OtherTexts  == Join({s \o p \o t \o " " : s \in Schemes, p \in {"/", "/a;p/b"}, t \in Tails})
OpaqueTexts == Join({"m:u@x/y ", "m:a%41:? ", "a/b/c?q ", "a%41;/ ", "x ", " ", "#f "})
UriTexts    == HierTexts \cup OtherTexts \cup OpaqueTexts

(* References that are no references, or are ones only in part. *)
NoUris == Join({"h:// /a", "//u@_ ", "http://a_b/p ", "a%4", "a%4g ", "1:b", "//1.2.3/p ",
                  "h:/a%zz/b ", "//a--b/c ", "//u:p@", "/a//b#%% ", "h: ", "//u:p@_/q "})

(* Requests. *)
Methods == {"GET", "PUT", "POST", "OPTIONS", "PATCH", "HE"}
Uris    == {"*", "/a;b/c?q#f", "h://u@a.b:8/p"}
Headers == {"", "A:\r\n", "A-b : c;d \r\nE:f\r\n", "A: \"b\\\"\"\r\n , c\r\n"}
Bodies  == {"", "\r\nX"}
RequestTexts == Join({m \o " " \o u \o " HTTP/1.12\r\n" \o h \o "\r\n" \o b :
                        m \in Methods, u \in {"*", "/a"}, h \in Headers, b \in Bodies}
                  \cup {m \o " " \o u \o " HTTP/1.12\r\n\r\n" : m \in {"GET", "DELETE", "TRACE"}, u \in Uris})

(* Not requests, or not what Glue and Repeat make of them at first sight. *)
NoRequests == Join({"GET  / HTTP/1.1\r\n\r\n", "GET / HTTP/1.\r\n\r\n", "GET / HTTP/1.1\r\nA\r\n\r\n",
                  "GET / HTTP/1.1\r\nA:b\r\n \r\n\r\n", "GET / HTTP/1.1\r\n A:b\r\n\r\n",
                  "G(T / HTTP/1.1\r\n\r\n", "GET / HTTP/1.1\nA:b\n\n", "HTTP/1.1 200 OK\r\n\r\n",
                  "GET / HTTP/1.1\r\nA:b\f\r\n\r\n", "GET / HTTP/1.1\r\nA \r\n :b\r\n\r\n"})

ResponseTexts == Join({"HTTP/1.1 " \o l \o "\r\n" \o h \o "\r\n" :
                          l \in {"200 ", "404 Not: Found\t"}, h \in Headers})
MessageTexts  == ResponseTexts \cup Join({"H /a HTTP/1.1\r\nA:b\r\n\r\n", "POST * HTTP/1.1\r\n\r\n"})

(* JSON texts of every kind of value, each with the value it is written for. *)
Plain == INSTANCE JsonParsing WITH
           value <- output, Meaning <- << >>, Texts <- {}, WellFormed <- {}
Doc(s, v) == [text |-> s, value |-> v]
Bytes(s)  == [k \in 1..Len(s) |-> Plain!Code(SubSeq(s, k, k))]
StringDoc(s, bytes) == Doc("\"" \o s \o "\"", [string |-> bytes])
NumberDoc(s) == Doc(s, [number |-> TextOf(s)])

Strings == {StringDoc("", << >>), StringDoc("]u,", Bytes("]u,")),
            StringDoc("\\\"\\\\\\n", <<Plain!Code("\""), Plain!Code("\\"), 10>>)}
Numbers == {NumberDoc("-0.5e+1"), NumberDoc("10"), NumberDoc("7E2")}
Atoms   == {Doc("null", Plain!Null), Doc("true", [boolean |-> TRUE]), Doc("false", [boolean |-> FALSE])}
           \cup Strings \cup Numbers

ArrayDoc(x, y, w) == Doc("[" \o w \o x.text \o w \o "," \o y.text \o w \o "]" \o w,
                         [array |-> <<x.value, y.value>>])
ObjectDoc(m, x, n, y, w) ==
    Doc(w \o "{" \o w \o m.text \o w \o ":" \o w \o x.text \o "," \o n.text \o ":" \o y.text \o w \o "}",
        [object |-> (m.value.string :> x.value) @@ (n.value.string :> y.value)])
Wrap(x)  == Doc("[[" \o x.text \o "],{\"k\":" \o x.text \o "}]",
                [array |-> <<[array |-> <<x.value>>], [object |-> Bytes("k") :> x.value]>>])
Empty    == {Doc("[]", [array |-> << >>]), Doc("{}", [object |-> << >>])}

Blanks == {"", " \n"}
Docs == (Atoms \ Numbers)
        \cup {Doc(" " \o x.text \o " ", x.value) : x \in Strings \cup Numbers}
        \cup {ArrayDoc(x, y, w) : x \in Atoms, y \in Numbers \cup Empty, w \in Blanks}
        \cup {ObjectDoc(m, NumberDoc("-0.5e+1"), n, y, w) :
                    m \in Strings, n \in Strings, y \in Empty \cup {NumberDoc("7E2")}, w \in Blanks}
        \cup {Wrap(x) : x \in Atoms \cup Empty} \cup Empty

JsonTexts == {TextOf(d.text) : d \in Docs}
Written   == [t \in JsonTexts |-> (CHOOSE d \in Docs : TextOf(d.text) = t).value]
NoJson    == {TextOf(s) : s \in {"[1 2]", "[1,]", "{\"a\"}", "\"a\n\"", "01", "[nul]", "{\"a\":1,}",
                                 "-", "1.e", "\"\\x\"", " ", "[true false]", "{1:2}", "tru e"}}

(* An escape of a character by its code. *)
UnicodeDocs  == {StringDoc("\\u0041", Bytes("A")), StringDoc("A", Bytes("A"))}
UnicodeTexts == {TextOf(d.text) : d \in UnicodeDocs}
UnicodeWritten == [t \in UnicodeTexts |-> [string |-> Bytes("A")]]

(* Runs of digits around a letter, shorter and longer than the history of  *)
(* RepeatAndThen.                                                          *)
Digits(k)  == [j \in 1..k |-> "7"]
Runs       == {Digits(j) \o w \o Digits(k) : j \in {0, 1, 3}, k \in {0, 1, 14, 15, 16, 17},
                                            w \in {<<"a">>, << >>, <<"a", "3", "b">>}}
RunTexts  == {r \o e : r \in Runs, e \in {<<"-">>, << >>}} \ {<< >>}

Recorded == [URI |-> UriTexts, Request |-> RequestTexts, HTTP_message |-> MessageTexts,
             JSON |-> JsonTexts, repetition |-> {}]
Others  == [URI |-> NoUris, Request |-> NoRequests, HTTP_message |-> {},
             JSON |-> NoJson, repetition |-> RunTexts]
Everything  == [s \in Subjects |-> Recorded[s] \cup Others[s]]
UnicodeOnly == [[s \in Subjects |-> {}] EXCEPT !["JSON"] = UnicodeTexts]
=============================================================================
