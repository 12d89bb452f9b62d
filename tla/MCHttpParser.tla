---------------------------- MODULE MCHttpParser ----------------------------
(* Messages by their parts, what they are written as, and what the parser should say of them. *)
EXTENDS HttpParser

Eol == <<CR, LF>>

\* A header: name, value, what stands between colon and value, the second line of the value.
Hd(n, v) == [n |-> n, v |-> v, pre |-> <<SP>>, fold |-> <<>>]

Host     == Hd(<<"h","o">>, <<"a","a">>)
Type     == Hd(<<"c","o","n","t","a">>, <<"a">>)
Near     == Hd(<<"c","o","n","n","a">>, <<"c","l","o">>)        \* not Connection
Unknown  == Hd(<<"o","o">>, <<"c","h">>)
Longer   == Hd(<<"u","p","g","a">>, <<"k">>)                     \* not Upgrade
Cookies  == Hd(<<"c","o","o">>, <<"k","1">>)
Accept   == Hd(<<"a","c">>, <<"a">>)
Close    == Hd(<<"C","o","n","n","e">>, <<"c","l","o">>)
Alive    == Hd(<<"c","o","n","n","e">>, <<"k","e",SP>>)
CloseAndMore == Hd(<<"c","o","n","n","e">>, <<"c","l","o","a">>)  \* not close
Proxied  == Hd(<<"p","r","o">>, <<"c","l","o">>)
Upgrade  == Hd(<<"u","p","g">>, <<"a">>)
Chunked  == Hd(<<"t","r","a">>, <<"c","h","u">>)
Gzip     == Hd(<<"t","r","a">>, <<"g","c">>)
Length(ds) == Hd(<<"c","o","n","t","l">>, ds)
Empty    == [Host EXCEPT !.v = <<>>, !.pre = <<>>]
Folded   == [Near EXCEPT !.fold = <<"a","l">>]
Late     == [Close EXCEPT !.pre = <<CR, LF, SP>>]

HdText(h)  == h.n \o <<":">> \o h.pre \o h.v \o Eol \o IF h.fold = <<>> THEN <<>> ELSE <<SP>> \o h.fold \o Eol
HdValue(h) == h.v \o IF h.fold = <<>> THEN <<>> ELSE <<SP>> \o h.fold

Http(minor) == <<"H","T","T","P","/","1",".",minor>>

\* A request: method, address, version, headers, body, trailer.
Req(m, url, minor, hs, body, trailer) ==
    [type |-> "HTTP_REQUEST", meth |-> m, minor |-> minor, hs |-> hs, body |-> body, trailer |-> trailer,
     line |-> MethodStrings[m] \o <<SP>> \o url \o (IF minor = "9" THEN <<>> ELSE <<SP>> \o Http(minor)) \o Eol,
     first |-> <<"url", url>>, framing |-> "none", code |-> 0]

Res(code, text, minor, hs, body, framing) ==
    [type |-> "HTTP_RESPONSE", meth |-> "DELETE", minor |-> minor, hs |-> hs, body |-> body, trailer |-> <<>>,
     line |-> Http(minor) \o <<SP>> \o code \o (IF text = <<>> THEN <<>> ELSE <<SP>> \o text) \o Eol,
     first |-> <<"status", text>>, framing |-> framing, code |-> code]

Has(m, h)  == h \in {m.hs[i] : i \in DOMAIN m.hs}
Framing(m) == IF Has(m, Chunked) THEN "chunked" ELSE m.framing

\* Two chunks and the last one, or one chunk with a parameter.
BodyText(m) ==
    IF Framing(m) # "chunked" THEN m.body
    ELSE (IF Len(m.body) > 1
          THEN <<"1">> \o Eol \o SubSeq(m.body, 1, 1) \o Eol
               \o <<"0", Digits[Len(m.body)], ";", "a">> \o Eol \o Tail(m.body) \o Eol
          ELSE IF m.body # <<>> THEN <<"1", SP>> \o Eol \o m.body \o Eol ELSE <<>>)
         \o <<"0">> \o Eol \o FlattenSeq([i \in DOMAIN m.trailer |-> HdText(m.trailer[i])]) \o Eol

Text(m) == m.line \o FlattenSeq([i \in DOMAIN m.hs |-> HdText(m.hs[i])]) \o Eol \o BodyText(m)

HdCalls(hs) == FlattenSeq([i \in DOMAIN hs |-> << <<"header_field", hs[i].n>>, <<"header_value", HdValue(hs[i])>> >>])

CallsOf(m) ==
    << <<"message_begin", <<>> >> >>
    \o (IF m.first[2] = <<>> THEN <<>> ELSE <<m.first>>)
    \o HdCalls(m.hs) \o << <<"headers_complete", <<m.meth>> >> >>
    \o (IF m.body = <<>> THEN <<>> ELSE << <<"body", m.body>> >>)
    \o HdCalls(m.trailer) \o << <<"message_complete", <<>> >> >>

\* What the header structure should hold of one message.
AttrOf(m) ==
    [head |-> [i \in DOMAIN HeadFields |->
                 IF \E j \in DOMAIN m.hs : m.hs[j].n = HeadFields[i]
                 THEN m.hs[CHOOSE j \in DOMAIN m.hs : m.hs[j].n = HeadFields[i]].v ELSE <<>>],
     url |-> m.first[2], body |-> m.body]

Simple(m) == m.trailer = <<>> /\ \A i, j \in DOMAIN m.hs :
                /\ m.hs[i].fold = <<>>
                /\ i # j => m.hs[i].n # m.hs[j].n

Input(ms, type, fed, skip) ==
    [text |-> FlattenSeq([i \in DOMAIN ms |-> Text(ms[i])]), type |-> type, fed |-> fed, skip |-> skip,
     good |-> TRUE, calls |-> FlattenSeq([i \in DOMAIN ms |-> CallsOf(ms[i])]),
     simple |-> Len(ms) = 1 /\ Simple(ms[1]), attr |-> AttrOf(ms[1])]

Slash == <<"/">>
Get  == Req("GET", Slash, "1", <<Host>>, <<>>, <<>>)
AnyBytes  == <<CR, LF, "G">>       \* a body may look like anything

\* Requests after which the connection stays open.
Open == {
    Get,
    Req("POST", Slash, "1", <<Length(<<"3">>), Near>>, AnyBytes, <<>>),
    Req("POST", Slash, "1", <<Length(<<"0", "1">>), CloseAndMore>>, <<"0">>, <<>>),
    Req("POST", Slash, "1", <<Length(<<"0">>), Unknown>>, <<>>, <<>>),
    Req("POST", Slash, "1", <<Chunked, Longer>>, AnyBytes, <<>>),
    Req("POST", Slash, "1", <<Length(<<"9">>), Chunked>>, <<"c">>, <<>>),
    Req("POST", Slash, "1", <<Chunked>>, <<>>, <<Host>>),
    Req("POST", Slash, "1", <<Gzip, Folded, Empty>>, <<>>, <<>>),
    Req("POST", Slash, "1", <<Cookies, Accept, Unknown, Type>>, <<>>, <<>>) }

\* Requests after which it does not, or which leave HTTP.
Shut == {
    Req("POST", Slash, "1", <<Close, Length(<<"2">>)>>, <<"a", "a">>, <<>>),
    Req("GET", Slash, "1", <<Late>>, <<>>, <<>>), Req("GET", Slash, "1", <<Proxied>>, <<>>, <<>>),
    Req("GET", Slash, "0", <<Alive>>, <<>>, <<>>),
    Req("CONNECT", <<"a", ":", "1">>, "1", <<>>, <<>>, <<>>),
    Req("CONNECT", <<"[", "1", "]">>, "1", <<Upgrade>>, <<>>, <<>>),
    Req("GET", Slash, "1", <<Upgrade, Length(<<"1">>)>>, <<>>, <<>>) }

Addresses == {
    <<"/", "a", "?", "a", "?", "#", "#", "a", "#">>, <<"*">>, <<"a", "c", ":", "/", "/", "a", "@", "a", ":", "1", "/">>,
    <<"a", ":", "/", "/", "a", "?", "#", "?", "?">>, <<"/", "#", "?">>, <<"/", "?", "a">> }

Responses == {
    Res(<<"2","0","0">>, <<"O", "K">>, "1", <<Length(<<"2">>)>>, <<"H", "T">>, "length"),
    Res(<<"2","0","0">>, <<"O">>, "1", <<Chunked>>, <<"H", "T">>, "none"),
    Res(<<"1","0","0">>, <<>>, "1", <<>>, <<>>, "none"),
    Res(<<"2","0","4">>, <<>>, "1", <<Near>>, <<>>, "none"),
    Res(<<"3","0","4">>, <<"O">>, "1", <<>>, <<>>, "none") }

UntilEof == {
    Res(<<"2","0","0">>, <<"O">>, "1", <<Host>>, AnyBytes, "eof"),
    Res(<<"2","0","0">>, <<>>, "0", <<Alive>>, <<"H">>, "eof") }

Skipped == Res(<<"2","0","0">>, <<"O">>, "1", <<Length(<<"3">>)>>, <<>>, "none")

Word(m) == Req(m, Slash, "9", <<>>, <<>>, <<>>)

\* The kinds of message are cut anywhere one by one; a message with a body or a trailer is
\* followed by another one as well.
Framed == {m \in Open : m.body # <<>> \/ m.trailer # <<>>}

Good ==
    {Input(<<m>>, "HTTP_REQUEST", "whole", FALSE) : m \in Open \cup Shut}
    \cup {Input(<<m, Get>>, "HTTP_REQUEST", "whole", FALSE) : m \in Open}
    \cup {Input(<<m>>, "HTTP_REQUEST", "pieces", FALSE) : m \in Shut \cup (Open \ Framed)}
    \cup {Input(<<m, Word("GET")>>, "HTTP_REQUEST", "pieces", FALSE) : m \in Framed}
    \cup {Input(<<Req("GET", u, "9", <<>>, <<>>, <<>>)>>, "HTTP_REQUEST", "pieces", FALSE) : u \in Addresses}
    \cup {Input(<<Word(m)>>, "HTTP_REQUEST", "whole", FALSE) : m \in DOMAIN MethodStrings \ {"CONNECT"}}
    \cup {Input(<<Word("HEAD")>>, "HTTP_BOTH", "pieces", FALSE)}
    \cup {Input(<<m>>, "HTTP_RESPONSE", "pieces", FALSE) : m \in UntilEof}
    \cup {Input(<<m, m>>, "HTTP_BOTH", "pieces", FALSE) : m \in {n \in Responses : n.body = <<>>}}
    \cup {Input(<<m>>, "HTTP_RESPONSE", "pieces", FALSE) : m \in Responses}
    \cup {Input(<<Skipped, Skipped>>, "HTTP_RESPONSE", "whole", TRUE)}

\* Blank lines before, between and after requests; lines that end without a carriage return.
Blank == {
    [Input(<<Get>>, t, "pieces", FALSE) EXCEPT !.text = <<CR, LF>> \o @ \o <<CR, LF>>] : t \in {"HTTP_REQUEST", "HTTP_BOTH"}}
    \cup {[Input(<<Req("GET", Slash, "1", <<Close>>, <<>>, <<>>)>>, "HTTP_REQUEST", "pieces", FALSE) EXCEPT !.text = @ \o <<LF>>]}
    \cup {[Input(<<m>>, t, "pieces", FALSE) EXCEPT !.text = SelectSeq(@, LAMBDA c : c # CR)] :
            m \in {Req("GET", Slash, "1", <<Near, Empty, Folded>>, <<>>, <<>>), Word("GET"), Req("GET", Slash, "1", <<[Close EXCEPT !.v = <<"c">>]>>, <<>>, <<>>)},
            t \in {"HTTP_REQUEST"}}
    \cup {[Input(<<Res(<<"2","0","4">>, x, "1", <<>>, <<>>, "none")>>, "HTTP_RESPONSE", "pieces", FALSE)
            EXCEPT !.text = SelectSeq(@, LAMBDA c : c # CR)] : x \in {<<>>, <<"O">>}}

Bad(text, type) == [text |-> text, type |-> type, fed |-> "pieces", skip |-> FALSE, good |-> FALSE,
                    calls |-> <<>>, simple |-> FALSE, attr |-> NoAttr]

GetLine == <<"G","E","T",SP,"/",SP>>
After(text) == GetLine \o Http("1") \o Eol \o text
WithLength(ds) == After(HdText(Length(ds)) \o Eol)
WithChunk(ds)  == After(HdText(Chunked) \o Eol \o ds)

Malformed ==
    {Bad(t, "HTTP_REQUEST") : t \in {
        <<"G","E","E">>, <<"1">>, <<"A">>, <<"P","U","R","T",SP>>, <<"G","E","T","T",SP,"/">>, <<"P","U",SP>>,
        <<"G","E","T",SP,"?">>, <<"G","E","T",SP,"a","1">>, <<"G","E","T",SP,"a",":",SP>>, <<"G","E","T",SP,"a",":","/",CR>>,
        <<"C","O","N","N","E","C","T",SP,"a","@","@">>, <<"G","E","T",SP,"/","DEL">>,
        GetLine \o <<"G">>, GetLine \o <<SP,"H","H">>, GetLine \o <<"H","T","T","P","/","0">>,
        GetLine \o <<"H","T","T","P","/","1","a">>, GetLine \o <<"H","T","T","P","/","1","0","0","0",".">>,
        GetLine \o <<"H","T","T","P","/","1",".","a">>, GetLine \o <<"H","T","T","P","/","1",".","1","a">>,
        GetLine \o Http("1") \o <<CR,"a">>, After(<<SP>>), After(<<"a",SP>>), After(<<"a",":","a",CR,"a">>),
        After(<<"a",CR,LF,CR,"a">>), After(<<"a",LF,CR,"a">>), After(<<CR,"a">>), After(<<"a",":",CR,"a">>),
        WithLength(<<"a">>), WithLength(<<"1","a">>), WithLength(<<"3","0">>), WithLength(<<"3","5">>), WithLength(<<"9","0">>),
        WithChunk(<<"o">>), WithChunk(<<"1","o">>), WithChunk(<<"1","0">>), WithChunk(<<"1",CR,CR>>),
        WithChunk(<<"1",CR,LF,"a","a">>), WithChunk(<<"1",CR,LF,"a",CR,CR>>),
        After(HdText(Close) \o Eol \o <<"G">>),
        After(HdText(Unknown) \o HdText(Unknown) \o HdText(Unknown) \o HdText(Unknown) \o HdText(Unknown) \o HdText(Unknown) \o Eol)}}
    \cup {Bad(t, "HTTP_RESPONSE") : t \in {
        <<"a">>, <<CR,"H","H">>, Http("1") \o <<"a">>, <<"H","T","T","P","/","1",".","a">>, Http("1") \o <<SP,SP,"a">>,
        Http("1") \o <<SP,"2","0","0","0">>, Http("1") \o <<SP,"2","0","0","a">>, Http("1") \o <<SP,"2",LF,CR,"a">>}}
    \cup {Bad(<<"H","O">>, "HTTP_BOTH")}

AllTexts == Good \cup Blank \cup Malformed
=============================================================================
