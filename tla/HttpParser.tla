----------------------------- MODULE HttpParser -----------------------------
(***************************************************************************)
(* http_parser.c: the automaton that turns the bytes of an HTTP message    *)
(* into callbacks, and http() of parsertrace.c, which runs it over the     *)
(* file of a captured POST and fills the attributes of the POST from the   *)
(* callbacks.                                                              *)
(*                                                                         *)
(* A byte is a member of a small alphabet; "a" stands for any letter the   *)
(* automaton does not look at.  The names and values it does look at are   *)
(* shortened (Keyword).  The text is fed to http_parser_execute in pieces  *)
(* cut anywhere, or as a whole, the way http() feeds a file.               *)
(***************************************************************************)
EXTENDS Integers, Sequences, FiniteSets, SequencesExt

CONSTANTS Texts,      \* what is fed: records with the fields text, type, fed and skip
          UllMax,     \* ULLONG_MAX, scaled: "no Content-Length"
          MaxHeader   \* HTTP_MAX_HEADER_SIZE, scaled

ASSUME ParserAssumption ==
    /\ UllMax \in Nat /\ UllMax > 16 /\ MaxHeader \in Nat \ {0}
    /\ \A t \in Texts : Len(t.text) \in Nat /\ t.type \in {"HTTP_REQUEST", "HTTP_RESPONSE", "HTTP_BOTH"}

VARIABLES
    input,   \* what is fed: its text; the type given to http_parser_init; whole or in pieces;
             \* whether on_headers_complete answers 1 (no body)
    parser,  \* struct http_parser
    p,       \* the next byte
    piece,   \* where the piece starts and ends that the current call was given
    marks,   \* header_field_mark, header_value_mark, url_mark, body_mark, status_mark
    again,   \* goto reexecute_byte: the byte was counted already
    status,  \* between calls, in a call, or why there is no further call
    calls,   \* the callbacks so far; adjacent ones for one datum are joined
    attr     \* parser->http: what the callbacks of parsertrace.c keep

vars == <<input, parser, p, piece, marks, again, status, calls, attr>>

-----------------------------------------------------------------------------
(* Bytes, names and values *)

CR == "CR"
LF == "LF"
SP == "SP"

Digits == <<"0", "1", "2", "3", "4", "5", "6", "7", "8", "9">>
Num    == {Digits[i] : i \in 1..10}
Value(c) == CHOOSE d \in 0..9 : Digits[d + 1] = c
Unhex(c) == CASE c \in Num -> Value(c) [] c = "a" -> 10 [] c = "c" -> 12 [] c = "e" -> 14 [] OTHER -> -1

Upper == {"A", "B", "C", "D", "E", "F", "G", "H", "I", "J", "K", "L", "M", "N",
          "O", "P", "Q", "R", "S", "T", "U", "V", "W", "X", "Y", "Z"}
Lower == {"a", "c", "e", "g", "h", "k", "l", "n", "o", "p", "r", "t", "u"}
Alpha == Upper \cup Lower

Token(c)    == c \in Alpha \cup Num \cup {"-"}
UrlChar(c)  == c \in Alpha \cup Num \cup {"-", "/", "*", ":", "@", "[", "]", "."}
UserInfo(c) == c \in Alpha \cup Num \cup {"-", "*", ":", "."}

Keyword ==
    [h_matching_connection            |-> <<"c", "o", "n", "n", "e">>,
     h_matching_proxy_connection      |-> <<"p", "r", "o">>,
     h_matching_content_length        |-> <<"c", "o", "n", "t", "l">>,
     h_matching_transfer_encoding     |-> <<"t", "r", "a">>,
     h_matching_upgrade               |-> <<"u", "p", "g">>,
     h_matching_transfer_encoding_chunked |-> <<"c", "h", "u">>,
     h_matching_connection_keep_alive |-> <<"k", "e">>,
     h_matching_connection_close      |-> <<"c", "l", "o">>]

Matched ==
    [h_matching_connection            |-> "h_connection",
     h_matching_proxy_connection      |-> "h_connection",
     h_matching_content_length        |-> "h_content_length",
     h_matching_transfer_encoding     |-> "h_transfer_encoding",
     h_matching_upgrade               |-> "h_upgrade",
     h_matching_transfer_encoding_chunked |-> "h_transfer_encoding_chunked",
     h_matching_connection_keep_alive |-> "h_connection_keep_alive",
     h_matching_connection_close      |-> "h_connection_close"]

MethodStrings ==
    [DELETE |-> <<"D","E","L","E","T","E">>, GET |-> <<"G","E","T">>, HEAD |-> <<"H","E","A","D">>,
     POST |-> <<"P","O","S","T">>, PUT |-> <<"P","U","T">>, CONNECT |-> <<"C","O","N","N","E","C","T">>,
     OPTIONS |-> <<"O","P","T","I","O","N","S">>, TRACE |-> <<"T","R","A","C","E">>,
     COPY |-> <<"C","O","P","Y">>, LOCK |-> <<"L","O","C","K">>, MKCOL |-> <<"M","K","C","O","L">>,
     MOVE |-> <<"M","O","V","E">>, PROPFIND |-> <<"P","R","O","P","F","I","N","D">>,
     PROPPATCH |-> <<"P","R","O","P","P","A","T","C","H">>, SEARCH |-> <<"S","E","A","R","C","H">>,
     UNLOCK |-> <<"U","N","L","O","C","K">>, REPORT |-> <<"R","E","P","O","R","T">>,
     MKACTIVITY |-> <<"M","K","A","C","T","I","V","I","T","Y">>,
     CHECKOUT |-> <<"C","H","E","C","K","O","U","T">>, MERGE |-> <<"M","E","R","G","E">>,
     MSEARCH |-> <<"M","-","S","E","A","R","C","H">>, NOTIFY |-> <<"N","O","T","I","F","Y">>,
     SUBSCRIBE |-> <<"S","U","B","S","C","R","I","B","E">>,
     UNSUBSCRIBE |-> <<"U","N","S","U","B","S","C","R","I","B","E">>,
     PATCH |-> <<"P","A","T","C","H">>, PURGE |-> <<"P","U","R","G","E">>]

-----------------------------------------------------------------------------
(* The callbacks of parsertrace.c *)

\* s_head_field: the names that have a place in the attributes, in the table's order.
HeadFields == << <<"h", "o">>, <<"c", "o", "n", "t", "a">>, <<"c", "o", "n", "n", "e">>,
                 <<"c", "o", "n", "t", "l">>, <<"a", "c">>, <<"a", "c", "-", "e">>, <<"c", "o", "o">> >>
Cookie == 7

NoAttr == [head_index |-> 1, head |-> [i \in DOMAIN HeadFields |-> <<>>],
           seen |-> FALSE, url |-> <<>>, body |-> <<>>]

\* strncpy: what was longer keeps its tail.
Over(old, new) == new \o SubSeq(old, Len(new) + 1, Len(old))

OnUrl(a, text) == IF text = <<>> THEN a ELSE [a EXCEPT !.url = Over(@, text)]

\* memcmp over the length of the name: the first name it is a prefix of.
\* Mutant: the index of the name before stays when the name is not in the table.
OnHeaderFieldKept(a, text) ==
    LET hits == {i \in DOMAIN HeadFields : IsPrefix(text, HeadFields[i])}
    IN  IF hits = {} THEN a
        ELSE [a EXCEPT !.head_index = CHOOSE i \in hits : \A j \in hits : i <= j]

OnHeaderField(a, text) ==
    LET hits == {i \in DOMAIN HeadFields : IsPrefix(text, HeadFields[i])}
    IN  [a EXCEPT !.head_index =
            IF hits = {} THEN Len(HeadFields) + 1 ELSE CHOOSE i \in hits : \A j \in hits : i <= j]

\* The cookie is taken from the first header only, every other value is copied over.
OnHeaderValue(a, text) ==
    IF a.head_index \notin DOMAIN HeadFields \/ (a.head_index = Cookie /\ a.seen) THEN a
    ELSE [a EXCEPT !.head[a.head_index] = Over(@, text), !.seen = @ \/ a.head_index = Cookie]

OnBody(a, text) == [a EXCEPT !.body = @ \o text]

Kept(a, kind, text) ==
    CASE kind = "url"          -> OnUrl(a, text)
      [] kind = "header_field" -> OnHeaderField(a, text)
      [] kind = "header_value" -> OnHeaderValue(a, text)
      [] kind = "body"         -> OnBody(a, text)
      [] OTHER                 -> a

-----------------------------------------------------------------------------
(* One turn of the loop of http_parser_execute *)

ch == input.text[p]
c0 == IF ch = "C" THEN "c" ELSE ch        \* TOKEN(ch), LOWER(ch): names come in either case

Data == {"url", "status", "header_field", "header_value", "body"}

Add(cs, kind, text) ==
    IF kind \in Data /\ cs # <<>> /\ Last(cs)[1] = kind
    THEN [cs EXCEPT ![Len(cs)] = <<kind, @[2] \o text>>]
    ELSE Append(cs, <<kind, text>>)

To(st) == [parser EXCEPT !.st = st]

\* The states after s_headers_done do not count towards the size of the header.
Body == {"s_body_identity", "s_body_identity_eof", "s_chunk_data", "s_chunk_data_almost_done",
         "s_chunk_data_done", "s_message_done"}
Count   == IF again \/ parser.st \in Body THEN parser.nread ELSE parser.nread + 1
TooLong == ~again /\ parser.st \notin Body /\ parser.nread + 1 > MaxHeader

In(S) == status = "in" /\ p <= piece[2] /\ parser.st \in S /\ ~TooLong

Silent    == UNCHANGED <<marks, calls, attr>>
Mark(f)   == IF \E m \in marks : m[1] = f THEN marks ELSE marks \cup {<<f, p>>}
Start(f)  == marks' = Mark(f) /\ UNCHANGED <<calls, attr>>
Notify(e, info) == calls' = Add(calls, e, info) /\ UNCHANGED <<marks, attr>>

\* CALLBACK_DATA(f): the bytes from its mark up to, and without, byte e.
CallData(ms, f, e) ==
    LET open == {m \in ms : m[1] = f}
    IN  IF open = {} THEN marks' = ms /\ UNCHANGED <<calls, attr>>
        ELSE LET text == SubSeq(input.text, (CHOOSE m \in open : TRUE)[2], e - 1)
             IN  /\ calls' = Add(calls, f, text)
                 /\ attr' = IF input.fed = "whole" THEN Kept(attr, f, text) ELSE attr
                 /\ marks' = ms \ open

\* break: on to the next byte.  goto reexecute_byte: the same byte in another state.
MoveBy(n, q) == parser' = q /\ p' = p + n /\ again' = FALSE /\ UNCHANGED <<input, piece, status>>
Counted(q)   == [q EXCEPT !.nread = Count]
Move(q)      == MoveBy(1, Counted(q))
Again(q)     == parser' = Counted(q) /\ again' = TRUE /\ UNCHANGED <<input, p, piece, status>>

\* goto error: SET_ERRNO is empty, the call returns how far it came.
FailAs(q) == parser' = q /\ status' = "failed" /\ again' = FALSE
             /\ UNCHANGED <<input, p, piece, marks, calls, attr>>
Fail == FailAs(Counted(parser))

HeaderTooLong == status = "in" /\ p <= piece[2] /\ TooLong /\ FailAs([parser EXCEPT !.nread = @ + 1])

NeedsEof(q) ==
    /\ q.type # "HTTP_REQUEST"
    /\ ~(q.code \div 100 = 1 \/ q.code \in {204, 304} \/ "F_SKIPBODY" \in q.flags)
    /\ ~("F_CHUNKED" \in q.flags \/ q.len # UllMax)

ShouldKeepAlive(q) ==
    /\ IF q.major > 0 /\ q.minor > 0 THEN "F_CONNECTION_CLOSE" \notin q.flags
                                     ELSE "F_CONNECTION_KEEP_ALIVE" \in q.flags
    /\ ~NeedsEof(q)

NewMessage(q) ==
    [q EXCEPT !.st = IF ~ShouldKeepAlive(q) THEN "s_dead"
                     ELSE IF q.type = "HTTP_REQUEST" THEN "s_start_req" ELSE "s_start_res"]

Fresh(st) == [parser EXCEPT !.st = st, !.flags = {}, !.len = UllMax]

-----------------------------------------------------------------------------
(* Where a message starts *)

\* A parser that is closed takes line ends only.
Dead ==
    /\ In({"s_dead"})
    /\ IF ch \in {CR, LF} THEN Move(parser) /\ Silent ELSE Fail

StartReqOrRes ==
    /\ In({"s_start_req_or_res"})
    /\ \/ ch \in {CR, LF} /\ Move(parser) /\ Silent
       \/ ch = "H" /\ Move(Fresh("s_res_or_resp_H")) /\ Notify("message_begin", <<>>)
       \/ ch \notin {CR, LF, "H"}
          /\ Again([Fresh("s_start_req") EXCEPT !.type = "HTTP_REQUEST"]) /\ Silent

ResOrRespH ==
    /\ In({"s_res_or_resp_H"})
    /\ \/ ch = "T" /\ Move([To("s_res_HT") EXCEPT !.type = "HTTP_RESPONSE"]) /\ Silent
       \/ ch = "E" /\ Silent
          /\ Move([To("s_req_method") EXCEPT !.type = "HTTP_REQUEST", !.meth = "HEAD", !.index = 2])
       \/ ch \notin {"T", "E"} /\ Fail

StartRes ==
    /\ In({"s_start_res"})
    /\ IF ch \in {"H", CR, LF}
       THEN Move(Fresh(IF ch = "H" THEN "s_res_H" ELSE "s_start_res")) /\ Notify("message_begin", <<>>)
       ELSE FailAs(Counted(Fresh("s_start_res")))

FirstMethod ==
    [c \in {"C", "D", "G", "H", "L", "M", "N", "O", "P", "R", "S", "T", "U"} |->
        CASE c = "C" -> "CONNECT" [] c = "D" -> "DELETE" [] c = "G" -> "GET" [] c = "H" -> "HEAD"
          [] c = "L" -> "LOCK" [] c = "M" -> "MKCOL" [] c = "N" -> "NOTIFY" [] c = "O" -> "OPTIONS"
          [] c = "P" -> "POST" [] c = "R" -> "REPORT" [] c = "S" -> "SUBSCRIBE" [] c = "T" -> "TRACE"
          [] c = "U" -> "UNLOCK"]

StartReq ==
    /\ In({"s_start_req"})
    /\ \/ ch \in {CR, LF} /\ Move(parser) /\ Silent
       \/ /\ ch \in DOMAIN FirstMethod
          /\ Move([Fresh("s_req_method") EXCEPT !.meth = FirstMethod[ch], !.index = 1])
          /\ Notify("message_begin", <<>>)
       \/ ch \notin DOMAIN FirstMethod \cup {CR, LF} /\ FailAs(Counted(Fresh("s_start_req")))

\* The byte is not the next one of parser->method: the method it then is.
OtherMethod(m, i, c) ==
    CASE m = "CONNECT" /\ i = 1 /\ c = "H"   -> "CHECKOUT"
      [] m = "CONNECT" /\ i = 2 /\ c = "P"   -> "COPY"
      [] m = "MKCOL" /\ i = 1 /\ c = "O"     -> "MOVE"
      [] m = "MKCOL" /\ i = 1 /\ c = "E"     -> "MERGE"
      [] m = "MKCOL" /\ i = 1 /\ c = "-"     -> "MSEARCH"
      [] m = "MKCOL" /\ i = 2 /\ c = "A"     -> "MKACTIVITY"
      [] m = "SUBSCRIBE" /\ i = 1 /\ c = "E" -> "SEARCH"
      [] m = "POST" /\ i = 1 /\ c = "R"      -> "PROPFIND"
      [] m = "POST" /\ i = 1 /\ c = "U"      -> "PUT"
      [] m = "POST" /\ i = 1 /\ c = "A"      -> "PATCH"
      [] m = "PUT" /\ i = 2 /\ c = "R"       -> "PURGE"
      [] m = "UNLOCK" /\ i = 2 /\ c = "S"    -> "UNSUBSCRIBE"
      [] m = "PROPFIND" /\ i = 4 /\ c = "P"  -> "PROPPATCH"
      [] OTHER -> "none"

ReqMethod ==
    /\ In({"s_req_method"})
    /\ LET word == MethodStrings[parser.meth]
           other == OtherMethod(parser.meth, parser.index, ch)
           q == [parser EXCEPT !.index = @ + 1]
       IN  CASE ch = SP /\ parser.index = Len(word) -> Move([q EXCEPT !.st = "s_req_spaces_before_url"]) /\ Silent
             [] parser.index < Len(word) /\ ch = word[parser.index + 1] -> Move(q) /\ Silent
             [] other # "none" -> Move([q EXCEPT !.meth = other]) /\ Silent
             [] OTHER -> Fail

-----------------------------------------------------------------------------
(* The rest of the request line *)

\* parse_url_char
UrlNext(st, c) ==
    CASE c \in {SP, CR, LF} -> "s_dead"
      [] st = "s_req_spaces_before_url" /\ c \in {"/", "*"} -> "s_req_path"
      [] st = "s_req_spaces_before_url" /\ c \in Alpha -> "s_req_schema"
      [] st = "s_req_schema" /\ c \in Alpha -> st
      [] st = "s_req_schema" /\ c = ":" -> "s_req_schema_slash"
      [] st = "s_req_schema_slash" /\ c = "/" -> "s_req_schema_slash_slash"
      [] st = "s_req_schema_slash_slash" /\ c = "/" -> "s_req_server_start"
      [] st \in {"s_req_server_start", "s_req_server", "s_req_server_with_at"} ->
           (CASE c = "/" -> "s_req_path"
              [] c = "?" -> "s_req_query_string_start"
              [] c = "@" /\ st # "s_req_server_with_at" -> "s_req_server_with_at"
              [] UserInfo(c) \/ c \in {"[", "]"} -> "s_req_server"
              [] OTHER -> "s_dead")
      [] st = "s_req_path" /\ UrlChar(c) -> st
      [] st = "s_req_path" /\ c = "?" -> "s_req_query_string_start"
      [] st = "s_req_path" /\ c = "#" -> "s_req_fragment_start"
      [] st \in {"s_req_query_string_start", "s_req_query_string"} ->
            IF UrlChar(c) \/ c = "?" THEN "s_req_query_string"
            ELSE IF c = "#" THEN "s_req_fragment_start" ELSE "s_dead"
      [] st = "s_req_fragment_start" /\ (UrlChar(c) \/ c = "?") -> "s_req_fragment"
      [] st = "s_req_fragment_start" /\ c = "#" -> st
      [] st = "s_req_fragment" /\ (UrlChar(c) \/ c \in {"?", "#"}) -> st
      [] OTHER -> "s_dead"

SpacesBeforeUrl ==
    /\ In({"s_req_spaces_before_url"})
    /\ LET st == UrlNext(IF parser.meth = "CONNECT" THEN "s_req_server_start" ELSE parser.st, ch)
       IN  \/ ch = SP /\ Move(parser) /\ Silent
           \/ ch # SP /\ st # "s_dead" /\ Move(To(st)) /\ Start("url")
           \/ ch # SP /\ st = "s_dead" /\ FailAs(Counted(To(st)))

\* No whitespace allowed here.
UrlPrefix == {"s_req_schema", "s_req_schema_slash", "s_req_schema_slash_slash", "s_req_server_start"}

InUrlPrefix ==
    /\ In(UrlPrefix)
    /\ LET st == UrlNext(parser.st, ch)
       IN  IF ch \in {SP, CR, LF} THEN Fail
           ELSE IF st = "s_dead" THEN FailAs(Counted(To(st))) ELSE Move(To(st)) /\ Silent

UrlRest == {"s_req_server", "s_req_server_with_at", "s_req_path", "s_req_query_string_start",
            "s_req_query_string", "s_req_fragment_start", "s_req_fragment"}

InUrl ==
    /\ In(UrlRest)
    /\ LET st == UrlNext(parser.st, ch)
       IN  \/ ch = SP /\ Move(To("s_req_http_start")) /\ CallData(marks, "url", p)
           \/ /\ ch \in {CR, LF}
             /\ Move([To(IF ch = CR THEN "s_req_line_almost_done" ELSE "s_header_field_start")
                        EXCEPT !.major = 0, !.minor = 9])
             /\ CallData(marks, "url", p)
           \/ ch \notin {SP, CR, LF} /\ st # "s_dead" /\ Move(To(st)) /\ Silent
           \/ ch \notin {SP, CR, LF} /\ st = "s_dead" /\ FailAs(Counted(To(st)))

\* One letter after another, of a request line or of a status line.
Literal ==
    [s_req_http_start |-> <<"H", "s_req_http_H">>, s_req_http_H |-> <<"T", "s_req_http_HT">>,
     s_req_http_HT |-> <<"T", "s_req_http_HTT">>, s_req_http_HTT |-> <<"P", "s_req_http_HTTP">>,
     s_req_http_HTTP |-> <<"/", "s_req_first_http_major">>,
     s_res_H |-> <<"T", "s_res_HT">>, s_res_HT |-> <<"T", "s_res_HTT">>,
     s_res_HTT |-> <<"P", "s_res_HTTP">>, s_res_HTTP |-> <<"/", "s_res_first_http_major">>]

InLiteral ==
    /\ In(DOMAIN Literal)
    /\ CASE parser.st = "s_req_http_start" /\ ch = SP -> Move(parser) /\ Silent
         [] ch = Literal[parser.st][1] -> Move(To(Literal[parser.st][2])) /\ Silent
         [] OTHER -> Fail

\* A number of up to three digits: what it is after one more, none if that is too much.
More(n, c) == IF c \in Num /\ n * 10 + Value(c) <= 999 THEN n * 10 + Value(c) ELSE -1

Version ==
    \/ /\ In({"s_req_first_http_major", "s_res_first_http_major"})
       /\ LET req == parser.st = "s_req_first_http_major"
          IN  IF ch \in Num /\ (req => ch # "0")
              THEN Move([To(IF req THEN "s_req_http_major" ELSE "s_res_http_major")
                          EXCEPT !.major = Value(ch)]) /\ Silent
              ELSE Fail
    \/ /\ In({"s_req_http_major", "s_res_http_major"})
       /\ CASE ch = "." -> Move(To(IF parser.st = "s_req_http_major" THEN "s_req_first_http_minor"
                                                                 ELSE "s_res_first_http_minor")) /\ Silent
            [] ch # "." /\ More(parser.major, ch) >= 0 ->
                    Move([parser EXCEPT !.major = More(@, ch)]) /\ Silent
            [] OTHER -> Fail
    \/ /\ In({"s_req_first_http_minor", "s_res_first_http_minor"})
       /\ IF ch \in Num
          THEN Move([To(IF parser.st = "s_req_first_http_minor" THEN "s_req_http_minor" ELSE "s_res_http_minor")
                      EXCEPT !.minor = Value(ch)]) /\ Silent
          ELSE Fail
    \/ /\ In({"s_req_http_minor", "s_res_http_minor"})
       /\ LET req == parser.st = "s_req_http_minor"
          IN  CASE req /\ ch = CR  -> Move(To("s_req_line_almost_done")) /\ Silent
                [] req /\ ch = LF  -> Move(To("s_header_field_start")) /\ Silent
                [] ~req /\ ch = SP -> Move(To("s_res_first_status_code")) /\ Silent
                [] More(parser.minor, ch) >= 0 -> Move([parser EXCEPT !.minor = More(@, ch)]) /\ Silent
                [] OTHER -> Fail

StatusCode ==
    \/ /\ In({"s_res_first_status_code"})
       /\ CASE ch \in Num -> Move([To("s_res_status_code") EXCEPT !.code = Value(ch)]) /\ Silent
            [] ch = SP -> Move(parser) /\ Silent
            [] OTHER -> Fail
    \/ /\ In({"s_res_status_code"})
       /\ CASE ch = SP -> Move(To("s_res_status_start")) /\ Silent
            [] ch = CR -> Move(To("s_res_line_almost_done")) /\ Silent
            [] ch = LF -> Move(To("s_header_field_start")) /\ Silent
            [] More(parser.code, ch) >= 0 -> Move([parser EXCEPT !.code = More(@, ch)]) /\ Silent
            [] OTHER -> Fail

StatusText ==
    \/ /\ In({"s_res_status_start"})
       /\ CASE ch = CR -> Move(To("s_res_line_almost_done")) /\ Silent
            [] ch = LF -> Move(To("s_header_field_start")) /\ Silent
            [] OTHER   -> Move([To("s_res_status") EXCEPT !.index = 0]) /\ Start("status")
    \/ /\ In({"s_res_status"})
       /\ CASE ch = CR -> Move(To("s_res_line_almost_done")) /\ CallData(marks, "status", p)
            [] ch = LF -> Move(To("s_header_field_start")) /\ CallData(marks, "status", p)
            [] OTHER   -> Move(parser) /\ Silent

\* The line feed after a carriage return; STRICT_CHECK.
LineFeed ==
    [s_res_line_almost_done |-> "s_header_field_start", s_req_line_almost_done |-> "s_header_field_start",
     s_header_almost_done |-> "s_header_value_lws",
     s_header_value_discard_ws_almost_done |-> "s_header_value_discard_lws"]

InLineFeed ==
    /\ In(DOMAIN LineFeed)
    /\ IF ch = LF THEN Move(To(LineFeed[parser.st])) /\ Silent ELSE Fail

-----------------------------------------------------------------------------
(* Header fields and values *)

\* The next byte of a keyword.  index is the place of the byte before, counted from 0.
Match(q, c) ==
    LET word == Keyword[q.hst]
        i    == q.index + 1
    IN  [q EXCEPT !.index = i,
                  !.hst = IF i >= Len(word) \/ c # word[i + 1] THEN "h_general"
                          ELSE IF i = Len(word) - 1 THEN Matched[q.hst] ELSE @]

HeaderFieldStart ==
    /\ In({"s_header_field_start"})
    /\ \/ ch = CR /\ Move(To("s_headers_almost_done")) /\ Silent
       \/ ch = LF /\ Again(To("s_headers_almost_done")) /\ Silent
       \/ /\ Token(ch)
          /\ Move([To("s_header_field") EXCEPT !.index = 0, !.hst =
                    (CASE c0 = "c" -> "h_C"
                       [] c0 = "p" -> "h_matching_proxy_connection"
                       [] c0 = "t" -> "h_matching_transfer_encoding"
                       [] c0 = "u" -> "h_matching_upgrade"
                       [] OTHER    -> "h_general")])
          /\ Start("header_field")
       \/ ch \notin {CR, LF} /\ ~Token(ch) /\ Fail

\* h_C, h_CO and h_CON lead to the two names that share a beginning.
FieldByte(q, c) ==
    CASE q.hst = "h_C"   -> [q EXCEPT !.index = @ + 1, !.hst = IF c = "o" THEN "h_CO" ELSE "h_general"]
      [] q.hst = "h_CO"  -> [q EXCEPT !.index = @ + 1, !.hst = IF c = "n" THEN "h_CON" ELSE "h_general"]
      [] q.hst = "h_CON" -> [q EXCEPT !.index = @ + 1,
                                      !.hst = (CASE c = "n" -> "h_matching_connection"
                                                 [] c = "t" -> "h_matching_content_length"
                                                 [] OTHER   -> "h_general")]
      [] q.hst \in DOMAIN Keyword -> Match(q, c)
      [] OTHER -> [q EXCEPT !.hst = "h_general"]

HeaderField ==
    /\ In({"s_header_field"})
    /\ \/ Token(ch) /\ Move(FieldByte(parser, c0)) /\ Silent
       \/ ch = ":" /\ Move(To("s_header_value_discard_ws")) /\ CallData(marks, "header_field", p)
       \/ ch = CR /\ Move(To("s_header_almost_done")) /\ CallData(marks, "header_field", p)
       \/ ch = LF /\ Move(To("s_header_field_start")) /\ CallData(marks, "header_field", p)
       \/ ch \notin {":", CR, LF} /\ ~Token(ch) /\ Fail

\* The first byte of a value, or of the line that continues it.
FirstOfValue(q, c) ==
    CASE q.hst = "h_upgrade"           -> [q EXCEPT !.flags = @ \cup {"F_UPGRADE"}, !.hst = "h_general"]
      [] q.hst = "h_transfer_encoding" -> [q EXCEPT !.hst = IF c = "c" THEN "h_matching_transfer_encoding_chunked"
                                                                       ELSE "h_general"]
      [] q.hst = "h_content_length"    -> IF c \in Num THEN [q EXCEPT !.len = Value(c)] ELSE q
      [] q.hst = "h_connection"        -> [q EXCEPT !.hst =
                                           (CASE c = "k" -> "h_matching_connection_keep_alive"
                                              [] c = "c" -> "h_matching_connection_close"
                                              [] OTHER   -> "h_general")]
      [] OTHER -> [q EXCEPT !.hst = "h_general"]

HeaderValueStart ==
    \/ /\ In({"s_header_value_discard_ws"})
       /\ \/ ch = SP /\ Move(parser) /\ Silent
          \/ ch = CR /\ Move(To("s_header_value_discard_ws_almost_done")) /\ Silent
          \/ ch = LF /\ Move(To("s_header_value_discard_lws")) /\ Silent
    \/ /\ In({"s_header_value_discard_ws", "s_header_value_start"})
       /\ parser.st = "s_header_value_discard_ws" => ch \notin {SP, CR, LF}
       /\ LET q == [FirstOfValue(parser, c0) EXCEPT !.st = "s_header_value", !.index = 0]
          IN  IF parser.hst = "h_content_length" /\ ch \notin Num
              THEN FailAs(Counted(q))
              ELSE Move(q) /\ Start("header_value")

\* The conservative limit of the code.
LengthFits(n) == ~((UllMax - 10) \div 10 < n)

ValueByte(q, c) ==
    CASE q.hst = "h_content_length"  -> IF c = SP THEN q ELSE [q EXCEPT !.len = @ * 10 + Value(c)]
      [] q.hst \in DOMAIN Keyword   -> Match(q, c)
      [] q.hst \in {"h_transfer_encoding_chunked", "h_connection_keep_alive", "h_connection_close"} ->
            IF c = SP THEN q ELSE [q EXCEPT !.hst = "h_general"]
      [] OTHER -> [q EXCEPT !.hst = "h_general"]

HeaderValue ==
    /\ In({"s_header_value"})
    /\ \/ ch = CR /\ Move(To("s_header_almost_done")) /\ CallData(marks, "header_value", p)
       \/ ch = LF /\ Again(To("s_header_almost_done")) /\ CallData(marks, "header_value", p)
       \/ /\ ch \notin {CR, LF}
          /\ IF parser.hst = "h_content_length" /\ ch # SP
                /\ (ch \notin Num \/ ~LengthFits(parser.len))
             THEN Fail
             ELSE Move(ValueByte(parser, c0)) /\ Silent

\* The header is over unless the next line starts with a space.
HeaderValueLws ==
    /\ In({"s_header_value_lws"})
    /\ Silent
    /\ \/ ch = SP /\ Again(To("s_header_value_start"))
       \/ /\ ch # SP
          /\ Again([To("s_header_field_start") EXCEPT !.flags = @ \cup
                      CASE parser.hst = "h_connection_keep_alive"     -> {"F_CONNECTION_KEEP_ALIVE"}
                        [] parser.hst = "h_connection_close"          -> {"F_CONNECTION_CLOSE"}
                        [] parser.hst = "h_transfer_encoding_chunked" -> {"F_CHUNKED"}
                        [] OTHER -> {}])

\* A value that is empty is reported as an empty string.
DiscardLws ==
    /\ In({"s_header_value_discard_lws"})
    /\ IF ch = SP THEN Move(To("s_header_value_discard_ws")) /\ Silent
       ELSE Again(To("s_header_field_start")) /\ CallData(Mark("header_value"), "header_value", p)

-----------------------------------------------------------------------------
(* The end of the header, and the body *)

\* The trailer of a chunked message ends it; what on_headers_complete answers is input.skip.
HeadersAlmostDone ==
    /\ In({"s_headers_almost_done"})
    /\ CASE ch # LF -> Fail
         [] ch = LF /\ "F_TRAILING" \in parser.flags ->
              Move(NewMessage(parser)) /\ Notify("message_complete", <<>>)
         [] OTHER ->
              /\ Again([To("s_headers_done") EXCEPT
                         !.upgrade = "F_UPGRADE" \in parser.flags \/ parser.meth = "CONNECT",
                         !.flags = @ \cup IF input.skip THEN {"F_SKIPBODY"} ELSE {}])
              /\ Notify("headers_complete", <<parser.meth>>)

NoBody(q) == q.len = 0 \/ (q.len = UllMax /\ ~NeedsEof(q))

HeadersDone ==
    /\ In({"s_headers_done"})
    /\ LET q == [parser EXCEPT !.nread = 0] IN
       CASE ch # LF -> Fail
         [] ch = LF /\ parser.upgrade ->       \* the rest is another protocol: return
              /\ parser' = NewMessage(q) /\ p' = p + 1 /\ again' = FALSE /\ status' = "upgraded"
              /\ Notify("message_complete", <<>>) /\ UNCHANGED <<input, piece>>
         [] ch = LF /\ ~parser.upgrade /\ "F_SKIPBODY" \notin q.flags /\ "F_CHUNKED" \in q.flags ->
              MoveBy(1, [q EXCEPT !.st = "s_chunk_size_start"]) /\ Silent
         [] ch = LF /\ ~parser.upgrade /\ ("F_SKIPBODY" \in q.flags
                                          \/ ("F_CHUNKED" \notin q.flags /\ NoBody(q))) ->
              MoveBy(1, NewMessage(q)) /\ Notify("message_complete", <<>>)
         [] OTHER ->
              /\ MoveBy(1, [q EXCEPT !.st = IF q.len = UllMax THEN "s_body_identity_eof" ELSE "s_body_identity"])
              /\ Silent

Here     == piece[2] - p + 1                        \* (data + len) - p
ToRead   == IF parser.len < Here THEN parser.len ELSE Here

\* The last byte of the body is looked at once more, as s_message_done.
BodyIdentity ==
    /\ In({"s_body_identity"})
    /\ IF ToRead = parser.len
       THEN /\ parser' = [parser EXCEPT !.st = "s_message_done", !.len = 0]
            /\ p' = p + ToRead - 1 /\ again' = TRUE
            /\ CallData(Mark("body"), "body", p + ToRead)
            /\ UNCHANGED <<input, piece, status>>
       ELSE MoveBy(ToRead, [parser EXCEPT !.len = @ - ToRead]) /\ Start("body")

BodyIdentityEof ==
    In({"s_body_identity_eof"}) /\ MoveBy(Here, parser) /\ Start("body")

MessageDone ==
    In({"s_message_done"}) /\ Move(NewMessage(parser)) /\ Notify("message_complete", <<>>)

ChunkFits(n) == ~((UllMax - 16) \div 16 < n)

ChunkSize ==
    \/ /\ In({"s_chunk_size_start"})
       /\ IF Unhex(ch) = -1 THEN Fail
          ELSE Move([To("s_chunk_size") EXCEPT !.len = Unhex(ch)]) /\ Silent
    \/ /\ In({"s_chunk_size"})
       /\ CASE ch = CR -> Move(To("s_chunk_size_almost_done")) /\ Silent
            [] ch \in {";", SP} -> Move(To("s_chunk_parameters")) /\ Silent
            [] Unhex(ch) # -1 /\ ChunkFits(parser.len) ->
                 Move([parser EXCEPT !.len = @ * 16 + Unhex(ch)]) /\ Silent
            [] OTHER -> Fail
    \/ /\ In({"s_chunk_parameters"})
       /\ IF ch = CR THEN Move(To("s_chunk_size_almost_done")) /\ Silent ELSE Move(parser) /\ Silent

\* The last chunk has no bytes; the trailer follows.
AfterChunkSize(q) ==
    IF q.len = 0 THEN [q EXCEPT !.st = "s_header_field_start", !.flags = @ \cup {"F_TRAILING"}, !.nread = 0]
                 ELSE [q EXCEPT !.st = "s_chunk_data", !.nread = 0]

ChunkSizeAlmostDone ==
    /\ In({"s_chunk_size_almost_done"})
    /\ IF ch = LF THEN MoveBy(1, AfterChunkSize(Counted(parser))) /\ Silent ELSE Fail

ChunkData ==
    /\ In({"s_chunk_data"})
    /\ MoveBy(ToRead, [parser EXCEPT !.len = @ - ToRead,
                                     !.st = IF parser.len = ToRead THEN "s_chunk_data_almost_done" ELSE @])
    /\ Start("body")

ChunkDataAlmostDone ==
    /\ In({"s_chunk_data_almost_done"})
    /\ IF ch = CR THEN Move(To("s_chunk_data_done")) /\ CallData(marks, "body", p) ELSE Fail

\* Mutant: the bytes between two chunks go on counting.
ChunkDataDoneCounting ==
    /\ In({"s_chunk_data_done"})
    /\ IF ch = LF THEN MoveBy(1, [To("s_chunk_size_start") EXCEPT !.nread = @ + 1]) /\ Silent ELSE Fail

ChunkDataDone ==
    /\ In({"s_chunk_data_done"})
    /\ IF ch = LF THEN MoveBy(1, [parser EXCEPT !.st = "s_chunk_size_start", !.nread = 0]) /\ Silent ELSE Fail

-----------------------------------------------------------------------------
(* The calls *)

\* http_parser_init
NewParser(type) ==
    [st |-> CASE type = "HTTP_REQUEST" -> "s_start_req" [] type = "HTTP_RESPONSE" -> "s_start_res"
              [] OTHER -> "s_start_req_or_res",
     type |-> type, hst |-> "h_general", index |-> 0, flags |-> {}, len |-> 0, nread |-> 0,
     meth |-> "DELETE", upgrade |-> FALSE, major |-> 0, minor |-> 0, code |-> 0]

Init ==
    /\ input \in Texts
    /\ parser = NewParser(input.type)
    /\ p = 1 /\ piece = <<1, 0>> /\ marks = {} /\ again = FALSE
    /\ status = "between" /\ calls = <<>> /\ attr = NoAttr

\* Mutant: a value that is cut in two loses its second part.
ResumedWithoutValue(st) ==
    CASE st = "s_header_field" -> {"header_field"}
      [] st \in UrlPrefix \cup UrlRest -> {"url"}
      [] st = "s_res_status"   -> {"status"}
      [] OTHER -> {}

\* The marks a call starts with, so that what a piece cut in two is reported in two.
Resumed(st) ==
    CASE st = "s_header_field" -> {"header_field"}
      [] st = "s_header_value" -> {"header_value"}
      [] st \in UrlPrefix \cup UrlRest -> {"url"}
      [] st = "s_res_status"   -> {"status"}
      [] OTHER -> {}

\* http reads the whole file; another caller gives pieces as they come.
Execute ==
    /\ status = "between" /\ p <= Len(input.text)
    /\ \E last \in p..Len(input.text) :
          /\ input.fed = "whole" => last = Len(input.text)
          /\ piece' = <<p, last>>
    /\ marks' = {<<f, p>> : f \in Resumed(parser.st)}
    /\ status' = "in"
    /\ UNCHANGED <<input, parser, p, again, calls, attr>>

\* At the end of a piece what is marked is reported.
EndOfPiece ==
    /\ status = "in" /\ p = piece[2] + 1
    /\ status' = "between"
    /\ IF marks = {} THEN UNCHANGED <<marks, calls, attr>>
       ELSE CallData(marks, (CHOOSE m \in marks : TRUE)[1], p)
    /\ UNCHANGED <<input, parser, p, piece, again>>

\* A call without data: the connection is closed.  http does not make it.
EndOfInput ==
    /\ status = "between" /\ p > Len(input.text) /\ input.fed = "pieces"
    /\ CASE parser.st = "s_body_identity_eof" -> status' = "ended" /\ Notify("message_complete", <<>>)
         [] parser.st \in {"s_dead", "s_start_req_or_res", "s_start_res", "s_start_req"} ->
              status' = "ended" /\ Silent
         [] OTHER -> status' = "failed" /\ Silent
    /\ UNCHANGED <<input, parser, p, piece, again>>

Next ==
    \/ Execute \/ EndOfPiece \/ EndOfInput \/ HeaderTooLong
    \/ Dead \/ StartReqOrRes \/ ResOrRespH \/ StartRes \/ StartReq \/ ReqMethod
    \/ SpacesBeforeUrl \/ InUrlPrefix \/ InUrl \/ InLiteral \/ Version \/ StatusCode \/ StatusText
    \/ InLineFeed \/ HeaderFieldStart \/ HeaderField \/ HeaderValueStart \/ HeaderValue
    \/ HeaderValueLws \/ DiscardLws \/ HeadersAlmostDone \/ HeadersDone
    \/ BodyIdentity \/ BodyIdentityEof \/ MessageDone
    \/ ChunkSize \/ ChunkSizeAlmostDone \/ ChunkData \/ ChunkDataAlmostDone \/ ChunkDataDone

Spec == Init /\ [][Next]_vars

-----------------------------------------------------------------------------
(* Properties *)

Done == p > Len(input.text) /\ (status = "ended" \/ (status = "between" /\ input.fed = "whole"))

TypeOK ==
    /\ p \in 1..(Len(input.text) + 1) /\ piece[2] \in 0..Len(input.text)
    /\ marks \subseteq (Data \X (1..Len(input.text)))
    /\ status \in {"between", "in", "failed", "upgraded", "ended"}
    /\ parser.len \in 0..UllMax /\ parser.nread \in 0..(MaxHeader + 1)
    /\ parser.flags \subseteq {"F_CHUNKED", "F_CONNECTION_KEEP_ALIVE", "F_CONNECTION_CLOSE", "F_TRAILING",
                               "F_UPGRADE", "F_SKIPBODY"}

\* A text that is not well formed - a length or a chunk size that is too large for its type
\* among them - is never taken to its end (the errors of http_parser_execute).
BadRejected == ~input.good => ~Done

\* What is reported of well-formed messages is what they say, in order: nothing is left out,
\* doubled or moved from one message or one header to the next, wherever the text is cut; in
\* the end it is all there; and a text that is not well formed is rejected
\* (http_parser_execute, the marks it resumes, its framing of bodies, its errors).
CallsRight ==
    /\ BadRejected
    /\ input.good =>
        LET n == Len(calls) IN
        /\ n <= Len(input.calls)
        /\ \A i \in 1..(n - 1) : calls[i] = input.calls[i]
        /\ n > 0 => calls[n][1] = input.calls[n][1] /\ IsPrefix(calls[n][2], input.calls[n][2])
        /\ Done \/ status = "upgraded" => calls = input.calls
        /\ status # "failed"

\* The assertions of http_parser_execute: no two marks are open at the end of a piece, a chunk
\* starts with the counter at one in a message that is chunked, and bodies are read while a
\* length is left that is neither zero nor the mark for "none given".
AssertsHold ==
    TypeOK /\ (status = "in" =>
        /\ Cardinality(marks) <= 1
        /\ p <= piece[2] =>
            /\ parser.st = "s_chunk_size_start" => Count = 1
            /\ parser.st \in {"s_chunk_size_start", "s_chunk_size", "s_chunk_parameters", "s_chunk_size_almost_done",
                              "s_chunk_data", "s_chunk_data_almost_done", "s_chunk_data_done"}
                  => "F_CHUNKED" \in parser.flags
            /\ parser.st \in {"s_body_identity", "s_chunk_data"} => parser.len \notin {0, UllMax}
            /\ parser.st = "s_chunk_data_almost_done" => parser.len = 0
            /\ parser.st = "s_header_value" /\ ch \notin {CR, LF}
                  => parser.hst \notin {"h_connection", "h_transfer_encoding"})

\* What the callbacks keep of a captured file with one POST, each of its names once and no value
\* continued on a second line: every name of the table has its own value, a name that is not in
\* the table leaves no trace, and the body is whole (on_header_field, on_header_value, on_body).
AttrRight == input.simple /\ Done /\ input.fed = "whole"
                => attr.head = input.attr.head /\ attr.url = input.attr.url /\ attr.body = input.attr.body

=============================================================================
