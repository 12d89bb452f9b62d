---------------------------- MODULE Http_proofs ----------------------------
(***************************************************************************)
(* Proofs about HTTP.  First the parser: its assertions hold for every     *)
(* text, wherever it is cut, and every size of a header and of a length.   *)
(* Then the capture: a node of it is one whole POST, for any connections,  *)
(* consumers and faults, any number of POSTs and segments, and any length  *)
(* of the ring.                                                            *)
(***************************************************************************)
EXTENDS HttpParser, HttpCapture, FiniteSetTheorems, SequenceTheorems, TLAPS

-----------------------------------------------------------------------------
(* The parser                                                              *)

-----------------------------------------------------------------------------
(* The invariant *)

Types == {"HTTP_REQUEST", "HTTP_RESPONSE", "HTTP_BOTH"}

FlagNames == {"F_CHUNKED", "F_CONNECTION_KEEP_ALIVE", "F_CONNECTION_CLOSE", "F_TRAILING",
              "F_UPGRADE", "F_SKIPBODY"}

ChunkStates == {"s_chunk_size_start", "s_chunk_size", "s_chunk_parameters", "s_chunk_size_almost_done",
                "s_chunk_data", "s_chunk_data_almost_done", "s_chunk_data_done"}

\* What a value can be matched against.
ValueStates == {"h_general", "h_content_length", "h_matching_transfer_encoding_chunked",
                "h_matching_connection_keep_alive", "h_matching_connection_close",
                "h_transfer_encoding_chunked", "h_connection_keep_alive", "h_connection_close"}

FieldStates == {"h_C", "h_CO", "h_CON", "h_matching_connection", "h_matching_proxy_connection",
                "h_matching_content_length", "h_matching_transfer_encoding", "h_matching_upgrade",
                "h_connection", "h_transfer_encoding", "h_upgrade"}

\* What a header can be matched against.
HeaderNames == ValueStates \cup FieldStates

BodyStates == {"s_body_identity", "s_body_identity_eof", "s_chunk_data", "s_chunk_data_almost_done"}

\* The states in front of the header, but for those of an address.
LineStates == {"s_dead", "s_start_req_or_res", "s_res_or_resp_H", "s_start_res", "s_start_req", "s_req_method",
               "s_req_spaces_before_url", "s_req_http_start", "s_req_http_H", "s_req_http_HT", "s_req_http_HTT",
               "s_req_http_HTTP", "s_req_first_http_major", "s_req_http_major", "s_req_first_http_minor",
               "s_req_http_minor", "s_req_line_almost_done", "s_res_H", "s_res_HT", "s_res_HTT", "s_res_HTTP",
               "s_res_first_http_major", "s_res_http_major", "s_res_first_http_minor", "s_res_http_minor",
               "s_res_first_status_code", "s_res_status_code", "s_res_status_start", "s_res_status",
               "s_res_line_almost_done"}

HeaderStates == {"s_header_field_start", "s_header_field", "s_header_value_discard_ws",
                 "s_header_value_discard_ws_almost_done", "s_header_value_discard_lws", "s_header_value_start",
                 "s_header_value", "s_header_value_lws", "s_header_almost_done", "s_headers_almost_done",
                 "s_headers_done", "s_message_done"}

States == LineStates \cup UrlPrefix \cup UrlRest \cup HeaderStates \cup BodyStates \cup ChunkStates

Methods == {"DELETE", "GET", "HEAD", "POST", "PUT", "CONNECT", "OPTIONS", "TRACE", "COPY", "LOCK", "MKCOL",
            "MOVE", "PROPFIND", "PROPPATCH", "SEARCH", "UNLOCK", "REPORT", "MKACTIVITY", "CHECKOUT", "MERGE",
            "MSEARCH", "NOTIFY", "SUBSCRIBE", "UNSUBSCRIBE", "PATCH", "PURGE"}

Parsers == [st : States, type : Types, hst : HeaderNames, index : Nat,
            flags : SUBSET FlagNames, len : 0..UllMax, nread : 0..(MaxHeader + 1), meth : Methods,
            upgrade : BOOLEAN, major : Int, minor : Int, code : Int]

\* The length is one that was read.
Measured == {"s_body_identity", "s_chunk_size", "s_chunk_parameters", "s_chunk_size_almost_done", "s_chunk_data"}

\* What each state says of the flags, of the length and of the header it is in.
Settled(q) ==
    /\ q.st \in ChunkStates => "F_CHUNKED" \in q.flags
    /\ q.st \in Measured => q.len # UllMax
    /\ q.st \in {"s_body_identity", "s_chunk_data"} => q.len # 0
    /\ q.st = "s_chunk_data_almost_done" => q.len = 0
    /\ q.st = "s_header_value" => q.hst \in ValueStates

\* The datum a state is in the middle of.
Within(st) == Resumed(st) \cup IF st \in BodyStates THEN {"body"} ELSE {}

\* Marks are of that datum, one at most.
MarksOf(ms, st) ==
    /\ ms \subseteq Within(st) \X (1..Len(input.text))
    /\ \A m, n \in ms : m = n

\* The counter starts again with each chunk.
Counting == parser.nread <= MaxHeader /\ (parser.st = "s_chunk_size_start" => parser.nread = 0 /\ ~again)

Position ==
    /\ input \in Texts /\ p \in 1..(Len(input.text) + 1) /\ again \in BOOLEAN
    /\ piece \in Int \X (0..Len(input.text))
    /\ status = "in" => p <= piece[2] + 1

ParserInv ==
    /\ Position
    /\ parser \in Parsers
    /\ status \in {"between", "in", "failed", "upgraded", "ended"}
    /\ status \in {"between", "in"} => Settled(parser) /\ Counting
    /\ status = "in" => MarksOf(marks, parser.st)
    /\ marks \subseteq Data \X (1..Len(input.text))

Marked == {"s_header_field", "s_header_value", "s_res_status"} \cup UrlPrefix \cup UrlRest \cup BodyStates

\* States of which Settled says nothing.
Plain(st) == st \notin ChunkStates \cup {"s_body_identity", "s_header_value"}

-----------------------------------------------------------------------------
(* Lemmas: the operators *)

\* A digit has a value.
LEMMA Digit == \A c \in Num : Value(c) \in 0..9
<1>1. TAKE c \in Num
<1>2. PICK i \in 1..10 : Digits[i] = c
  BY <1>1 DEF Num
<1>3. i - 1 \in 0..9 /\ Digits[(i - 1) + 1] = c
  BY <1>2
<1> QED
  BY <1>3 DEF Value

\* A byte of a chunk size has a value below 16, or none.
LEMMA Hex == \A c : Unhex(c) \in Int /\ Unhex(c) >= -1 /\ Unhex(c) <= 15
BY Digit DEF Unhex

\* A byte of an address leads to another state of the address or is wrong.
LEMMA NextUrl ==
    ASSUME NEW st \in UrlPrefix \cup UrlRest \cup {"s_req_spaces_before_url"}, NEW c
    PROVE  UrlNext(st, c) \in UrlPrefix \cup UrlRest \cup {"s_dead"}
BY DEF UrlNext, UrlPrefix, UrlRest

\* The states of which a mark is kept are few, and none keeps two.
LEMMA WithinIs ==
    /\ \A st : st \notin Marked => Within(st) = {}
    /\ \A st \in UrlPrefix \cup UrlRest : Within(st) = {"url"}
    /\ \A st \in BodyStates : Within(st) = {"body"}
    /\ Within("s_header_field") = {"header_field"}
    /\ Within("s_header_value") = {"header_value"}
    /\ Within("s_res_status") = {"status"}
<1>1. \A st : st \notin Marked => Within(st) = {}
  BY DEF Within, Resumed, Marked, UrlPrefix, UrlRest, BodyStates
<1>2. \A st \in UrlPrefix \cup UrlRest : Within(st) = {"url"}
  BY DEF Within, Resumed, UrlPrefix, UrlRest, BodyStates
<1>3. \A st \in BodyStates : Within(st) = {"body"}
  BY DEF Within, Resumed, UrlPrefix, UrlRest, BodyStates
<1>4. /\ Within("s_header_field") = {"header_field"}
      /\ Within("s_header_value") = {"header_value"}
      /\ Within("s_res_status") = {"status"}
  BY DEF Within, Resumed, UrlPrefix, UrlRest, BodyStates
<1> QED
  BY <1>1, <1>2, <1>3, <1>4

\* To another state: nothing else changes.
LEMMA ToIs ==
    ASSUME parser \in Parsers, NEW st \in States
    PROVE  /\ To(st) \in Parsers /\ To(st).st = st
           /\ To(st).nread = parser.nread /\ To(st).flags = parser.flags
           /\ To(st).len = parser.len /\ To(st).hst = parser.hst
BY DEF To, Parsers

\* A message starts without flags and without a length.
LEMMA FreshIs ==
    ASSUME parser \in Parsers, NEW st \in States
    PROVE  Fresh(st) \in Parsers /\ Fresh(st).st = st /\ Fresh(st).nread = parser.nread
<1>1. UllMax \in 0..UllMax /\ {} \in SUBSET FlagNames
  BY ParserAssumption
<1> QED
  BY <1>1 DEF Fresh, Parsers

\* A byte that does not end the call is counted within the bound.
LEMMA Counts ==
    ASSUME ParserInv, status = "in", ~TooLong
    PROVE  Count \in 0..MaxHeader
BY ParserAssumption DEF ParserInv, Parsers, Counting, TooLong, Count, Position

\* Counting changes the counter.
LEMMA CountedIs ==
    ASSUME ParserInv, status = "in", ~TooLong, NEW q \in Parsers
    PROVE  /\ Counted(q) \in Parsers /\ Counted(q).st = q.st /\ Counted(q).nread = Count
           /\ Counted(q).flags = q.flags /\ Counted(q).len = q.len /\ Counted(q).hst = q.hst
BY Counts, ParserAssumption DEF Counted, Parsers

\* The names of states.
LEMMA StatesAre ==
    /\ LineStates \subseteq States /\ UrlPrefix \subseteq States /\ UrlRest \subseteq States
    /\ HeaderStates \subseteq States /\ BodyStates \subseteq States /\ ChunkStates \subseteq States
BY DEF States

\* Of most states there is nothing to keep.
LEMMA PlainSettled == \A q : Plain(q.st) => Settled(q) /\ q.st # "s_chunk_size_start"
BY DEF Plain, Settled, ChunkStates, Measured

\* Counting a byte leaves everything else as it is.
LEMMA CountedSettled ==
    ASSUME ParserInv, status = "in", ~TooLong, NEW q \in Parsers, Settled(q)
    PROVE  Settled(Counted(q))
BY CountedIs DEF Settled

-----------------------------------------------------------------------------
(* Lemmas: the marks *)

\* What is marked stays marked in a state of the same datum.
LEMMA SilentMarks ==
    ASSUME ParserInv, status = "in", Silent, NEW st, Within(parser.st) \subseteq Within(st)
    PROVE  MarksOf(marks', st)
BY DEF ParserInv, MarksOf, Silent

\* A state without a datum has no mark.
LEMMA NoMarks ==
    ASSUME ParserInv, status = "in", parser.st \notin Marked
    PROVE  marks = {}
BY WithinIs DEF ParserInv, MarksOf

\* A callback that tells something keeps the marks.
LEMMA NotifyMarks ==
    ASSUME ParserInv, status = "in", parser.st \notin Marked, NEW e, NEW i, Notify(e, i), NEW st
    PROVE  MarksOf(marks', st)
BY NoMarks DEF MarksOf, Notify

\* A mark is set once.
LEMMA MarkIs ==
    ASSUME ParserInv, status = "in", p <= piece[2], NEW f, Within(parser.st) \subseteq {f}
    PROVE  \E m \in {f} \X (1..Len(input.text)) : Mark(f) = {m}
<1>1. MarksOf(marks, parser.st) /\ p \in 1..Len(input.text)
  BY ParserAssumption DEF ParserInv, Position
<1>2. marks \subseteq {f} \X (1..Len(input.text)) /\ \A m, n \in marks : m = n
  BY <1>1 DEF MarksOf
<1>3. CASE marks = {}
  <2>1. Mark(f) = {<<f, p>>}
    BY <1>3 DEF Mark
  <2> QED
    BY <2>1, <1>1
<1>4. CASE marks # {}
  <2>1. PICK m \in marks : TRUE
    BY <1>4
  <2>2. marks = {m} /\ m \in {f} \X (1..Len(input.text))
    BY <1>2, <2>1
  <2>3. m[1] = f
    BY <2>2
  <2>4. Mark(f) = {m}
    BY <2>2, <2>3 DEF Mark
  <2> QED
    BY <2>2, <2>4
<1> QED
  BY <1>3, <1>4

\* A datum is marked where it starts.
LEMMA StartMarks ==
    ASSUME ParserInv, status = "in", p <= piece[2], NEW f, Within(parser.st) \subseteq {f}, Start(f),
           NEW st, f \in Within(st)
    PROVE  MarksOf(marks', st)
<1>1. PICK m \in {f} \X (1..Len(input.text)) : Mark(f) = {m}
  BY MarkIs
<1> QED
  BY <1>1 DEF Start, MarksOf

\* What is reported is no longer marked.
LEMMA CallMarks ==
    ASSUME NEW ms, NEW f, NEW e, ms \subseteq {f} \X (1..Len(input.text)), CallData(ms, f, e)
    PROVE  marks' = {}
<1>1. \A m \in ms : m[1] = f
  OBVIOUS
<1>2. CASE ms = {}
  BY <1>2 DEF CallData
<1>3. CASE ms # {}
  <2>1. {m \in ms : m[1] = f} = ms
    BY <1>1
  <2> QED
    BY <2>1, <1>3 DEF CallData
<1> QED
  BY <1>2, <1>3

\* A datum that is reported is the one that was marked, so no mark is left.
LEMMA OwnCallMarks ==
    ASSUME ParserInv, status = "in", NEW f, NEW e, Within(parser.st) \subseteq {f}, CallData(marks, f, e), NEW st
    PROVE  MarksOf(marks', st)
<1>1. marks \subseteq {f} \X (1..Len(input.text))
  BY DEF ParserInv, MarksOf
<1>2. marks' = {}
  BY <1>1, CallMarks
<1> QED
  BY <1>2 DEF MarksOf

\* A datum that starts and ends with the same byte leaves no mark either.
LEMMA MarkCallMarks ==
    ASSUME ParserInv, status = "in", p <= piece[2], NEW f, NEW e, Within(parser.st) \subseteq {f},
           CallData(Mark(f), f, e), NEW st
    PROVE  MarksOf(marks', st)
<1>1. PICK m \in {f} \X (1..Len(input.text)) : Mark(f) = {m}
  BY MarkIs
<1>2. Mark(f) \subseteq {f} \X (1..Len(input.text))
  BY <1>1
<1>3. marks' = {}
  BY <1>2, CallMarks
<1> QED
  BY <1>3 DEF MarksOf

\* What a state is in the middle of is one of the data.
LEMMA MarksAreData ==
    ASSUME NEW ms, NEW st, MarksOf(ms, st)
    PROVE  ms \subseteq Data \X (1..Len(input.text))
<1>1. Within(st) \subseteq Data
  BY DEF Within, Resumed, Data
<1> QED
  BY <1>1 DEF MarksOf

-----------------------------------------------------------------------------
(* Lemmas: one turn of the loop *)

\* Bytes are taken, within the piece, and the parser is in a state that is settled.
LEMMA MovesBy ==
    ASSUME ParserInv, status = "in", NEW n \in Nat, p + n <= piece[2] + 1, NEW q \in Parsers, MoveBy(n, q),
           Settled(q), q.nread <= MaxHeader, q.st = "s_chunk_size_start" => q.nread = 0, MarksOf(marks', q.st)
    PROVE  ParserInv'
<1>1. input' = input /\ piece' = piece /\ status' = "in" /\ parser' = q /\ p' = p + n /\ again' = FALSE
  BY DEF MoveBy
<1>2. Position'
  <2>1. input \in Texts /\ p \in 1..(Len(input.text) + 1) /\ piece \in Int \X (0..Len(input.text))
    BY DEF ParserInv, Position
  <2>2. Len(input.text) \in Nat /\ piece[2] \in 0..Len(input.text)
    BY <2>1, ParserAssumption
  <2>3. p + n \in 1..(Len(input.text) + 1)
    BY <2>1, <2>2
  <2> QED
    BY <1>1, <2>1, <2>3 DEF Position
<1>3. (Settled(parser) /\ Counting)'
  BY <1>1 DEF Counting, Settled
<1>4. MarksOf(marks, parser.st)'
  BY <1>1 DEF MarksOf
<1>5. marks' \subseteq Data \X (1..Len(input.text))
  BY MarksAreData
<1> QED
  BY <1>1, <1>2, <1>3, <1>4, <1>5 DEF ParserInv

\* One byte is taken and counted.
LEMMA Moves ==
    ASSUME ParserInv, status = "in", p <= piece[2], ~TooLong, NEW q \in Parsers, Move(q),
           Settled(q), q.st # "s_chunk_size_start", MarksOf(marks', q.st)
    PROVE  ParserInv'
<1>1. Counted(q) \in Parsers /\ Counted(q).st = q.st /\ Counted(q).nread <= MaxHeader
  BY CountedIs, Counts
<1>2. Settled(Counted(q))
  BY CountedSettled
<1>3. p + 1 <= piece[2] + 1
  BY DEF ParserInv, Position
<1>4. MoveBy(1, Counted(q))
  BY DEF Move
<1> HIDE DEF Counted
<1> QED
  BY <1>1, <1>2, <1>3, <1>4, MovesBy

\* A byte is looked at once more.
LEMMA Agains ==
    ASSUME ParserInv, status = "in", p <= piece[2], ~TooLong, NEW q \in Parsers, Again(q),
           Settled(q), q.st # "s_chunk_size_start", MarksOf(marks', q.st)
    PROVE  ParserInv'
<1>1. Counted(q) \in Parsers /\ Counted(q).st = q.st /\ Counted(q).nread <= MaxHeader
  BY CountedIs, Counts
<1>2. Settled(Counted(q))
  BY CountedSettled
<1>3. /\ input' = input /\ piece' = piece /\ status' = "in" /\ parser' = Counted(q) /\ p' = p
      /\ again' = TRUE
  BY DEF Again
<1>4. Position'
  BY <1>3 DEF ParserInv, Position
<1>5. (Settled(parser) /\ Counting)'
  BY <1>1, <1>2, <1>3 DEF Counting, Settled
<1>6. MarksOf(marks, parser.st)'
  BY <1>1, <1>3 DEF MarksOf
<1>7. marks' \subseteq Data \X (1..Len(input.text))
  BY MarksAreData
<1> QED
  BY <1>1, <1>3, <1>4, <1>5, <1>6, <1>7 DEF ParserInv

\* The call ends with an error.
LEMMA FailsAs ==
    ASSUME ParserInv, NEW q \in Parsers, FailAs(q)
    PROVE  ParserInv'
BY DEF ParserInv, Position, FailAs

\* A byte that is refused ends the parsing.
LEMMA Fails ==
    ASSUME ParserInv, status = "in", ~TooLong, Fail
    PROVE  ParserInv'
<1>1. parser \in Parsers
  BY DEF ParserInv
<1>2. Counted(parser) \in Parsers
  BY <1>1, CountedIs
<1> QED
  BY <1>2, FailsAs DEF Fail

\* From a state without a mark to one that is plain.
LEMMA PlainMove ==
    ASSUME ParserInv, status = "in", p <= piece[2], ~TooLong, NEW q \in Parsers, Move(q), Plain(q.st),
           Silent, Within(parser.st) \subseteq Within(q.st)
    PROVE  ParserInv'
BY Moves, PlainSettled, SilentMarks

\* The same for a step that changes the state only.
LEMMA PlainTo ==
    ASSUME ParserInv, status = "in", p <= piece[2], ~TooLong, NEW st \in States, Move(To(st)), Plain(st),
           Silent, Within(parser.st) \subseteq Within(st)
    PROVE  ParserInv'
<1>1. To(st) \in Parsers /\ To(st).st = st
  BY ToIs DEF ParserInv
<1> QED
  BY <1>1, PlainMove

\* The same for a step that looks at its byte once more.
LEMMA PlainAgain ==
    ASSUME ParserInv, status = "in", p <= piece[2], ~TooLong, NEW q \in Parsers, Again(q), Plain(q.st),
           MarksOf(marks', q.st)
    PROVE  ParserInv'
BY Agains, PlainSettled

\* The same for a step that tells of an event.
LEMMA PlainNotify ==
    ASSUME ParserInv, status = "in", p <= piece[2], ~TooLong, NEW q \in Parsers, Move(q), Plain(q.st),
           NEW e, NEW i, Notify(e, i), parser.st \notin Marked
    PROVE  ParserInv'
BY Moves, PlainSettled, NotifyMarks

\* The same for a step that reports the datum it was within.
LEMMA PlainCall ==
    ASSUME ParserInv, status = "in", p <= piece[2], ~TooLong, NEW q \in Parsers, Move(q), Plain(q.st),
           NEW f, NEW e, Within(parser.st) \subseteq {f}, CallData(marks, f, e)
    PROVE  ParserInv'
BY Moves, PlainSettled, OwnCallMarks

\* The same for a step that starts a datum.
LEMMA PlainStart ==
    ASSUME ParserInv, status = "in", p <= piece[2], ~TooLong, NEW q \in Parsers, Move(q), Plain(q.st),
           NEW f, Within(parser.st) \subseteq {f}, Start(f), f \in Within(q.st)
    PROVE  ParserInv'
BY Moves, PlainSettled, StartMarks

-----------------------------------------------------------------------------
(* The steps where a message starts *)

\* What every step of the loop is taken in.
LEMMA Enter ==
    ASSUME ParserInv, NEW S, In(S)
    PROVE  /\ status = "in" /\ p <= piece[2] /\ ~TooLong /\ parser.st \in S /\ parser \in Parsers
           /\ Settled(parser) /\ Counting
BY DEF In, ParserInv

\* After the last message only line ends are allowed.
LEMMA DeadStep == ASSUME ParserInv, Dead PROVE ParserInv'
<1>1. In({"s_dead"})
  BY DEF Dead
<1>2. /\ status = "in" /\ p <= piece[2] /\ ~TooLong /\ parser.st = "s_dead" /\ parser \in Parsers
  BY <1>1, Enter
<1>3. CASE Move(parser) /\ Silent
  BY <1>2, <1>3, PlainMove DEF Plain, ChunkStates
<1>4. CASE Fail
  BY <1>2, <1>4, Fails
<1> QED
  BY <1>3, <1>4 DEF Dead

\* The first byte tells a request from a response.
LEMMA StartReqOrResStep == ASSUME ParserInv, StartReqOrRes PROVE ParserInv'
<1>1. In({"s_start_req_or_res"})
  BY DEF StartReqOrRes
<1>2. /\ status = "in" /\ p <= piece[2] /\ ~TooLong /\ parser.st = "s_start_req_or_res" /\ parser \in Parsers
  BY <1>1, Enter
<1>3. parser.st \notin Marked
  BY <1>2 DEF Marked, UrlPrefix, UrlRest, BodyStates
<1>4. CASE Move(parser) /\ Silent
  BY <1>2, <1>4, PlainMove DEF Plain, ChunkStates
<1>5. CASE Move(Fresh("s_res_or_resp_H")) /\ Notify("message_begin", <<>>)
  <2>0. "s_res_or_resp_H" \in States
    BY StatesAre DEF LineStates
  <2>1. Fresh("s_res_or_resp_H") \in Parsers /\ Plain(Fresh("s_res_or_resp_H").st)
    BY <1>2, <2>0, FreshIs DEF Plain, ChunkStates
  <2> QED
    BY <1>2, <1>3, <1>5, <2>1, PlainNotify
<1>6. CASE Again([Fresh("s_start_req") EXCEPT !.type = "HTTP_REQUEST"]) /\ Silent
  <2> DEFINE q == [Fresh("s_start_req") EXCEPT !.type = "HTTP_REQUEST"]
  <2>0. "s_start_req" \in States
    BY StatesAre DEF LineStates
  <2>1. q \in Parsers /\ q.st = "s_start_req"
    BY <1>2, <2>0, FreshIs DEF Parsers, Types
  <2>2. Plain(q.st)
    BY <2>1 DEF Plain, ChunkStates
  <2>3. Within(parser.st) = {}
    BY <1>3, WithinIs
  <2>4. MarksOf(marks', q.st)
    BY <1>2, <1>6, <2>3, SilentMarks
  <2> HIDE DEF q
  <2> QED
    BY <1>2, <1>6, <2>1, <2>2, <2>4, PlainAgain DEF q
<1> QED
  BY <1>4, <1>5, <1>6 DEF StartReqOrRes

\* An H may begin HTTP or HEAD.
LEMMA ResOrRespHStep == ASSUME ParserInv, ResOrRespH PROVE ParserInv'
<1>1. In({"s_res_or_resp_H"})
  BY DEF ResOrRespH
<1>2. /\ status = "in" /\ p <= piece[2] /\ ~TooLong /\ parser.st = "s_res_or_resp_H" /\ parser \in Parsers
  BY <1>1, Enter
<1>3. Within(parser.st) = {}
  BY <1>2, WithinIs DEF Marked, UrlPrefix, UrlRest, BodyStates
<1>4. CASE Move([To("s_res_HT") EXCEPT !.type = "HTTP_RESPONSE"]) /\ Silent
  <2> DEFINE q == [To("s_res_HT") EXCEPT !.type = "HTTP_RESPONSE"]
  <2>0. "s_res_HT" \in States
    BY StatesAre DEF LineStates
  <2>1. q \in Parsers /\ q.st = "s_res_HT"
    BY <1>2, <2>0, ToIs DEF Parsers, Types
  <2>2. Plain(q.st)
    BY <2>1 DEF Plain, ChunkStates
  <2> HIDE DEF q
  <2> QED
    BY <1>2, <1>3, <1>4, <2>1, <2>2, PlainMove DEF q
<1>5. CASE Move([To("s_req_method") EXCEPT !.type = "HTTP_REQUEST", !.meth = "HEAD", !.index = 2]) /\ Silent
  <2> DEFINE q == [To("s_req_method") EXCEPT !.type = "HTTP_REQUEST", !.meth = "HEAD", !.index = 2]
  <2>0. "s_req_method" \in States
    BY StatesAre DEF LineStates
  <2>1. q \in Parsers /\ q.st = "s_req_method"
    BY <1>2, <2>0, ToIs, ZenonT(60) DEF Parsers, Types, Methods
  <2>2. Plain(q.st)
    BY <2>1 DEF Plain, ChunkStates
  <2> HIDE DEF q
  <2> QED
    BY <1>2, <1>3, <1>5, <2>1, <2>2, PlainMove DEF q
<1>6. CASE Fail
  BY <1>2, <1>6, Fails
<1> QED
  BY <1>4, <1>5, <1>6 DEF ResOrRespH

\* A response starts.
LEMMA StartResStep == ASSUME ParserInv, StartRes PROVE ParserInv'
<1>1. In({"s_start_res"})
  BY DEF StartRes
<1>2. /\ status = "in" /\ p <= piece[2] /\ ~TooLong /\ parser.st = "s_start_res" /\ parser \in Parsers
  BY <1>1, Enter
<1>3. parser.st \notin Marked
  BY <1>2 DEF Marked, UrlPrefix, UrlRest, BodyStates
<1>4. ASSUME NEW st \in {"s_res_H", "s_start_res"}, Move(Fresh(st)), Notify("message_begin", <<>>) PROVE ParserInv'
  <2>0. st \in States
    BY StatesAre DEF LineStates
  <2>1. Fresh(st) \in Parsers /\ Plain(Fresh(st).st)
    BY <1>2, <2>0, FreshIs DEF Plain, ChunkStates
  <2> QED
    BY <1>2, <1>3, <1>4, <2>1, PlainNotify
<1>5. CASE FailAs(Counted(Fresh("s_start_res")))
  <2>0. "s_start_res" \in States
    BY StatesAre DEF LineStates
  <2>1. Counted(Fresh("s_start_res")) \in Parsers
    BY <1>2, <2>0, FreshIs, CountedIs
  <2> QED
    BY <1>5, <2>1, FailsAs
<1> QED
  BY <1>4, <1>5 DEF StartRes

\* A request starts.
LEMMA StartReqStep == ASSUME ParserInv, StartReq PROVE ParserInv'
<1>1. In({"s_start_req"})
  BY DEF StartReq
<1>2. /\ status = "in" /\ p <= piece[2] /\ ~TooLong /\ parser.st = "s_start_req" /\ parser \in Parsers
  BY <1>1, Enter
<1>3. parser.st \notin Marked
  BY <1>2 DEF Marked, UrlPrefix, UrlRest, BodyStates
<1>4. CASE Move(parser) /\ Silent
  BY <1>2, <1>4, PlainMove DEF Plain, ChunkStates
<1>5. CASE /\ ch \in DOMAIN FirstMethod
           /\ Move([Fresh("s_req_method") EXCEPT !.meth = FirstMethod[ch], !.index = 1])
           /\ Notify("message_begin", <<>>)
  <2> DEFINE q == [Fresh("s_req_method") EXCEPT !.meth = FirstMethod[ch], !.index = 1]
  <2>0. "s_req_method" \in States
    BY StatesAre DEF LineStates
  <2>1. FirstMethod[ch] \in Methods
    BY <1>5 DEF FirstMethod, Methods
  <2>2. q \in Parsers /\ q.st = "s_req_method"
    BY <1>2, <2>0, <2>1, FreshIs DEF Parsers
  <2>3. Plain(q.st)
    BY <2>2 DEF Plain, ChunkStates
  <2> HIDE DEF q
  <2> QED
    BY <1>2, <1>3, <1>5, <2>2, <2>3, PlainNotify DEF q
<1>6. CASE FailAs(Counted(Fresh("s_start_req")))
  <2>0. "s_start_req" \in States
    BY StatesAre DEF LineStates
  <2>1. Counted(Fresh("s_start_req")) \in Parsers
    BY <1>2, <2>0, FreshIs, CountedIs
  <2> QED
    BY <1>6, <2>1, FailsAs
<1> QED
  BY <1>4, <1>5, <1>6 DEF StartReq

\* The name of the method, byte by byte.
LEMMA ReqMethodStep == ASSUME ParserInv, ReqMethod PROVE ParserInv'
<1>1. In({"s_req_method"})
  BY DEF ReqMethod
<1>2. /\ status = "in" /\ p <= piece[2] /\ ~TooLong /\ parser.st = "s_req_method" /\ parser \in Parsers
  BY <1>1, Enter
<1>3. Within(parser.st) = {}
  BY <1>2, WithinIs DEF Marked, UrlPrefix, UrlRest, BodyStates
<1> DEFINE q == [parser EXCEPT !.index = @ + 1]
<1> DEFINE other == OtherMethod(parser.meth, parser.index, ch)
<1>4. q \in Parsers /\ q.st = "s_req_method"
  BY <1>2 DEF Parsers
<1>5. CASE Move([q EXCEPT !.st = "s_req_spaces_before_url"]) /\ Silent
  <2> DEFINE r == [q EXCEPT !.st = "s_req_spaces_before_url"]
  <2>0. "s_req_spaces_before_url" \in States
    BY StatesAre DEF LineStates
  <2>1. r \in Parsers /\ r.st = "s_req_spaces_before_url"
    BY <1>4, <2>0 DEF Parsers
  <2>2. Plain(r.st)
    BY <2>1 DEF Plain, ChunkStates
  <2> HIDE DEF r
  <2> QED
    BY <1>2, <1>3, <1>5, <2>1, <2>2, PlainMove DEF r
<1>6. CASE Move(q) /\ Silent
  <2>1. Plain(q.st)
    BY <1>4 DEF Plain, ChunkStates
  <2> HIDE DEF q
  <2> QED
    BY <1>2, <1>3, <1>4, <1>6, <2>1, PlainMove
<1>7. CASE other # "none" /\ Move([q EXCEPT !.meth = other]) /\ Silent
  <2> DEFINE r == [q EXCEPT !.meth = other]
  <2>1. other \in Methods
    BY <1>7 DEF OtherMethod, Methods
  <2> HIDE DEF other, q
  <2>2. r \in Parsers /\ r.st = "s_req_method"
    BY <1>4, <2>1 DEF Parsers
  <2>3. Plain(r.st)
    BY <2>2 DEF Plain, ChunkStates
  <2> HIDE DEF r
  <2> QED
    BY <1>2, <1>3, <1>7, <2>2, <2>3, PlainMove DEF r
<1>8. CASE Fail
  BY <1>2, <1>8, Fails
<1>9. (Move([q EXCEPT !.st = "s_req_spaces_before_url"]) /\ Silent) \/ (Move(q) /\ Silent)
      \/ (other # "none" /\ Move([q EXCEPT !.meth = other]) /\ Silent) \/ Fail
  <2> HIDE DEF Move, Silent, Fail
  <2> QED
    BY DEF ReqMethod
<1> QED
  BY <1>5, <1>6, <1>7, <1>8, <1>9

-----------------------------------------------------------------------------
(* The steps of the rest of the line *)

\* States in front of the header and most of those of the header are plain.
LEMMA LinePlain == \A st \in (LineStates \cup HeaderStates \cup UrlPrefix \cup UrlRest) \ {"s_header_value"} : Plain(st)
BY DEF Plain, LineStates, HeaderStates, UrlPrefix, UrlRest, ChunkStates

\* In front of the header only the reason phrase and the address are marked.
LEMMA LineUnmarked == \A st \in LineStates \ {"s_res_status"} : st \notin Marked /\ Within(st) = {}
<1>1. \A st \in LineStates \ {"s_res_status"} : st \notin Marked
  BY DEF LineStates, Marked, UrlPrefix, UrlRest, BodyStates
<1> QED
  BY <1>1, WithinIs

\* From state to state of the line.
LEMMA LineMove ==
    ASSUME ParserInv, status = "in", p <= piece[2], ~TooLong, parser.st \in LineStates \ {"s_res_status"},
           NEW q \in Parsers, q.st \in LineStates \cup {"s_header_field_start"}, Move(q), Silent
    PROVE  ParserInv'
<1>1. Plain(q.st)
  BY LinePlain DEF HeaderStates, LineStates
<1>2. Within(parser.st) = {}
  BY LineUnmarked
<1> QED
  BY <1>1, <1>2, PlainMove

\* A step within the first line changes the state only.
LEMMA LineTo ==
    ASSUME ParserInv, status = "in", p <= piece[2], ~TooLong, parser.st \in LineStates \ {"s_res_status"},
           NEW st, st \in LineStates \cup {"s_header_field_start"}, Move(To(st)), Silent
    PROVE  ParserInv'
<1>1. st \in States
  BY StatesAre DEF HeaderStates
<1>2. To(st) \in Parsers /\ To(st).st = st
  BY <1>1, ToIs DEF ParserInv
<1> QED
  BY <1>2, LineMove

\* The address starts after the spaces.
LEMMA SpacesBeforeUrlStep == ASSUME ParserInv, SpacesBeforeUrl PROVE ParserInv'
<1>1. In({"s_req_spaces_before_url"})
  BY DEF SpacesBeforeUrl
<1>2. /\ status = "in" /\ p <= piece[2] /\ ~TooLong /\ parser.st = "s_req_spaces_before_url"
      /\ parser \in Parsers
  BY <1>1, Enter
<1>3. parser.st \in LineStates \ {"s_res_status"}
  BY <1>2 DEF LineStates
<1> DEFINE from == IF parser.meth = "CONNECT" THEN "s_req_server_start" ELSE parser.st
<1> DEFINE st == UrlNext(from, ch)
<1>4. st \in UrlPrefix \cup UrlRest \cup {"s_dead"}
  <2>1. from \in UrlPrefix \cup UrlRest \cup {"s_req_spaces_before_url"}
    BY <1>2 DEF UrlPrefix
  <2> QED
    BY <2>1, NextUrl
<1>5. \/ Move(parser) /\ Silent
      \/ st # "s_dead" /\ Move(To(st)) /\ Start("url")
      \/ FailAs(Counted(To(st)))
  BY DEF SpacesBeforeUrl
<1> HIDE DEF st
<1>6. st \in States
  BY <1>4, StatesAre DEF LineStates
<1>7. To(st) \in Parsers /\ To(st).st = st
  BY <1>2, <1>6, ToIs
<1>8. CASE Move(parser) /\ Silent
  BY <1>2, <1>3, <1>8, LineMove
<1>9. CASE st # "s_dead" /\ Move(To(st)) /\ Start("url")
  <2>1. Within(st) = {"url"} /\ Plain(To(st).st)
    BY <1>4, <1>7, <1>9, WithinIs, LinePlain DEF UrlPrefix, UrlRest
  <2>2. Within(parser.st) = {}
    BY <1>3, LineUnmarked
  <2>3. "url" \in Within(To(st).st) /\ Within(parser.st) \subseteq {"url"}
    BY <1>7, <2>1, <2>2
  <2> QED
    BY <1>2, <1>7, <1>9, <2>1, <2>3, PlainStart
<1>10. CASE FailAs(Counted(To(st)))
  <2>1. Counted(To(st)) \in Parsers
    BY <1>2, <1>7, CountedIs
  <2> QED
    BY <1>10, <2>1, FailsAs
<1> QED
  BY <1>5, <1>8, <1>9, <1>10

\* The scheme and the host of an address.
LEMMA InUrlPrefixStep == ASSUME ParserInv, InUrlPrefix PROVE ParserInv'
<1>1. In(UrlPrefix)
  BY DEF InUrlPrefix
<1>2. /\ status = "in" /\ p <= piece[2] /\ ~TooLong /\ parser.st \in UrlPrefix /\ parser \in Parsers
  BY <1>1, Enter
<1> DEFINE st == UrlNext(parser.st, ch)
<1>4. st \in UrlPrefix \cup UrlRest \cup {"s_dead"}
  BY <1>2, NextUrl
<1>5. Fail \/ FailAs(Counted(To(st))) \/ (st # "s_dead" /\ Move(To(st)) /\ Silent)
  BY DEF InUrlPrefix
<1> HIDE DEF st
<1>6. st \in States
  BY <1>4, StatesAre DEF LineStates
<1>7. To(st) \in Parsers /\ To(st).st = st
  BY <1>2, <1>6, ToIs
<1>8. CASE Fail
  BY <1>2, <1>8, Fails
<1>9. CASE st # "s_dead" /\ Move(To(st)) /\ Silent
  <2>1. st \in UrlPrefix \cup UrlRest
    BY <1>4, <1>9
  <2>2. Within(st) = {"url"} /\ Within(parser.st) = {"url"}
    BY <1>2, <2>1, WithinIs
  <2>3. Plain(st)
    BY <2>1, LinePlain DEF UrlPrefix, UrlRest
  <2> QED
    BY <1>2, <1>7, <1>9, <2>2, <2>3, PlainMove
<1>10. CASE FailAs(Counted(To(st)))
  <2>1. Counted(To(st)) \in Parsers
    BY <1>2, <1>7, CountedIs
  <2> QED
    BY <1>10, <2>1, FailsAs
<1> QED
  BY <1>5, <1>8, <1>9, <1>10

\* The version of a request that does not say it.
LEMMA OldVersion ==
    ASSUME NEW r \in Parsers
    PROVE  /\ [r EXCEPT !.major = 0, !.minor = 9] \in Parsers
           /\ [r EXCEPT !.major = 0, !.minor = 9].st = r.st
<1>1. 0 \in Int /\ 9 \in Int
  OBVIOUS
<1> QED
  BY <1>1 DEF Parsers

\* The rest of an address.
LEMMA InUrlStep == ASSUME ParserInv, InUrl PROVE ParserInv'
<1>1. In(UrlRest)
  BY DEF InUrl
<1>2. /\ status = "in" /\ p <= piece[2] /\ ~TooLong /\ parser.st \in UrlRest /\ parser \in Parsers
  BY <1>1, Enter
<1>3. Within(parser.st) = {"url"}
  BY <1>2, WithinIs
<1> DEFINE st == UrlNext(parser.st, ch)
<1>4. st \in UrlPrefix \cup UrlRest \cup {"s_dead"}
  BY <1>2, NextUrl
<1> DEFINE after == IF ch = CR THEN "s_req_line_almost_done" ELSE "s_header_field_start"
<1>5. \/ Move(To("s_req_http_start")) /\ CallData(marks, "url", p)
      \/ Move([To(after) EXCEPT !.major = 0, !.minor = 9]) /\ CallData(marks, "url", p)
      \/ st # "s_dead" /\ Move(To(st)) /\ Silent
      \/ FailAs(Counted(To(st)))
  BY DEF InUrl
<1> HIDE DEF st
<1>6. st \in States /\ "s_req_http_start" \in States
  BY <1>4, StatesAre DEF LineStates
<1>7. To(st) \in Parsers /\ To(st).st = st
  BY <1>2, <1>6, ToIs
<1>8. CASE Move(To("s_req_http_start")) /\ CallData(marks, "url", p)
  <2>1. To("s_req_http_start") \in Parsers /\ To("s_req_http_start").st = "s_req_http_start"
    BY <1>2, <1>6, ToIs
  <2>2. Plain("s_req_http_start")
    BY LinePlain DEF LineStates
  <2> QED
    BY <1>2, <1>3, <1>8, <2>1, <2>2, PlainCall
<1>9. CASE Move([To(after) EXCEPT !.major = 0, !.minor = 9]) /\ CallData(marks, "url", p)
  <2> DEFINE q == [To(after) EXCEPT !.major = 0, !.minor = 9]
  <2>1. after \in States /\ Plain(after)
    BY StatesAre, LinePlain DEF LineStates, HeaderStates
  <2> HIDE DEF after
  <2>2. To(after) \in Parsers /\ To(after).st = after
    BY <1>2, <2>1, ToIs
  <2>3. q \in Parsers /\ q.st = after
    BY <2>2, OldVersion
  <2> HIDE DEF q
  <2> QED
    BY <1>2, <1>3, <1>9, <2>1, <2>3, PlainCall DEF q
<1>10. CASE st # "s_dead" /\ Move(To(st)) /\ Silent
  <2>1. st \in UrlPrefix \cup UrlRest
    BY <1>4, <1>10
  <2>2. Within(st) = {"url"}
    BY <2>1, WithinIs
  <2>3. Plain(st)
    BY <2>1, LinePlain DEF UrlPrefix, UrlRest
  <2> QED
    BY <1>2, <1>3, <1>7, <1>10, <2>2, <2>3, PlainMove
<1>11. CASE FailAs(Counted(To(st)))
  <2>1. Counted(To(st)) \in Parsers
    BY <1>2, <1>7, CountedIs
  <2> QED
    BY <1>11, <2>1, FailsAs
<1> QED
  BY <1>5, <1>8, <1>9, <1>10, <1>11

\* The bytes of HTTP/ one after the other.
LEMMA InLiteralStep == ASSUME ParserInv, InLiteral PROVE ParserInv'
<1>1. In(DOMAIN Literal)
  BY DEF InLiteral
<1>2. /\ status = "in" /\ p <= piece[2] /\ ~TooLong /\ parser.st \in DOMAIN Literal /\ parser \in Parsers
  BY <1>1, Enter
<1>3. parser.st \in LineStates \ {"s_res_status"} /\ Literal[parser.st][2] \in LineStates
  BY <1>2 DEF Literal, LineStates
<1>4. (Move(parser) /\ Silent) \/ (Move(To(Literal[parser.st][2])) /\ Silent) \/ Fail
  BY DEF InLiteral
<1>5. CASE Move(parser) /\ Silent
  BY <1>2, <1>3, <1>5, LineMove
<1>6. CASE Move(To(Literal[parser.st][2])) /\ Silent
  BY <1>2, <1>3, <1>6, LineTo
<1>7. CASE Fail
  BY <1>2, <1>7, Fails
<1> QED
  BY <1>4, <1>5, <1>6, <1>7

\* A number after one more digit.
LEMMA MoreIs == \A n \in Int : \A c : More(n, c) \in Int
BY Digit DEF More

\* The fields that hold what the line says.
LEMMA NumberIs ==
    ASSUME NEW r \in Parsers, NEW n \in Int
    PROVE  /\ [r EXCEPT !.major = n] \in Parsers /\ [r EXCEPT !.major = n].st = r.st
           /\ [r EXCEPT !.minor = n] \in Parsers /\ [r EXCEPT !.minor = n].st = r.st
           /\ [r EXCEPT !.code = n] \in Parsers /\ [r EXCEPT !.code = n].st = r.st
BY DEF Parsers

\* The digits of the version.
LEMMA VersionStep == ASSUME ParserInv, Version PROVE ParserInv'
<1> DEFINE S == {"s_req_first_http_major", "s_res_first_http_major", "s_req_http_major", "s_res_http_major",
                 "s_req_first_http_minor", "s_res_first_http_minor", "s_req_http_minor", "s_res_http_minor"}
<1>1. In(S)
  BY DEF Version, In
<1>2. /\ status = "in" /\ p <= piece[2] /\ ~TooLong /\ parser.st \in S /\ parser \in Parsers
  BY <1>1, Enter
<1>3. parser.st \in LineStates \ {"s_res_status"}
  BY <1>2 DEF LineStates
<1>4. parser.major \in Int /\ parser.minor \in Int
  BY <1>2 DEF Parsers
<1>5. ASSUME NEW st, st \in LineStates \cup {"s_header_field_start"}, Move(To(st)), Silent PROVE ParserInv'
  BY <1>2, <1>3, <1>5, LineTo
<1>6. CASE Fail
  BY <1>2, <1>6, Fails
<1>7. ASSUME NEW st \in LineStates, NEW n \in Int, Silent,
             Move([To(st) EXCEPT !.major = n]) \/ Move([To(st) EXCEPT !.minor = n])
      PROVE  ParserInv'
  <2>1. st \in States
    BY StatesAre
  <2>2. To(st) \in Parsers /\ To(st).st = st
    BY <1>2, <2>1, ToIs
  <2>3. CASE Move([To(st) EXCEPT !.major = n])
    <3>1. [To(st) EXCEPT !.major = n] \in Parsers /\ [To(st) EXCEPT !.major = n].st = st
      BY <2>2, NumberIs
    <3> QED
      BY <1>2, <1>3, <1>7, <2>3, <3>1, LineMove
  <2>4. CASE Move([To(st) EXCEPT !.minor = n])
    <3>1. [To(st) EXCEPT !.minor = n] \in Parsers /\ [To(st) EXCEPT !.minor = n].st = st
      BY <2>2, NumberIs
    <3> QED
      BY <1>2, <1>3, <1>7, <2>4, <3>1, LineMove
  <2> QED
    BY <1>7, <2>3, <2>4
<1>8. ASSUME NEW n \in Int, Silent,
             Move([parser EXCEPT !.major = n]) \/ Move([parser EXCEPT !.minor = n])
      PROVE  ParserInv'
  <2>3. CASE Move([parser EXCEPT !.major = n])
    <3>1. [parser EXCEPT !.major = n] \in Parsers /\ [parser EXCEPT !.major = n].st = parser.st
      BY <1>2, NumberIs
    <3> QED
      BY <1>2, <1>3, <1>8, <2>3, <3>1, LineMove
  <2>4. CASE Move([parser EXCEPT !.minor = n])
    <3>1. [parser EXCEPT !.minor = n] \in Parsers /\ [parser EXCEPT !.minor = n].st = parser.st
      BY <1>2, NumberIs
    <3> QED
      BY <1>2, <1>3, <1>8, <2>4, <3>1, LineMove
  <2> QED
    BY <1>8, <2>3, <2>4
<1>9. CASE In({"s_req_first_http_major", "s_res_first_http_major"})
  <2> DEFINE to == IF parser.st = "s_req_first_http_major" THEN "s_req_http_major" ELSE "s_res_http_major"
  <2>1. parser.st \in {"s_req_first_http_major", "s_res_first_http_major"}
    BY <1>9 DEF In
  <2>2. (ch \in Num /\ Move([To(to) EXCEPT !.major = Value(ch)]) /\ Silent) \/ Fail
    BY <2>1 DEF Version, In
  <2>3. to \in LineStates
    BY DEF LineStates
  <2> HIDE DEF to
  <2>4. CASE ch \in Num /\ Move([To(to) EXCEPT !.major = Value(ch)]) /\ Silent
    <3>1. Value(ch) \in Int
      BY <2>4, Digit
    <3> QED
      BY <1>7, <2>3, <2>4, <3>1
  <2> QED
    BY <1>6, <2>2, <2>4
<1>10. CASE In({"s_req_http_major", "s_res_http_major"})
  <2> DEFINE to == IF parser.st = "s_req_http_major" THEN "s_req_first_http_minor" ELSE "s_res_first_http_minor"
  <2>1. parser.st \in {"s_req_http_major", "s_res_http_major"}
    BY <1>10 DEF In
  <2>2. \/ Move(To(to)) /\ Silent
        \/ Move([parser EXCEPT !.major = More(parser.major, ch)]) /\ Silent
        \/ Fail
    BY <2>1 DEF Version, In
  <2>3. to \in LineStates
    BY DEF LineStates
  <2>4. More(parser.major, ch) \in Int
    BY <1>4, MoreIs
  <2> HIDE DEF to
  <2> QED
    BY <1>5, <1>6, <1>8, <2>2, <2>3, <2>4
<1>11. CASE In({"s_req_first_http_minor", "s_res_first_http_minor"})
  <2> DEFINE to == IF parser.st = "s_req_first_http_minor" THEN "s_req_http_minor" ELSE "s_res_http_minor"
  <2>1. parser.st \in {"s_req_first_http_minor", "s_res_first_http_minor"}
    BY <1>11 DEF In
  <2>2. (ch \in Num /\ Move([To(to) EXCEPT !.minor = Value(ch)]) /\ Silent) \/ Fail
    BY <2>1 DEF Version, In
  <2>3. to \in LineStates
    BY DEF LineStates
  <2> HIDE DEF to
  <2>4. CASE ch \in Num /\ Move([To(to) EXCEPT !.minor = Value(ch)]) /\ Silent
    <3>1. Value(ch) \in Int
      BY <2>4, Digit
    <3> QED
      BY <1>7, <2>3, <2>4, <3>1
  <2> QED
    BY <1>6, <2>2, <2>4
<1>12. CASE In({"s_req_http_minor", "s_res_http_minor"})
  <2>1. parser.st \in {"s_req_http_minor", "s_res_http_minor"}
    BY <1>12 DEF In
  <2>2. \/ Move(To("s_req_line_almost_done")) /\ Silent
        \/ Move(To("s_header_field_start")) /\ Silent
        \/ Move(To("s_res_first_status_code")) /\ Silent
        \/ Move([parser EXCEPT !.minor = More(parser.minor, ch)]) /\ Silent
        \/ Fail
    BY <2>1 DEF Version, In
  <2>3. "s_req_line_almost_done" \in LineStates /\ "s_res_first_status_code" \in LineStates
    BY DEF LineStates
  <2>4. More(parser.minor, ch) \in Int
    BY <1>4, MoreIs
  <2> QED
    BY <1>5, <1>6, <1>8, <2>2, <2>3, <2>4
<1>13. \/ In({"s_req_first_http_major", "s_res_first_http_major"})
       \/ In({"s_req_http_major", "s_res_http_major"})
       \/ In({"s_req_first_http_minor", "s_res_first_http_minor"})
       \/ In({"s_req_http_minor", "s_res_http_minor"})
  BY DEF Version
<1> QED
  BY <1>9, <1>10, <1>11, <1>12, <1>13

\* The digits of the status.
LEMMA StatusCodeStep == ASSUME ParserInv, StatusCode PROVE ParserInv'
<1>1. In({"s_res_first_status_code", "s_res_status_code"})
  BY DEF StatusCode, In
<1>2. /\ status = "in" /\ p <= piece[2] /\ ~TooLong /\ parser \in Parsers
      /\ parser.st \in {"s_res_first_status_code", "s_res_status_code"}
  BY <1>1, Enter
<1>3. parser.st \in LineStates \ {"s_res_status"}
  BY <1>2 DEF LineStates
<1>4. CASE ch \in Num /\ Move([To("s_res_status_code") EXCEPT !.code = Value(ch)]) /\ Silent
  <2>1. "s_res_status_code" \in LineStates /\ Value(ch) \in Int
    BY <1>4, Digit DEF LineStates
  <2>2. To("s_res_status_code") \in Parsers /\ To("s_res_status_code").st = "s_res_status_code"
    BY <1>2, <2>1, ToIs, StatesAre
  <2> DEFINE q == [To("s_res_status_code") EXCEPT !.code = Value(ch)]
  <2>3. q \in Parsers /\ q.st = "s_res_status_code"
    BY <2>1, <2>2, NumberIs
  <2> HIDE DEF q
  <2> QED
    BY <1>2, <1>3, <1>4, <2>1, <2>3, LineMove DEF q
<1>5. CASE Move(parser) /\ Silent
  BY <1>2, <1>3, <1>5, LineMove
<1>6. CASE Fail
  BY <1>2, <1>6, Fails
<1>7. ASSUME NEW st \in {"s_res_status_start", "s_res_line_almost_done", "s_header_field_start"},
             Move(To(st)), Silent
      PROVE  ParserInv'
  <2>1. st \in LineStates \cup {"s_header_field_start"}
    BY DEF LineStates
  <2> QED
    BY <1>2, <1>3, <1>7, <2>1, LineTo
<1>8. CASE Move([parser EXCEPT !.code = More(parser.code, ch)]) /\ Silent
  <2>1. More(parser.code, ch) \in Int
    BY <1>2, MoreIs DEF Parsers
  <2> DEFINE q == [parser EXCEPT !.code = More(parser.code, ch)]
  <2>2. q \in Parsers /\ q.st = parser.st
    BY <1>2, <2>1, NumberIs
  <2> HIDE DEF q
  <2> QED
    BY <1>2, <1>3, <1>8, <2>2, LineMove DEF q
<1>9. \/ ch \in Num /\ Move([To("s_res_status_code") EXCEPT !.code = Value(ch)]) /\ Silent
      \/ Move(parser) /\ Silent
      \/ \E st \in {"s_res_status_start", "s_res_line_almost_done", "s_header_field_start"} :
            Move(To(st)) /\ Silent
      \/ Move([parser EXCEPT !.code = More(parser.code, ch)]) /\ Silent
      \/ Fail
  BY DEF StatusCode
<1> QED
  BY <1>4, <1>5, <1>6, <1>7, <1>8, <1>9

\* The text of the status is one datum.
LEMMA StatusTextStep == ASSUME ParserInv, StatusText PROVE ParserInv'
<1>1. CASE In({"s_res_status_start"}) /\ ~In({"s_res_status"})
  <2>1. /\ status = "in" /\ p <= piece[2] /\ ~TooLong /\ parser \in Parsers
        /\ parser.st = "s_res_status_start"
    BY <1>1, Enter
  <2>2. parser.st \in LineStates \ {"s_res_status"}
    BY <2>1 DEF LineStates
  <2>3. ASSUME NEW st \in {"s_res_line_almost_done", "s_header_field_start"}, Move(To(st)), Silent
        PROVE  ParserInv'
    <3>1. st \in LineStates \cup {"s_header_field_start"}
      BY DEF LineStates
    <3> QED
      BY <2>1, <2>2, <2>3, <3>1, LineTo
  <2>4. CASE Move([To("s_res_status") EXCEPT !.index = 0]) /\ Start("status")
    <3> DEFINE q == [To("s_res_status") EXCEPT !.index = 0]
    <3>1. "s_res_status" \in LineStates
      BY DEF LineStates
    <3>2. To("s_res_status") \in Parsers /\ To("s_res_status").st = "s_res_status"
      BY <2>1, <3>1, ToIs, StatesAre
    <3>3. q \in Parsers /\ q.st = "s_res_status"
      BY <3>2 DEF Parsers
    <3>4. Plain(q.st) /\ "status" \in Within(q.st)
      BY <3>1, <3>3, LinePlain, WithinIs
    <3>5. Within(parser.st) \subseteq {"status"}
      BY <2>2, LineUnmarked
    <3> HIDE DEF q
    <3> QED
      BY <2>1, <2>4, <3>3, <3>4, <3>5, PlainStart DEF q
  <2> QED
    BY <1>1, <2>3, <2>4 DEF StatusText
<1>2. CASE In({"s_res_status"}) /\ ~In({"s_res_status_start"})
  <2>1. /\ status = "in" /\ p <= piece[2] /\ ~TooLong /\ parser \in Parsers
        /\ parser.st = "s_res_status"
    BY <1>2, Enter
  <2>2. ASSUME NEW st \in {"s_res_line_almost_done", "s_header_field_start"}, Move(To(st)),
               CallData(marks, "status", p)
        PROVE  ParserInv'
    <3>1. st \in States /\ Plain(st)
      BY LinePlain, StatesAre DEF LineStates, HeaderStates
    <3>2. To(st) \in Parsers /\ To(st).st = st
      BY <2>1, <3>1, ToIs
    <3>3. Within(parser.st) \subseteq {"status"}
      BY <2>1, WithinIs
    <3> QED
      BY <2>1, <2>2, <3>1, <3>2, <3>3, PlainCall
  <2>3. CASE Move(parser) /\ Silent
    <3>1. Plain(parser.st)
      BY <2>1, LinePlain DEF LineStates
    <3> QED
      BY <2>1, <2>3, <3>1, PlainMove
  <2> QED
    BY <1>2, <2>2, <2>3 DEF StatusText
<1>3. (In({"s_res_status_start"}) /\ ~In({"s_res_status"})) \/ (In({"s_res_status"}) /\ ~In({"s_res_status_start"}))
  BY DEF StatusText, In
<1> QED
  BY <1>1, <1>2, <1>3

\* A line feed after a carriage return.
LEMMA InLineFeedStep == ASSUME ParserInv, InLineFeed PROVE ParserInv'
<1>1. In(DOMAIN LineFeed)
  BY DEF InLineFeed
<1>2. /\ status = "in" /\ p <= piece[2] /\ ~TooLong /\ parser.st \in DOMAIN LineFeed /\ parser \in Parsers
  BY <1>1, Enter
<1> DEFINE st == LineFeed[parser.st]
<1>3. /\ st \in {"s_header_field_start", "s_header_value_lws", "s_header_value_discard_lws"}
      /\ parser.st \in {"s_res_line_almost_done", "s_req_line_almost_done", "s_header_almost_done",
                        "s_header_value_discard_ws_almost_done"}
  BY <1>2 DEF LineFeed
<1>4. (Move(To(st)) /\ Silent) \/ Fail
  BY DEF InLineFeed
<1> HIDE DEF st
<1>5. CASE Move(To(st)) /\ Silent
  <2>1. st \in States /\ Plain(st)
    BY <1>3, LinePlain, StatesAre DEF HeaderStates
  <2>2. parser.st \notin Marked
    BY <1>3 DEF Marked, UrlPrefix, UrlRest, BodyStates
  <2>3. Within(parser.st) = {}
    BY <2>2, WithinIs
  <2> QED
    BY <1>2, <1>5, <2>1, <2>3, PlainTo
<1>6. CASE Fail
  BY <1>2, <1>6, Fails
<1> QED
  BY <1>4, <1>5, <1>6

-----------------------------------------------------------------------------
(* The steps of the header *)

\* What the next byte of a keyword leaves: the name, another name, or no name.
LEMMA MatchIs ==
    ASSUME NEW q \in Parsers, q.hst \in DOMAIN Keyword, NEW c
    PROVE  /\ Match(q, c) \in Parsers /\ Match(q, c).st = q.st /\ Match(q, c).flags = q.flags
           /\ Match(q, c).len = q.len /\ Match(q, c).nread = q.nread
           /\ q.hst \in ValueStates => Match(q, c).hst \in ValueStates
<1> DEFINE h == IF q.index + 1 >= Len(Keyword[q.hst]) \/ c # Keyword[q.hst][q.index + 1 + 1] THEN "h_general"
                ELSE IF q.index + 1 = Len(Keyword[q.hst]) - 1 THEN Matched[q.hst] ELSE q.hst
<1>1. Match(q, c) = [q EXCEPT !.index = q.index + 1, !.hst = h]
  BY DEF Match
<1>2. h \in {"h_general", Matched[q.hst], q.hst}
  OBVIOUS
<1> HIDE DEF h
<1>3. /\ Matched[q.hst] \in HeaderNames
      /\ q.hst \in ValueStates => Matched[q.hst] \in ValueStates
  BY DEF Matched, Keyword, HeaderNames, ValueStates, FieldStates
<1>4. h \in HeaderNames /\ (q.hst \in ValueStates => h \in ValueStates)
  <2>1. q.hst \in HeaderNames
    BY DEF Parsers
  <2>2. "h_general" \in ValueStates
    BY DEF ValueStates
  <2> QED
    BY <1>2, <1>3, <2>1, <2>2 DEF HeaderNames
<1>5. q.index + 1 \in Nat
  BY DEF Parsers
<1> QED
  BY <1>1, <1>4, <1>5 DEF Parsers

\* A byte of a name changes what the name is matched against.
LEMMA FieldByteIs ==
    ASSUME NEW q \in Parsers, NEW c
    PROVE  FieldByte(q, c) \in Parsers /\ FieldByte(q, c).st = q.st
<1>1. q.index + 1 \in Nat
  BY DEF Parsers
<1>2. \/ \E h \in {"h_CO", "h_CON", "h_general", "h_matching_connection", "h_matching_content_length"} :
            FieldByte(q, c) = [q EXCEPT !.index = q.index + 1, !.hst = h]
      \/ q.hst \in DOMAIN Keyword /\ FieldByte(q, c) = Match(q, c)
      \/ FieldByte(q, c) = [q EXCEPT !.hst = "h_general"]
  <2>1. CASE q.hst = "h_C"
    <3>1. FieldByte(q, c) = [q EXCEPT !.index = q.index + 1, !.hst = IF c = "o" THEN "h_CO" ELSE "h_general"]
      BY <2>1 DEF FieldByte, Keyword
    <3> QED
      BY <3>1
  <2>2. CASE q.hst = "h_CO"
    <3>1. FieldByte(q, c) = [q EXCEPT !.index = q.index + 1, !.hst = IF c = "n" THEN "h_CON" ELSE "h_general"]
      BY <2>2 DEF FieldByte, Keyword
    <3> QED
      BY <3>1
  <2>3. CASE q.hst = "h_CON"
    <3> DEFINE h == CASE c = "n" -> "h_matching_connection"
                      [] c = "t" -> "h_matching_content_length"
                      [] OTHER   -> "h_general"
    <3>1. FieldByte(q, c) = [q EXCEPT !.index = q.index + 1, !.hst = h]
      BY <2>3 DEF FieldByte, Keyword
    <3>2. h \in {"h_CO", "h_CON", "h_general", "h_matching_connection", "h_matching_content_length"}
      OBVIOUS
    <3> HIDE DEF h
    <3> QED
      BY <3>1, <3>2
  <2>4. CASE q.hst \notin {"h_C", "h_CO", "h_CON"}
    BY <2>4 DEF FieldByte
  <2> QED
    BY <2>1, <2>2, <2>3, <2>4
<1>3. ASSUME NEW h \in {"h_CO", "h_CON", "h_general", "h_matching_connection", "h_matching_content_length"},
             FieldByte(q, c) = [q EXCEPT !.index = q.index + 1, !.hst = h]
      PROVE  FieldByte(q, c) \in Parsers /\ FieldByte(q, c).st = q.st
  <2>1. h \in HeaderNames
    BY DEF HeaderNames, ValueStates, FieldStates
  <2> QED
    BY <1>1, <1>3, <2>1 DEF Parsers
<1>4. CASE q.hst \in DOMAIN Keyword /\ FieldByte(q, c) = Match(q, c)
  BY <1>4, MatchIs
<1>5. CASE FieldByte(q, c) = [q EXCEPT !.hst = "h_general"]
  <2>1. "h_general" \in HeaderNames
    BY DEF HeaderNames, ValueStates
  <2> QED
    BY <1>5, <2>1 DEF Parsers
<1> QED
  BY <1>2, <1>3, <1>4, <1>5

\* The states of the header without a mark.
LEMMA HeaderUnmarked ==
    \A st \in HeaderStates \ {"s_header_field", "s_header_value"} : st \notin Marked /\ Within(st) = {}
<1>1. \A st \in HeaderStates \ {"s_header_field", "s_header_value"} : st \notin Marked
  BY DEF HeaderStates, Marked, UrlPrefix, UrlRest, BodyStates
<1> QED
  BY <1>1, WithinIs

\* A header starts, or the header part ends.
LEMMA HeaderFieldStartStep == ASSUME ParserInv, HeaderFieldStart PROVE ParserInv'
<1>1. In({"s_header_field_start"})
  BY DEF HeaderFieldStart
<1>2. /\ status = "in" /\ p <= piece[2] /\ ~TooLong /\ parser.st = "s_header_field_start" /\ parser \in Parsers
  BY <1>1, Enter
<1>3. Within(parser.st) = {}
  BY <1>2, HeaderUnmarked DEF HeaderStates
<1>4. "s_headers_almost_done" \in States /\ Plain("s_headers_almost_done")
  BY LinePlain, StatesAre DEF HeaderStates
<1>5. CASE Move(To("s_headers_almost_done")) /\ Silent
  BY <1>2, <1>3, <1>4, <1>5, PlainTo
<1>6. CASE Again(To("s_headers_almost_done")) /\ Silent
  <2>1. To("s_headers_almost_done") \in Parsers /\ To("s_headers_almost_done").st = "s_headers_almost_done"
    BY <1>2, <1>4, ToIs
  <2>2. MarksOf(marks', "s_headers_almost_done")
    BY <1>2, <1>3, <1>6, SilentMarks
  <2> QED
    BY <1>2, <1>4, <1>6, <2>1, <2>2, PlainAgain
<1> DEFINE h == CASE c0 = "c" -> "h_C"
                  [] c0 = "p" -> "h_matching_proxy_connection"
                  [] c0 = "t" -> "h_matching_transfer_encoding"
                  [] c0 = "u" -> "h_matching_upgrade"
                  [] OTHER    -> "h_general"
<1>7. CASE Move([To("s_header_field") EXCEPT !.index = 0, !.hst = h]) /\ Start("header_field")
  <2> DEFINE q == [To("s_header_field") EXCEPT !.index = 0, !.hst = h]
  <2>1. h \in HeaderNames
    BY DEF HeaderNames, ValueStates, FieldStates
  <2> HIDE DEF h
  <2>2. "s_header_field" \in States /\ Plain("s_header_field")
    BY LinePlain, StatesAre DEF HeaderStates
  <2>3. To("s_header_field") \in Parsers /\ To("s_header_field").st = "s_header_field"
    BY <1>2, <2>2, ToIs
  <2>4. q \in Parsers /\ q.st = "s_header_field"
    BY <2>1, <2>3 DEF Parsers
  <2>5. "header_field" \in Within(q.st) /\ Plain(q.st)
    BY <2>2, <2>4, WithinIs
  <2> HIDE DEF q
  <2> QED
    BY <1>2, <1>3, <1>7, <2>4, <2>5, PlainStart DEF q
<1>8. CASE Fail
  BY <1>2, <1>8, Fails
<1>9. \/ Move(To("s_headers_almost_done")) /\ Silent
      \/ Again(To("s_headers_almost_done")) /\ Silent
      \/ Move([To("s_header_field") EXCEPT !.index = 0, !.hst = h]) /\ Start("header_field")
      \/ Fail
  BY DEF HeaderFieldStart
<1> QED
  BY <1>5, <1>6, <1>7, <1>8, <1>9

\* The name of a header is matched against those the parser knows.
LEMMA HeaderFieldStep == ASSUME ParserInv, HeaderField PROVE ParserInv'
<1>1. In({"s_header_field"})
  BY DEF HeaderField
<1>2. /\ status = "in" /\ p <= piece[2] /\ ~TooLong /\ parser.st = "s_header_field" /\ parser \in Parsers
  BY <1>1, Enter
<1>3. Within(parser.st) = {"header_field"}
  BY <1>2, WithinIs
<1>4. CASE Move(FieldByte(parser, c0)) /\ Silent
  <2>1. FieldByte(parser, c0) \in Parsers /\ FieldByte(parser, c0).st = "s_header_field"
    BY <1>2, FieldByteIs
  <2>2. Plain("s_header_field")
    BY LinePlain DEF HeaderStates
  <2> QED
    BY <1>2, <1>4, <2>1, <2>2, PlainMove
<1>5. ASSUME NEW st \in {"s_header_value_discard_ws", "s_header_almost_done", "s_header_field_start"},
             Move(To(st)), CallData(marks, "header_field", p)
      PROVE  ParserInv'
  <2>1. st \in States /\ Plain(st)
    BY LinePlain, StatesAre DEF HeaderStates
  <2>2. To(st) \in Parsers /\ To(st).st = st
    BY <1>2, <2>1, ToIs
  <2> QED
    BY <1>2, <1>3, <1>5, <2>1, <2>2, PlainCall
<1>6. CASE Fail
  BY <1>2, <1>6, Fails
<1> QED
  BY <1>4, <1>5, <1>6 DEF HeaderField

\* A digit is in no other case.
LEMMA DigitCase == ch \in Num => c0 = ch
<1>1. "C" \notin Num
  BY DEF Num, Digits
<1> QED
  BY <1>1 DEF c0

\* A value starts in a state it can be matched in, with a length that a digit gives.
LEMMA FirstOfValueIs ==
    ASSUME NEW q \in Parsers, NEW c
    PROVE  /\ FirstOfValue(q, c) \in Parsers /\ FirstOfValue(q, c).hst \in ValueStates
           /\ FirstOfValue(q, c).nread = q.nread
<1>1. CASE q.hst = "h_upgrade"
  <2>1. FirstOfValue(q, c) = [q EXCEPT !.flags = q.flags \cup {"F_UPGRADE"}, !.hst = "h_general"]
    BY <1>1 DEF FirstOfValue
  <2>2. q.flags \cup {"F_UPGRADE"} \in SUBSET FlagNames /\ "h_general" \in ValueStates \cap HeaderNames
    BY DEF Parsers, FlagNames, HeaderNames, ValueStates
  <2> QED
    BY <2>1, <2>2 DEF Parsers
<1>2. CASE q.hst = "h_content_length"
  <2>1. FirstOfValue(q, c) = IF c \in Num THEN [q EXCEPT !.len = Value(c)] ELSE q
    BY <1>2 DEF FirstOfValue
  <2>2. q.hst \in ValueStates
    BY <1>2 DEF ValueStates
  <2>3. CASE c \in Num
    <3>1. Value(c) \in 0..UllMax
      BY <2>3, Digit, ParserAssumption
    <3> QED
      BY <2>1, <2>2, <2>3, <3>1 DEF Parsers
  <2> QED
    BY <2>1, <2>2, <2>3
<1>3. ASSUME NEW h \in {"h_matching_transfer_encoding_chunked", "h_general", "h_matching_connection_keep_alive",
                        "h_matching_connection_close"},
             FirstOfValue(q, c) = [q EXCEPT !.hst = h]
      PROVE  /\ FirstOfValue(q, c) \in Parsers /\ FirstOfValue(q, c).hst \in ValueStates
             /\ FirstOfValue(q, c).nread = q.nread
  <2>1. h \in ValueStates /\ h \in HeaderNames
    BY DEF ValueStates, HeaderNames
  <2> QED
    BY <1>3, <2>1 DEF Parsers
<1>4. CASE q.hst = "h_transfer_encoding"
  <2>1. FirstOfValue(q, c) = [q EXCEPT !.hst = IF c = "c" THEN "h_matching_transfer_encoding_chunked" ELSE "h_general"]
    BY <1>4 DEF FirstOfValue
  <2> QED
    BY <1>3, <2>1
<1>5. CASE q.hst = "h_connection"
  <2> DEFINE h == CASE c = "k" -> "h_matching_connection_keep_alive"
                    [] c = "c" -> "h_matching_connection_close"
                    [] OTHER   -> "h_general"
  <2>1. FirstOfValue(q, c) = [q EXCEPT !.hst = h]
    BY <1>5 DEF FirstOfValue
  <2>2. h \in {"h_matching_transfer_encoding_chunked", "h_general", "h_matching_connection_keep_alive",
               "h_matching_connection_close"}
    OBVIOUS
  <2> HIDE DEF h
  <2> QED
    BY <1>3, <2>1, <2>2
<1>6. CASE q.hst \notin {"h_upgrade", "h_content_length", "h_transfer_encoding", "h_connection"}
  <2>1. FirstOfValue(q, c) = [q EXCEPT !.hst = "h_general"]
    BY <1>6 DEF FirstOfValue
  <2> QED
    BY <1>3, <2>1
<1> QED
  BY <1>1, <1>2, <1>4, <1>5, <1>6

\* A value goes on in a state it can be matched in, with a length that is not the mark for none.
LEMMA ValueByteIs ==
    ASSUME NEW q \in Parsers, NEW c, q.hst \in ValueStates,
           q.hst = "h_content_length" => c = SP \/ (c \in Num /\ LengthFits(q.len))
    PROVE  /\ ValueByte(q, c) \in Parsers /\ ValueByte(q, c).hst \in ValueStates
           /\ ValueByte(q, c).nread = q.nread /\ ValueByte(q, c).st = q.st
<1>1. CASE q.hst = "h_content_length" /\ c = SP
  <2>1. ValueByte(q, c) = q
    BY <1>1 DEF ValueByte, Keyword
  <2> QED
    BY <2>1
<1>2. CASE q.hst = "h_content_length" /\ c # SP
  <2>1. ValueByte(q, c) = [q EXCEPT !.len = q.len * 10 + Value(c)]
    BY <1>2 DEF ValueByte, Keyword
  <2>2. Value(c) \in 0..9 /\ LengthFits(q.len) /\ q.len \in Nat
    BY <1>2, Digit DEF Parsers
  <2>3. q.len * 10 + Value(c) \in 0..UllMax
    <3>1. PICK n, d, m : n = q.len /\ d = Value(c) /\ m = UllMax - 10 /\ n \in Nat /\ d \in 0..9 /\ m \in Nat
      BY <2>2, ParserAssumption
    <3>2. n <= m \div 10 /\ m \div 10 \in Nat
      BY <2>2, <3>1 DEF LengthFits
    <3>3. n * 10 <= m
      BY <3>1, <3>2
    <3>4. n * 10 + d \in 0..(m + 10)
      BY <3>1, <3>3
    <3> QED
      BY <3>1, <3>4, ParserAssumption
  <2> QED
    BY <2>1, <2>3 DEF Parsers
<1>3. CASE q.hst \in DOMAIN Keyword
  <2>1. ValueByte(q, c) = Match(q, c)
    BY <1>3 DEF ValueByte, Keyword
  <2> QED
    BY <1>3, <2>1, MatchIs
<1>4. CASE q.hst # "h_content_length" /\ q.hst \notin DOMAIN Keyword
  <2>1. ValueByte(q, c) = q \/ ValueByte(q, c) = [q EXCEPT !.hst = "h_general"]
    BY <1>4 DEF ValueByte
  <2>2. "h_general" \in ValueStates /\ "h_general" \in HeaderNames
    BY DEF ValueStates, HeaderNames
  <2> QED
    BY <2>1, <2>2 DEF Parsers
<1> QED
  BY <1>1, <1>2, <1>3, <1>4

\* The value of a header starts.
LEMMA HeaderValueStartStep == ASSUME ParserInv, HeaderValueStart PROVE ParserInv'
<1>1. In({"s_header_value_discard_ws", "s_header_value_start"})
  BY DEF HeaderValueStart, In
<1>2. /\ status = "in" /\ p <= piece[2] /\ ~TooLong /\ parser \in Parsers
      /\ parser.st \in {"s_header_value_discard_ws", "s_header_value_start"}
  BY <1>1, Enter
<1>3. Within(parser.st) = {} /\ Plain(parser.st)
  BY <1>2, HeaderUnmarked, LinePlain DEF HeaderStates
<1>4. CASE Move(parser) /\ Silent
  BY <1>2, <1>3, <1>4, PlainMove
<1>5. ASSUME NEW st \in {"s_header_value_discard_ws_almost_done", "s_header_value_discard_lws"}, Move(To(st)), Silent
      PROVE  ParserInv'
  <2>1. st \in States /\ Plain(st)
    BY LinePlain, StatesAre DEF HeaderStates
  <2> QED
    BY <1>2, <1>3, <1>5, <2>1, PlainTo
<1> DEFINE f == FirstOfValue(parser, c0)
<1> DEFINE q == [f EXCEPT !.st = "s_header_value", !.index = 0]
<1>6. \/ Move(parser) /\ Silent
      \/ \E st \in {"s_header_value_discard_ws_almost_done", "s_header_value_discard_lws"} : Move(To(st)) /\ Silent
      \/ FailAs(Counted(q))
      \/ Move(q) /\ Start("header_value")
  BY DEF HeaderValueStart
<1>7. f \in Parsers /\ f.hst \in ValueStates
  BY <1>2, FirstOfValueIs
<1>8. "s_header_value" \in States
  BY StatesAre DEF HeaderStates
<1> HIDE DEF f
<1>9. q \in Parsers /\ q.st = "s_header_value" /\ q.hst \in ValueStates
  BY <1>7, <1>8 DEF Parsers
<1> HIDE DEF q
<1>10. Settled(q)
  BY <1>9 DEF Settled, ChunkStates, Measured
<1>11. CASE FailAs(Counted(q))
  <2>1. Counted(q) \in Parsers
    BY <1>2, <1>9, CountedIs
  <2> QED
    BY <1>11, <2>1, FailsAs
<1>12. CASE Move(q) /\ Start("header_value")
  <2>1. MarksOf(marks', q.st)
    <3>1. "header_value" \in Within(q.st) /\ Within(parser.st) \subseteq {"header_value"}
      BY <1>3, <1>9, WithinIs
    <3> QED
      BY <1>2, <1>12, <3>1, StartMarks
  <2> QED
    BY <1>2, <1>9, <1>10, <1>12, <2>1, Moves
<1> QED
  BY <1>4, <1>5, <1>6, <1>11, <1>12

\* The value of a header; a Content-Length stays below the largest number.
LEMMA HeaderValueStep == ASSUME ParserInv, HeaderValue PROVE ParserInv'
<1>1. In({"s_header_value"})
  BY DEF HeaderValue
<1>2. /\ status = "in" /\ p <= piece[2] /\ ~TooLong /\ parser.st = "s_header_value" /\ parser \in Parsers
      /\ Settled(parser)
  BY <1>1, Enter
<1>3. Within(parser.st) = {"header_value"}
  BY <1>2, WithinIs
<1>4. /\ "s_header_almost_done" \in States /\ Plain("s_header_almost_done")
      /\ To("s_header_almost_done") \in Parsers /\ To("s_header_almost_done").st = "s_header_almost_done"
  <2>1. "s_header_almost_done" \in States /\ Plain("s_header_almost_done")
    BY LinePlain, StatesAre DEF HeaderStates
  <2> QED
    BY <1>2, <2>1, ToIs
<1>5. CASE Move(To("s_header_almost_done")) /\ CallData(marks, "header_value", p)
  BY <1>2, <1>3, <1>4, <1>5, PlainCall
<1>6. CASE Again(To("s_header_almost_done")) /\ CallData(marks, "header_value", p)
  <2>1. MarksOf(marks', "s_header_almost_done")
    BY <1>2, <1>3, <1>6, OwnCallMarks
  <2> QED
    BY <1>2, <1>4, <1>6, <2>1, PlainAgain
<1>7. CASE Fail
  BY <1>2, <1>7, Fails
<1>8. CASE /\ ch \notin {CR, LF}
           /\ ~(parser.hst = "h_content_length" /\ ch # SP /\ (ch \notin Num \/ ~LengthFits(parser.len)))
           /\ Move(ValueByte(parser, c0)) /\ Silent
  <2>1. parser.hst \in ValueStates
    BY <1>2 DEF Settled
  <2>2. parser.hst = "h_content_length" => c0 = SP \/ (c0 \in Num /\ LengthFits(parser.len))
    <3>1. ch = SP => c0 = SP
      BY DEF c0, SP
    <3> QED
      BY <1>8, <3>1, DigitCase
  <2> DEFINE q == ValueByte(parser, c0)
  <2>3. q \in Parsers /\ q.hst \in ValueStates /\ q.st = "s_header_value"
    BY <1>2, <2>1, <2>2, ValueByteIs
  <2> HIDE DEF q
  <2>4. Settled(q)
    BY <2>3 DEF Settled, ChunkStates, Measured
  <2>5. MarksOf(marks', q.st)
    BY <1>2, <1>8, <2>3, SilentMarks
  <2> QED
    BY <1>2, <1>8, <2>3, <2>4, <2>5, Moves DEF q
<1> QED
  BY <1>5, <1>6, <1>7, <1>8 DEF HeaderValue

\* A line that starts with a space continues the value.
LEMMA HeaderValueLwsStep == ASSUME ParserInv, HeaderValueLws PROVE ParserInv'
<1>1. In({"s_header_value_lws"}) /\ Silent
  BY DEF HeaderValueLws
<1>2. /\ status = "in" /\ p <= piece[2] /\ ~TooLong /\ parser.st = "s_header_value_lws" /\ parser \in Parsers
  BY <1>1, Enter
<1>3. Within(parser.st) = {}
  BY <1>2, HeaderUnmarked DEF HeaderStates
<1>4. ASSUME NEW q \in Parsers, q.st \in {"s_header_value_start", "s_header_field_start"}, Again(q)
      PROVE  ParserInv'
  <2>1. Plain(q.st)
    BY <1>4, LinePlain DEF HeaderStates
  <2>2. MarksOf(marks', q.st)
    BY <1>1, <1>2, <1>3, SilentMarks
  <2> QED
    BY <1>2, <1>4, <2>1, <2>2, PlainAgain
<1> DEFINE more == CASE parser.hst = "h_connection_keep_alive"     -> {"F_CONNECTION_KEEP_ALIVE"}
                     [] parser.hst = "h_connection_close"          -> {"F_CONNECTION_CLOSE"}
                     [] parser.hst = "h_transfer_encoding_chunked" -> {"F_CHUNKED"}
                     [] OTHER -> {}
<1>5. Again(To("s_header_value_start")) \/ Again([To("s_header_field_start") EXCEPT !.flags = @ \cup more])
  BY DEF HeaderValueLws
<1>6. more \subseteq FlagNames
  BY DEF FlagNames
<1> HIDE DEF more
<1>7. "s_header_value_start" \in States /\ "s_header_field_start" \in States
  BY StatesAre DEF HeaderStates
<1>8. CASE Again(To("s_header_value_start"))
  BY <1>2, <1>4, <1>7, <1>8, ToIs
<1>9. CASE Again([To("s_header_field_start") EXCEPT !.flags = @ \cup more])
  <2> DEFINE t == To("s_header_field_start")
  <2>1. t \in Parsers /\ t.st = "s_header_field_start"
    BY <1>2, <1>7, ToIs
  <2> HIDE DEF t
  <2>2. t.flags \cup more \in SUBSET FlagNames
    BY <1>6, <2>1 DEF Parsers
  <2> DEFINE q == [t EXCEPT !.flags = @ \cup more]
  <2>3. q \in Parsers /\ q.st = "s_header_field_start"
    BY <2>1, <2>2 DEF Parsers
  <2>4. Again(q)
    BY <1>9 DEF t
  <2> HIDE DEF q
  <2> QED
    BY <1>4, <2>3, <2>4
<1> QED
  BY <1>5, <1>8, <1>9

\* An empty value is reported, or continued on the next line.
LEMMA DiscardLwsStep == ASSUME ParserInv, DiscardLws PROVE ParserInv'
<1>1. In({"s_header_value_discard_lws"})
  BY DEF DiscardLws
<1>2. /\ status = "in" /\ p <= piece[2] /\ ~TooLong /\ parser.st = "s_header_value_discard_lws" /\ parser \in Parsers
  BY <1>1, Enter
<1>3. Within(parser.st) = {}
  BY <1>2, HeaderUnmarked DEF HeaderStates
<1>4. /\ "s_header_value_discard_ws" \in States /\ "s_header_field_start" \in States
      /\ Plain("s_header_value_discard_ws") /\ Plain("s_header_field_start")
  BY LinePlain, StatesAre DEF HeaderStates
<1>5. CASE Move(To("s_header_value_discard_ws")) /\ Silent
  BY <1>2, <1>3, <1>4, <1>5, PlainTo
<1>6. CASE Again(To("s_header_field_start")) /\ CallData(Mark("header_value"), "header_value", p)
  <2>1. MarksOf(marks', "s_header_field_start")
    <3>1. Within(parser.st) \subseteq {"header_value"}
      BY <1>3
    <3> QED
      BY <1>2, <1>6, <3>1, MarkCallMarks
  <2>2. To("s_header_field_start") \in Parsers /\ To("s_header_field_start").st = "s_header_field_start"
    BY <1>2, <1>4, ToIs
  <2> QED
    BY <1>2, <1>4, <1>6, <2>1, <2>2, PlainAgain
<1> QED
  BY <1>5, <1>6 DEF DiscardLws

-----------------------------------------------------------------------------
(* The steps where the header ends, and those of a body with a length *)

\* After a message comes another one, or none.
LEMMA NewMessageIs ==
    ASSUME NEW q \in Parsers
    PROVE  /\ NewMessage(q) \in Parsers /\ NewMessage(q).nread = q.nread
           /\ NewMessage(q).st \in {"s_dead", "s_start_req", "s_start_res"} /\ Plain(NewMessage(q).st)
<1> DEFINE st == IF ~ShouldKeepAlive(q) THEN "s_dead"
                 ELSE IF q.type = "HTTP_REQUEST" THEN "s_start_req" ELSE "s_start_res"
<1>1. NewMessage(q) = [q EXCEPT !.st = st]
  BY DEF NewMessage
<1>2. st \in {"s_dead", "s_start_req", "s_start_res"}
  OBVIOUS
<1> HIDE DEF st
<1>3. st \in States /\ Plain(st)
  BY <1>2, LinePlain, StatesAre DEF LineStates
<1> QED
  BY <1>1, <1>2, <1>3 DEF Parsers

\* The last line feed of the header part.
LEMMA HeadersAlmostDoneStep == ASSUME ParserInv, HeadersAlmostDone PROVE ParserInv'
<1>1. In({"s_headers_almost_done"})
  BY DEF HeadersAlmostDone
<1>2. /\ status = "in" /\ p <= piece[2] /\ ~TooLong /\ parser.st = "s_headers_almost_done" /\ parser \in Parsers
  BY <1>1, Enter
<1>3. parser.st \notin Marked
  BY <1>2, HeaderUnmarked DEF HeaderStates
<1> DEFINE t == To("s_headers_done")
<1> DEFINE up == "F_UPGRADE" \in parser.flags \/ parser.meth = "CONNECT"
<1> DEFINE fl == t.flags \cup IF input.skip THEN {"F_SKIPBODY"} ELSE {}
<1> DEFINE q == [t EXCEPT !.upgrade = up, !.flags = fl]
<1>4. \/ Fail
      \/ Move(NewMessage(parser)) /\ Notify("message_complete", <<>>)
      \/ Again(q) /\ Notify("headers_complete", <<parser.meth>>)
  BY DEF HeadersAlmostDone
<1>5. CASE Fail
  BY <1>2, <1>5, Fails
<1>6. CASE Move(NewMessage(parser)) /\ Notify("message_complete", <<>>)
  <2>1. NewMessage(parser) \in Parsers /\ Plain(NewMessage(parser).st)
    BY <1>2, NewMessageIs
  <2> QED
    BY <1>2, <1>3, <1>6, <2>1, PlainNotify
<1>7. CASE Again(q) /\ Notify("headers_complete", <<parser.meth>>)
  <2>1. "s_headers_done" \in States /\ Plain("s_headers_done")
    BY LinePlain, StatesAre DEF HeaderStates
  <2>2. t \in Parsers /\ t.st = "s_headers_done"
    BY <1>2, <2>1, ToIs
  <2> HIDE DEF t
  <2>3. fl \in SUBSET FlagNames
    BY <2>2 DEF Parsers, FlagNames
  <2>4. up \in BOOLEAN
    OBVIOUS
  <2> HIDE DEF fl, up
  <2>5. q \in Parsers /\ q.st = "s_headers_done"
    BY <2>2, <2>3, <2>4 DEF Parsers
  <2> HIDE DEF q
  <2>6. MarksOf(marks', q.st)
    BY <1>2, <1>3, <1>7, NotifyMarks
  <2> QED
    BY <1>2, <1>7, <2>1, <2>5, <2>6, PlainAgain
<1> QED
  BY <1>4, <1>5, <1>6, <1>7

\* What follows the header part: a length, chunks, everything up to the end, or nothing.
LEMMA HeadersDoneStep == ASSUME ParserInv, HeadersDone PROVE ParserInv'
<1>1. In({"s_headers_done"})
  BY DEF HeadersDone
<1>2. /\ status = "in" /\ p <= piece[2] /\ ~TooLong /\ parser.st = "s_headers_done" /\ parser \in Parsers
  BY <1>1, Enter
<1>3. parser.st \notin Marked /\ Within(parser.st) = {}
  BY <1>2, HeaderUnmarked DEF HeaderStates
<1>4. p + 1 <= piece[2] + 1
  BY <1>2 DEF ParserInv, Position
<1> DEFINE q == [parser EXCEPT !.nread = 0]
<1>5. /\ q \in Parsers /\ q.nread = 0 /\ q.flags = parser.flags /\ q.len = parser.len
      /\ q.st = "s_headers_done"
  <2>1. 0 \in 0..(MaxHeader + 1)
    BY ParserAssumption
  <2> QED
    BY <1>2, <2>1 DEF Parsers
<1>6. NewMessage(q) \in Parsers /\ NewMessage(q).nread = 0 /\ Plain(NewMessage(q).st)
  BY <1>5, NewMessageIs
<1>7. 0 <= MaxHeader
  BY ParserAssumption
<1> DEFINE chunked == [q EXCEPT !.st = "s_chunk_size_start"]
<1> DEFINE bodySt == IF q.len = UllMax THEN "s_body_identity_eof" ELSE "s_body_identity"
<1>8. \/ Fail
      \/ /\ parser' = NewMessage(q) /\ p' = p + 1 /\ again' = FALSE /\ status' = "upgraded"
         /\ Notify("message_complete", <<>>) /\ UNCHANGED <<input, piece>>
      \/ "F_CHUNKED" \in q.flags /\ MoveBy(1, chunked) /\ Silent
      \/ MoveBy(1, NewMessage(q)) /\ Notify("message_complete", <<>>)
      \/ ~NoBody(q) /\ MoveBy(1, [q EXCEPT !.st = bodySt]) /\ Silent
  <2> HIDE DEF q, chunked, bodySt
  <2>1. q.flags = parser.flags
    BY <1>5
  <2> USE DEF q, chunked, bodySt
  <2> QED
    BY DEF HeadersDone
<1> HIDE DEF q
<1>9. CASE Fail
  BY <1>2, <1>9, Fails
<1>10. CASE /\ parser' = NewMessage(q) /\ p' = p + 1 /\ again' = FALSE /\ status' = "upgraded"
            /\ Notify("message_complete", <<>>) /\ UNCHANGED <<input, piece>>
  <2>1. Position'
    <3>1. input \in Texts /\ p \in 1..(Len(input.text) + 1) /\ piece \in Int \X (0..Len(input.text))
      BY DEF ParserInv, Position
    <3>2. Len(input.text) \in Nat /\ piece[2] \in 0..Len(input.text)
      BY <3>1, ParserAssumption
    <3>3. p + 1 \in 1..(Len(input.text) + 1)
      BY <1>2, <3>1, <3>2
    <3> QED
      BY <1>10, <3>1, <3>3 DEF Position
  <2> QED
    BY <1>6, <1>10, <2>1 DEF ParserInv, Notify
<1>11. CASE "F_CHUNKED" \in q.flags /\ MoveBy(1, chunked) /\ Silent
  <2>1. "s_chunk_size_start" \in States
    BY StatesAre DEF ChunkStates
  <2>2. chunked \in Parsers /\ chunked.st = "s_chunk_size_start" /\ chunked.flags = q.flags /\ chunked.nread = 0
    BY <1>5, <2>1 DEF Parsers
  <2> HIDE DEF chunked
  <2>3. Settled(chunked)
    BY <1>11, <2>2 DEF Settled, Measured
  <2>4. MarksOf(marks', chunked.st)
    BY <1>2, <1>3, <1>11, SilentMarks
  <2> QED
    BY <1>2, <1>4, <1>7, <1>11, <2>2, <2>3, <2>4, MovesBy
<1>12. CASE MoveBy(1, NewMessage(q)) /\ Notify("message_complete", <<>>)
  <2> DEFINE r == NewMessage(q)
  <2>1. r \in Parsers /\ r.nread = 0 /\ Settled(r) /\ r.st # "s_chunk_size_start"
    BY <1>6, PlainSettled
  <2> HIDE DEF r
  <2>2. MarksOf(marks', r.st)
    BY <1>2, <1>3, <1>12, NotifyMarks
  <2>3. MoveBy(1, r)
    BY <1>12 DEF r
  <2> QED
    BY <1>2, <1>4, <1>7, <2>1, <2>2, <2>3, MovesBy
<1>13. CASE ~NoBody(q) /\ MoveBy(1, [q EXCEPT !.st = bodySt]) /\ Silent
  <2> DEFINE r == [q EXCEPT !.st = bodySt]
  <2>1. bodySt \in BodyStates /\ bodySt \in States /\ (bodySt = "s_body_identity" => q.len # UllMax)
        /\ bodySt \in {"s_body_identity_eof", "s_body_identity"}
    BY StatesAre DEF BodyStates
  <2> HIDE DEF bodySt
  <2>2. r \in Parsers /\ r.st = bodySt /\ r.len = q.len /\ r.nread = 0
    BY <1>5, <2>1 DEF Parsers
  <2> HIDE DEF r
  <2>3. q.len # 0
    BY <1>13 DEF NoBody
  <2>4. Settled(r) /\ r.st # "s_chunk_size_start"
    BY <2>1, <2>2, <2>3 DEF Settled, Measured, ChunkStates
  <2>5. MarksOf(marks', r.st)
    BY <1>2, <1>3, <1>13, SilentMarks
  <2>6. MoveBy(1, r)
    BY <1>13 DEF r
  <2> QED
    BY <1>2, <1>4, <1>7, <2>2, <2>4, <2>5, <2>6, MovesBy
<1> QED
  BY <1>8, <1>9, <1>10, <1>11, <1>12, <1>13

\* What can be read of a body: as many bytes as it still has, or as the piece has.
LEMMA ToReadIs ==
    ASSUME ParserInv, status = "in", p <= piece[2]
    PROVE  /\ Here \in Nat /\ Here >= 1 /\ p + Here = piece[2] + 1
           /\ ToRead \in Nat /\ ToRead <= Here /\ ToRead <= parser.len
           /\ parser.len # 0 => ToRead >= 1
<1>1. p \in Nat /\ piece[2] \in Nat /\ p <= piece[2]
  <2>1. input \in Texts /\ p \in 1..(Len(input.text) + 1) /\ piece \in Int \X (0..Len(input.text))
    BY DEF ParserInv, Position
  <2>2. Len(input.text) \in Nat
    BY <2>1, ParserAssumption
  <2> QED
    BY <2>1, <2>2
<1>2. parser.len \in Nat
  BY DEF ParserInv, Parsers
<1>3. Here \in Nat /\ Here >= 1 /\ p + Here = piece[2] + 1
  BY <1>1 DEF Here
<1> HIDE DEF Here
<1> QED
  BY <1>2, <1>3 DEF ToRead

\* A body of known length ends where the length does.
LEMMA BodyIdentityStep == ASSUME ParserInv, BodyIdentity PROVE ParserInv'
<1>1. In({"s_body_identity"})
  BY DEF BodyIdentity
<1>2. /\ status = "in" /\ p <= piece[2] /\ ~TooLong /\ parser.st = "s_body_identity" /\ parser \in Parsers
      /\ Settled(parser) /\ Counting
  BY <1>1, Enter
<1>3. parser.len \in 0..UllMax /\ parser.len # 0 /\ parser.len # UllMax
  BY <1>2 DEF Parsers, Settled, Measured
<1>4. Within(parser.st) = {"body"}
  BY <1>2, WithinIs DEF BodyStates
<1>5. Here \in Nat /\ p + Here = piece[2] + 1 /\ ToRead \in Nat /\ ToRead <= Here /\ ToRead <= parser.len /\ ToRead >= 1
  BY <1>2, <1>3, ToReadIs
<1>6. p \in Int /\ piece[2] \in Int
  <2>1. input \in Texts /\ p \in 1..(Len(input.text) + 1) /\ piece \in Int \X (0..Len(input.text))
    BY DEF ParserInv, Position
  <2> QED
    BY <2>1, ParserAssumption
<1> DEFINE q == [parser EXCEPT !.st = "s_message_done", !.len = 0]
<1> DEFINE r == [parser EXCEPT !.len = @ - ToRead]
<1>7. \/ /\ parser' = q /\ p' = p + ToRead - 1 /\ again' = TRUE
         /\ CallData(Mark("body"), "body", p + ToRead) /\ UNCHANGED <<input, piece, status>>
      \/ ToRead # parser.len /\ MoveBy(ToRead, r) /\ Start("body")
  BY DEF BodyIdentity
<1>8. CASE /\ parser' = q /\ p' = p + ToRead - 1 /\ again' = TRUE
           /\ CallData(Mark("body"), "body", p + ToRead) /\ UNCHANGED <<input, piece, status>>
  <2>1. "s_message_done" \in States /\ Plain("s_message_done")
    BY LinePlain, StatesAre DEF HeaderStates
  <2>2. 0 \in 0..UllMax
    BY ParserAssumption
  <2>3. q \in Parsers /\ q.st = "s_message_done" /\ q.nread = parser.nread
    BY <1>2, <2>1, <2>2 DEF Parsers
  <2> HIDE DEF q
  <2>4. Settled(q) /\ q.st # "s_chunk_size_start"
    BY <2>1, <2>3, PlainSettled
  <2>5. MarksOf(marks', q.st)
    <3>1. Within(parser.st) \subseteq {"body"}
      BY <1>4
    <3> QED
      BY <1>2, <1>8, <3>1, MarkCallMarks
  <2>6. Position'
    <3>1. input \in Texts /\ p \in 1..(Len(input.text) + 1) /\ piece \in Int \X (0..Len(input.text))
      BY DEF ParserInv, Position
    <3>2. Len(input.text) \in Nat /\ piece[2] \in 0..Len(input.text)
      BY <3>1, ParserAssumption
    <3>3. p' \in 1..(Len(input.text) + 1) /\ p' <= piece[2] + 1
      BY <1>5, <1>6, <1>8, <3>1, <3>2
    <3> QED
      BY <1>8, <3>1, <3>3 DEF Position
  <2>7. (Settled(parser) /\ Counting)'
    BY <1>2, <1>8, <2>3, <2>4 DEF Counting, Settled
  <2>8. MarksOf(marks, parser.st)'
    BY <1>8, <2>5 DEF MarksOf
  <2>9. marks' \subseteq Data \X (1..Len(input.text))
    BY <2>5, MarksAreData
  <2> QED
    BY <1>2, <1>8, <2>3, <2>6, <2>7, <2>8, <2>9 DEF ParserInv
<1>9. CASE ToRead # parser.len /\ MoveBy(ToRead, r) /\ Start("body")
  <2>1. parser.len - ToRead \in 0..UllMax /\ parser.len - ToRead # 0 /\ parser.len - ToRead # UllMax
    BY <1>3, <1>5, <1>9, ParserAssumption
  <2>2. /\ r \in Parsers /\ r.st = "s_body_identity" /\ r.nread = parser.nread /\ r.len = parser.len - ToRead
    BY <1>2, <2>1 DEF Parsers
  <2> HIDE DEF r
  <2>3. Settled(r) /\ r.st # "s_chunk_size_start"
    BY <2>1, <2>2 DEF Settled, ChunkStates
  <2>4. MarksOf(marks', r.st)
    <3>1. Within(parser.st) \subseteq {"body"} /\ "body" \in Within(r.st)
      BY <1>2, <1>4, <2>2
    <3> QED
      BY <1>2, <1>9, <3>1, StartMarks
  <2>5. r.nread <= MaxHeader
    BY <1>2, <2>2 DEF Counting
  <2>6. p + ToRead <= piece[2] + 1
    BY <1>5, <1>6
  <2> QED
    BY <1>2, <1>5, <1>9, <2>2, <2>3, <2>4, <2>5, <2>6, MovesBy
<1> QED
  BY <1>7, <1>8, <1>9

\* A body without a length takes everything.
LEMMA BodyIdentityEofStep == ASSUME ParserInv, BodyIdentityEof PROVE ParserInv'
<1>1. In({"s_body_identity_eof"}) /\ MoveBy(Here, parser) /\ Start("body")
  BY DEF BodyIdentityEof
<1>2. /\ status = "in" /\ p <= piece[2] /\ ~TooLong /\ parser.st = "s_body_identity_eof" /\ parser \in Parsers
      /\ Settled(parser) /\ Counting
  BY <1>1, Enter
<1>3. Within(parser.st) = {"body"}
  BY <1>2, WithinIs DEF BodyStates
<1>4. Here \in Nat /\ p + Here <= piece[2] + 1
  <2>1. Here \in Nat /\ p + Here = piece[2] + 1 /\ piece[2] \in Int
    BY <1>2, ToReadIs DEF ParserInv, Position
  <2> QED
    BY <2>1
<1>5. MarksOf(marks', parser.st)
  BY <1>1, <1>2, <1>3, StartMarks
<1>6. parser.nread <= MaxHeader
  BY <1>2 DEF Counting
<1> QED
  BY <1>1, <1>2, <1>4, <1>5, <1>6, MovesBy

\* A message ends; another may follow.
LEMMA MessageDoneStep == ASSUME ParserInv, MessageDone PROVE ParserInv'
<1>1. In({"s_message_done"}) /\ Move(NewMessage(parser)) /\ Notify("message_complete", <<>>)
  BY DEF MessageDone
<1>2. /\ status = "in" /\ p <= piece[2] /\ ~TooLong /\ parser.st = "s_message_done" /\ parser \in Parsers
  BY <1>1, Enter
<1>3. parser.st \notin Marked
  BY <1>2, HeaderUnmarked DEF HeaderStates
<1>4. NewMessage(parser) \in Parsers /\ Plain(NewMessage(parser).st)
  BY <1>2, NewMessageIs
<1> QED
  BY <1>1, <1>2, <1>3, <1>4, PlainNotify

-----------------------------------------------------------------------------
(* The steps of a chunked body *)

\* The states between chunks have no mark.
LEMMA ChunkUnmarked ==
    \A st \in ChunkStates \ BodyStates : st \notin Marked /\ Within(st) = {}
<1>1. \A st \in ChunkStates \ BodyStates : st \notin Marked
  BY DEF ChunkStates, Marked, UrlPrefix, UrlRest, BodyStates
<1> QED
  BY <1>1, WithinIs

\* A byte of the frame of a chunk: the message stays chunked, its length is one that was read.
LEMMA FrameMove ==
    ASSUME ParserInv, status = "in", p <= piece[2], ~TooLong, parser.st \in ChunkStates \ BodyStates,
           NEW q \in Parsers, Move(q), Silent, q.flags = parser.flags,
           q.st \in {"s_chunk_size", "s_chunk_parameters", "s_chunk_size_almost_done"}, q.len # UllMax
    PROVE  ParserInv'
<1>1. "F_CHUNKED" \in q.flags
  BY DEF ParserInv, Settled
<1>2. Settled(q) /\ q.st # "s_chunk_size_start"
  BY <1>1 DEF Settled, Measured
<1>3. MarksOf(marks', q.st)
  BY ChunkUnmarked, SilentMarks
<1> QED
  BY <1>2, <1>3, Moves

\* The size of a chunk, digit by digit, stays below the largest number.
LEMMA ChunkSizeStep == ASSUME ParserInv, ChunkSize PROVE ParserInv'
<1>1. In({"s_chunk_size_start", "s_chunk_size", "s_chunk_parameters"})
  BY DEF ChunkSize, In
<1>2. /\ status = "in" /\ p <= piece[2] /\ ~TooLong /\ parser \in Parsers /\ Settled(parser)
      /\ parser.st \in {"s_chunk_size_start", "s_chunk_size", "s_chunk_parameters"}
  BY <1>1, Enter
<1>3. parser.st \in ChunkStates \ BodyStates
  BY <1>2 DEF ChunkStates, BodyStates
<1>4. CASE Fail
  BY <1>2, <1>4, Fails
<1>5. ASSUME NEW st \in {"s_chunk_size", "s_chunk_parameters", "s_chunk_size_almost_done"},
             parser.st # "s_chunk_size_start", Move(To(st)), Silent
      PROVE  ParserInv'
  <2>1. st \in States
    BY StatesAre DEF ChunkStates
  <2>2. To(st) \in Parsers /\ To(st).st = st /\ To(st).flags = parser.flags /\ To(st).len = parser.len
    BY <1>2, <2>1, ToIs
  <2>3. parser.len # UllMax
    BY <1>2, <1>5 DEF Settled, Measured
  <2> QED
    BY <1>2, <1>3, <1>5, <2>2, <2>3, FrameMove
<1>6. CASE Unhex(ch) # -1 /\ Move([To("s_chunk_size") EXCEPT !.len = Unhex(ch)]) /\ Silent
  <2> DEFINE t == To("s_chunk_size")
  <2> DEFINE q == [t EXCEPT !.len = Unhex(ch)]
  <2>1. "s_chunk_size" \in States
    BY StatesAre DEF ChunkStates
  <2>2. t \in Parsers /\ t.st = "s_chunk_size" /\ t.flags = parser.flags
    BY <1>2, <2>1, ToIs
  <2> HIDE DEF t
  <2>3. Unhex(ch) \in 0..UllMax /\ Unhex(ch) # UllMax
    BY <1>6, Hex, ParserAssumption
  <2>4. q \in Parsers /\ q.st = "s_chunk_size" /\ q.flags = parser.flags /\ q.len # UllMax
    BY <2>2, <2>3 DEF Parsers
  <2>5. Move(q)
    BY <1>6 DEF t
  <2> HIDE DEF q
  <2> QED
    BY <1>2, <1>3, <1>6, <2>4, <2>5, FrameMove
<1>7. CASE /\ parser.st = "s_chunk_size" /\ Unhex(ch) # -1 /\ ChunkFits(parser.len)
           /\ Move([parser EXCEPT !.len = @ * 16 + Unhex(ch)]) /\ Silent
  <2> DEFINE q == [parser EXCEPT !.len = @ * 16 + Unhex(ch)]
  <2>1. Unhex(ch) \in Int /\ Unhex(ch) >= 0 /\ Unhex(ch) <= 15 /\ parser.len \in Nat
    BY <1>2, <1>7, Hex DEF Parsers
  <2>2. parser.len * 16 + Unhex(ch) \in 0..UllMax /\ parser.len * 16 + Unhex(ch) # UllMax
    BY <1>7, <2>1, ParserAssumption DEF ChunkFits
  <2>3. q \in Parsers /\ q.st = "s_chunk_size" /\ q.flags = parser.flags /\ q.len # UllMax
    BY <1>2, <1>7, <2>2 DEF Parsers
  <2> HIDE DEF q
  <2> QED
    BY <1>2, <1>3, <1>7, <2>3, FrameMove DEF q
<1>8. CASE parser.st = "s_chunk_parameters" /\ Move(parser) /\ Silent
  <2>1. parser.len # UllMax
    BY <1>2, <1>8 DEF Settled, Measured
  <2> QED
    BY <1>2, <1>3, <1>8, <2>1, FrameMove
<1>9. CASE In({"s_chunk_size_start"})
  <2>1. Fail \/ (Unhex(ch) # -1 /\ Move([To("s_chunk_size") EXCEPT !.len = Unhex(ch)]) /\ Silent)
    BY <1>9 DEF ChunkSize, In
  <2> QED
    BY <1>4, <1>6, <2>1
<1>10. CASE In({"s_chunk_size"})
  <2>1. parser.st = "s_chunk_size"
    BY <1>10 DEF In
  <2>2. \/ Move(To("s_chunk_size_almost_done")) /\ Silent
        \/ Move(To("s_chunk_parameters")) /\ Silent
        \/ Unhex(ch) # -1 /\ ChunkFits(parser.len)
           /\ Move([parser EXCEPT !.len = @ * 16 + Unhex(ch)]) /\ Silent
        \/ Fail
    BY <2>1 DEF ChunkSize, In
  <2> QED
    BY <1>4, <1>5, <1>7, <2>1, <2>2
<1>11. CASE In({"s_chunk_parameters"})
  <2>1. parser.st = "s_chunk_parameters"
    BY <1>11 DEF In
  <2>2. (Move(To("s_chunk_size_almost_done")) /\ Silent) \/ (Move(parser) /\ Silent)
    BY <2>1 DEF ChunkSize, In
  <2> QED
    BY <1>5, <1>8, <2>1, <2>2
<1> QED
  BY <1>9, <1>10, <1>11 DEF ChunkSize

\* A chunk of no bytes is the last one.
LEMMA ChunkSizeAlmostDoneStep == ASSUME ParserInv, ChunkSizeAlmostDone PROVE ParserInv'
<1>1. In({"s_chunk_size_almost_done"})
  BY DEF ChunkSizeAlmostDone
<1>2. /\ status = "in" /\ p <= piece[2] /\ ~TooLong /\ parser.st = "s_chunk_size_almost_done" /\ parser \in Parsers
      /\ Settled(parser)
  BY <1>1, Enter
<1>3. p + 1 <= piece[2] + 1
  BY <1>2 DEF ParserInv, Position
<1>4. Within(parser.st) = {}
  BY <1>2, ChunkUnmarked DEF ChunkStates, BodyStates
<1> DEFINE c == Counted(parser)
<1>5. /\ c \in Parsers /\ c.flags = parser.flags /\ c.len = parser.len
  BY <1>2, CountedIs
<1>6. (MoveBy(1, AfterChunkSize(c)) /\ Silent) \/ Fail
  BY DEF ChunkSizeAlmostDone
<1> HIDE DEF c
<1> DEFINE q == AfterChunkSize(c)
<1>7. CASE Fail
  BY <1>2, <1>7, Fails
<1>8. 0 \in 0..(MaxHeader + 1) /\ 0 <= MaxHeader
  BY ParserAssumption
<1>9. CASE MoveBy(1, q) /\ Silent
  <2>1. q \in Parsers /\ q.nread = 0 /\ Settled(q) /\ q.st # "s_chunk_size_start"
    <3>1. CASE c.len = 0
      <4>1. q = [c EXCEPT !.st = "s_header_field_start", !.flags = c.flags \cup {"F_TRAILING"}, !.nread = 0]
        BY <3>1 DEF AfterChunkSize
      <4>2. "s_header_field_start" \in States /\ Plain("s_header_field_start")
        BY LinePlain, StatesAre DEF HeaderStates
      <4>3. c.flags \cup {"F_TRAILING"} \in SUBSET FlagNames
        BY <1>5 DEF Parsers, FlagNames
      <4>4. q \in Parsers /\ q.st = "s_header_field_start" /\ q.nread = 0
        BY <1>5, <1>8, <4>1, <4>2, <4>3 DEF Parsers
      <4> HIDE DEF q
      <4> QED
        BY <4>2, <4>4, PlainSettled
    <3>2. CASE c.len # 0
      <4>1. q = [c EXCEPT !.st = "s_chunk_data", !.nread = 0]
        BY <3>2 DEF AfterChunkSize
      <4>2. "s_chunk_data" \in States
        BY StatesAre DEF ChunkStates
      <4>3. q \in Parsers /\ q.st = "s_chunk_data" /\ q.nread = 0 /\ q.len = parser.len /\ q.flags = parser.flags
        BY <1>5, <1>8, <4>1, <4>2 DEF Parsers
      <4>4. "F_CHUNKED" \in parser.flags /\ parser.len # UllMax /\ parser.len # 0
        BY <1>2, <1>5, <3>2 DEF Settled, ChunkStates, Measured
      <4> HIDE DEF q
      <4> QED
        BY <4>3, <4>4 DEF Settled
    <3> QED
      BY <3>1, <3>2
  <2> HIDE DEF q
  <2>2. MarksOf(marks', q.st)
    BY <1>2, <1>4, <1>9, SilentMarks
  <2> QED
    BY <1>2, <1>3, <1>8, <1>9, <2>1, <2>2, MovesBy
<1> QED
  BY <1>6, <1>7, <1>9

\* The data of a chunk end where its size does.
LEMMA ChunkDataStep == ASSUME ParserInv, ChunkData PROVE ParserInv'
<1>1. In({"s_chunk_data"})
  BY DEF ChunkData
<1>2. /\ status = "in" /\ p <= piece[2] /\ ~TooLong /\ parser.st = "s_chunk_data" /\ parser \in Parsers
      /\ Settled(parser) /\ Counting
  BY <1>1, Enter
<1>3. /\ parser.len \in 0..UllMax /\ parser.len # 0 /\ parser.len # UllMax /\ "F_CHUNKED" \in parser.flags
  BY <1>2 DEF Parsers, Settled, Measured, ChunkStates
<1>4. Within(parser.st) = {"body"}
  BY <1>2, WithinIs DEF BodyStates
<1>5. Here \in Nat /\ p + Here = piece[2] + 1 /\ ToRead \in Nat /\ ToRead <= Here /\ ToRead <= parser.len /\ ToRead >= 1
  BY <1>2, <1>3, ToReadIs
<1>6. p \in Int /\ piece[2] \in Int
  <2>1. input \in Texts /\ p \in 1..(Len(input.text) + 1) /\ piece \in Int \X (0..Len(input.text))
    BY DEF ParserInv, Position
  <2> QED
    BY <2>1, ParserAssumption
<1> DEFINE st == IF parser.len = ToRead THEN "s_chunk_data_almost_done" ELSE parser.st
<1> DEFINE q == [parser EXCEPT !.len = parser.len - ToRead, !.st = st]
<1>7. MoveBy(ToRead, q) /\ Start("body")
  BY DEF ChunkData
<1>8. /\ parser.len - ToRead \in 0..UllMax /\ parser.len - ToRead # UllMax
      /\ parser.len - ToRead = 0 <=> parser.len = ToRead
  BY <1>3, <1>5, ParserAssumption
<1>9. /\ st \in {"s_chunk_data", "s_chunk_data_almost_done"} /\ st \in States
      /\ st = "s_chunk_data_almost_done" <=> parser.len = ToRead
  BY <1>2, StatesAre DEF ChunkStates
<1> HIDE DEF st
<1>10. /\ q \in Parsers /\ q.st = st /\ q.nread = parser.nread /\ q.len = parser.len - ToRead
       /\ q.flags = parser.flags
  BY <1>2, <1>8, <1>9 DEF Parsers
<1> HIDE DEF q
<1>11. Settled(q) /\ q.st # "s_chunk_size_start"
  BY <1>3, <1>8, <1>9, <1>10 DEF Settled
<1>12. MarksOf(marks', q.st)
  <2>1. Within(parser.st) \subseteq {"body"} /\ "body" \in Within(q.st)
    BY <1>4, <1>9, <1>10, WithinIs DEF BodyStates
  <2> QED
    BY <1>2, <1>7, <2>1, StartMarks
<1>13. q.nread <= MaxHeader
  BY <1>2, <1>10 DEF Counting
<1>14. p + ToRead <= piece[2] + 1
  BY <1>5, <1>6
<1> QED
  BY <1>2, <1>5, <1>7, <1>10, <1>11, <1>12, <1>13, <1>14, MovesBy

\* A line end follows the data of a chunk.
LEMMA ChunkDataAlmostDoneStep == ASSUME ParserInv, ChunkDataAlmostDone PROVE ParserInv'
<1>1. In({"s_chunk_data_almost_done"})
  BY DEF ChunkDataAlmostDone
<1>2. /\ status = "in" /\ p <= piece[2] /\ ~TooLong /\ parser.st = "s_chunk_data_almost_done" /\ parser \in Parsers
      /\ Settled(parser)
  BY <1>1, Enter
<1>3. Within(parser.st) = {"body"}
  BY <1>2, WithinIs DEF BodyStates
<1>4. (Move(To("s_chunk_data_done")) /\ CallData(marks, "body", p)) \/ Fail
  BY DEF ChunkDataAlmostDone
<1>5. CASE Move(To("s_chunk_data_done")) /\ CallData(marks, "body", p)
  <2> DEFINE q == To("s_chunk_data_done")
  <2>1. "s_chunk_data_done" \in States
    BY StatesAre DEF ChunkStates
  <2>2. q \in Parsers /\ q.st = "s_chunk_data_done" /\ q.flags = parser.flags
    BY <1>2, <2>1, ToIs
  <2> HIDE DEF q
  <2>3. "F_CHUNKED" \in q.flags
    BY <1>2, <2>2 DEF Settled, ChunkStates
  <2>4. Settled(q) /\ q.st # "s_chunk_size_start"
    BY <2>2, <2>3 DEF Settled, Measured
  <2>5. MarksOf(marks', q.st)
    BY <1>2, <1>3, <1>5, OwnCallMarks
  <2> QED
    BY <1>2, <1>5, <2>2, <2>4, <2>5, Moves DEF q
<1>6. CASE Fail
  BY <1>2, <1>6, Fails
<1> QED
  BY <1>4, <1>5, <1>6

\* The next chunk starts with the counter at nought.
LEMMA ChunkDataDoneStep == ASSUME ParserInv, ChunkDataDone PROVE ParserInv'
<1>1. In({"s_chunk_data_done"})
  BY DEF ChunkDataDone
<1>2. /\ status = "in" /\ p <= piece[2] /\ ~TooLong /\ parser.st = "s_chunk_data_done" /\ parser \in Parsers
      /\ Settled(parser)
  BY <1>1, Enter
<1>3. Within(parser.st) = {}
  BY <1>2, ChunkUnmarked DEF ChunkStates, BodyStates
<1> DEFINE q == [parser EXCEPT !.st = "s_chunk_size_start", !.nread = 0]
<1>4. (MoveBy(1, q) /\ Silent) \/ Fail
  BY DEF ChunkDataDone
<1>5. CASE MoveBy(1, q) /\ Silent
  <2>1. "s_chunk_size_start" \in States /\ 0 \in 0..(MaxHeader + 1) /\ 0 <= MaxHeader
    BY StatesAre, ParserAssumption DEF ChunkStates
  <2>2. q \in Parsers /\ q.st = "s_chunk_size_start" /\ q.flags = parser.flags /\ q.nread = 0
    BY <1>2, <2>1 DEF Parsers
  <2> HIDE DEF q
  <2>3. "F_CHUNKED" \in q.flags
    BY <1>2, <2>2 DEF Settled, ChunkStates
  <2>4. Settled(q)
    BY <2>2, <2>3 DEF Settled, Measured
  <2>5. MarksOf(marks', q.st)
    BY <1>2, <1>3, <1>5, SilentMarks
  <2>6. p + 1 <= piece[2] + 1
    BY <1>2 DEF ParserInv, Position
  <2> QED
    BY <1>2, <1>5, <2>1, <2>2, <2>4, <2>5, <2>6, MovesBy
<1>6. CASE Fail
  BY <1>2, <1>6, Fails
<1> QED
  BY <1>4, <1>5, <1>6

-----------------------------------------------------------------------------
(* The calls *)

\* A byte that makes the header too long ends the call.
LEMMA HeaderTooLongStep == ASSUME ParserInv, HeaderTooLong PROVE ParserInv'
<1>1. status = "in" /\ FailAs([parser EXCEPT !.nread = @ + 1])
  BY DEF HeaderTooLong
<1>2. parser \in Parsers /\ parser.nread \in 0..MaxHeader
  BY <1>1, ParserAssumption DEF ParserInv, Counting, Parsers
<1> DEFINE q == [parser EXCEPT !.nread = @ + 1]
<1>3. parser.nread + 1 \in 0..(MaxHeader + 1)
  BY <1>2, ParserAssumption
<1>4. q \in Parsers
  BY <1>2, <1>3 DEF Parsers
<1> HIDE DEF q
<1> QED
  BY <1>1, <1>4, FailsAs DEF q

\* A call starts with the marks of the datum its state is in the middle of.
LEMMA ExecuteStep == ASSUME ParserInv, Execute PROVE ParserInv'
<1>1. PICK last \in p..Len(input.text) : piece' = <<p, last>>
  BY DEF Execute
<1>2. /\ status = "between" /\ marks' = {<<f, p>> : f \in Resumed(parser.st)} /\ status' = "in"
      /\ UNCHANGED <<input, parser, p, again, calls, attr>> /\ p <= Len(input.text)
  BY DEF Execute
<1>3. input \in Texts /\ p \in 1..(Len(input.text) + 1) /\ again \in BOOLEAN /\ Len(input.text) \in Nat
  BY ParserAssumption DEF ParserInv, Position
<1>4. Position'
  <2>1. p \in Int /\ last \in 0..Len(input.text) /\ p <= last
    BY <1>1, <1>3
  <2>2. piece' \in Int \X (0..Len(input.text)) /\ piece'[2] = last
    BY <1>1, <2>1
  <2> QED
    BY <1>2, <1>3, <2>1, <2>2 DEF Position
<1>5. (Settled(parser) /\ Counting)'
  BY <1>2 DEF ParserInv, Settled, Counting
<1>6. MarksOf(marks', parser.st)
  <2>1. Resumed(parser.st) \subseteq Within(parser.st) /\ p \in 1..Len(input.text)
    BY <1>2, <1>3 DEF Within
  <2>2. \A f, g \in Resumed(parser.st) : f = g
    BY DEF Resumed
  <2> QED
    BY <1>2, <2>1, <2>2 DEF MarksOf
<1>7. marks' \subseteq Data \X (1..Len(input.text))
  BY <1>6, MarksAreData
<1>8. MarksOf(marks, parser.st)'
  BY <1>2, <1>6 DEF MarksOf
<1> QED
  BY <1>2, <1>4, <1>5, <1>7, <1>8 DEF ParserInv

\* At the end of a piece its only mark is taken.
LEMMA EndOfPieceStep == ASSUME ParserInv, EndOfPiece PROVE ParserInv'
<1>1. /\ status = "in" /\ status' = "between" /\ UNCHANGED <<input, parser, p, piece, again>>
      /\ IF marks = {} THEN UNCHANGED <<marks, calls, attr>>
         ELSE CallData(marks, (CHOOSE m \in marks : TRUE)[1], p)
  BY DEF EndOfPiece
<1>2. marks' = {}
  <2>1. CASE marks = {}
    BY <1>1, <2>1
  <2>2. CASE marks # {}
    <3> DEFINE m == CHOOSE m \in marks : TRUE
    <3>1. m \in marks
      BY <2>2
    <3> HIDE DEF m
    <3>2. /\ marks = {m}
          /\ \E f : m \in {f} \X (1..Len(input.text))
      BY <1>1, <3>1 DEF ParserInv, MarksOf
    <3>3. marks \subseteq {m[1]} \X (1..Len(input.text))
      BY <3>2
    <3>4. CallData(marks, m[1], p)
      BY <1>1, <2>2 DEF m
    <3> QED
      BY <3>3, <3>4, CallMarks
  <2> QED
    BY <2>1, <2>2
<1>3. Position'
  BY <1>1 DEF ParserInv, Position
<1>4. (Settled(parser) /\ Counting)'
  BY <1>1 DEF ParserInv, Settled, Counting
<1> QED
  BY <1>1, <1>2, <1>3, <1>4 DEF ParserInv

\* The end of the connection moves no state; it is reported or refused.
LEMMA EndOfInputStep == ASSUME ParserInv, EndOfInput PROVE ParserInv'
<1>1. /\ status' \in {"ended", "failed"} /\ UNCHANGED <<input, parser, p, piece, again>> /\ marks' = marks
  BY DEF EndOfInput, Notify, Silent
<1>2. Position'
  BY <1>1 DEF ParserInv, Position
<1> QED
  BY <1>1, <1>2 DEF ParserInv

-----------------------------------------------------------------------------
(* Theorems *)

\* A parser that was just initialised.
LEMMA ParserInit == Init => ParserInv
<1> SUFFICES ASSUME Init PROVE ParserInv
  OBVIOUS
<1>1. /\ input \in Texts /\ parser = NewParser(input.type) /\ p = 1 /\ piece = <<1, 0>> /\ marks = {}
      /\ again = FALSE /\ status = "between"
  BY DEF Init
<1>2. Len(input.text) \in Nat /\ input.type \in Types
  BY <1>1, ParserAssumption DEF Types
<1>3. Position
  <2>1. 1 \in 1..(Len(input.text) + 1) /\ 1 \in Int /\ 0 \in 0..Len(input.text)
    BY <1>2
  <2>2. piece \in Int \X (0..Len(input.text))
    BY <1>1, <2>1
  <2>3. p \in 1..(Len(input.text) + 1) /\ again \in BOOLEAN /\ status # "in"
    BY <1>1, <2>1
  <2> QED
    BY <1>1, <2>2, <2>3 DEF Position
<1> DEFINE st == CASE input.type = "HTTP_REQUEST" -> "s_start_req" [] input.type = "HTTP_RESPONSE" -> "s_start_res"
                   [] OTHER -> "s_start_req_or_res"
<1>4. /\ parser = [st |-> st, type |-> input.type, hst |-> "h_general", index |-> 0, flags |-> {}, len |-> 0,
                   nread |-> 0, meth |-> "DELETE", upgrade |-> FALSE, major |-> 0, minor |-> 0, code |-> 0]
  BY <1>1 DEF NewParser
<1>5. st \in LineStates
  BY DEF LineStates
<1> HIDE DEF st
<1>6. st \in States /\ Plain(st)
  BY <1>5, LinePlain, StatesAre DEF LineStates
<1>7. /\ 0 \in 0..UllMax /\ 0 \in 0..(MaxHeader + 1) /\ 0 <= MaxHeader /\ {} \in SUBSET FlagNames
      /\ "h_general" \in HeaderNames /\ "DELETE" \in Methods
  BY ParserAssumption DEF HeaderNames, ValueStates, Methods
<1>8. parser \in Parsers
  BY <1>2, <1>4, <1>6, <1>7 DEF Parsers
<1>9. parser.st = st /\ parser.nread = 0
  BY <1>4
<1>10. Settled(parser) /\ Counting
  BY <1>6, <1>7, <1>9, PlainSettled DEF Counting
<1> QED
  BY <1>1, <1>3, <1>8, <1>10 DEF ParserInv

\* Every step keeps ParserInv, in the states the asserts name and in all others.
LEMMA ParserNext == ParserInv /\ [Next]_vars => ParserInv'
<1> SUFFICES ASSUME ParserInv, [Next]_vars PROVE ParserInv'
  OBVIOUS
<1>1. CASE UNCHANGED vars
  BY <1>1 DEF vars, ParserInv, Position, Settled, Counting, MarksOf
<1>2. CASE Execute \/ EndOfPiece \/ EndOfInput \/ HeaderTooLong
  BY <1>2, ExecuteStep, EndOfPieceStep, EndOfInputStep, HeaderTooLongStep
<1>3. CASE Dead \/ StartReqOrRes \/ ResOrRespH \/ StartRes \/ StartReq \/ ReqMethod
  BY <1>3, DeadStep, StartReqOrResStep, ResOrRespHStep, StartResStep, StartReqStep, ReqMethodStep
<1>4. CASE SpacesBeforeUrl \/ InUrlPrefix \/ InUrl \/ InLiteral \/ Version \/ StatusCode \/ StatusText
  BY <1>4, SpacesBeforeUrlStep, InUrlPrefixStep, InUrlStep, InLiteralStep, VersionStep, StatusCodeStep,
     StatusTextStep
<1>5. CASE InLineFeed \/ HeaderFieldStart \/ HeaderField \/ HeaderValueStart \/ HeaderValue
  BY <1>5, InLineFeedStep, HeaderFieldStartStep, HeaderFieldStep, HeaderValueStartStep, HeaderValueStep
<1>6. CASE HeaderValueLws \/ DiscardLws \/ HeadersAlmostDone \/ HeadersDone
  BY <1>6, HeaderValueLwsStep, DiscardLwsStep, HeadersAlmostDoneStep, HeadersDoneStep
<1>7. CASE BodyIdentity \/ BodyIdentityEof \/ MessageDone
  BY <1>7, BodyIdentityStep, BodyIdentityEofStep, MessageDoneStep
<1>8. CASE ChunkSize \/ ChunkSizeAlmostDone \/ ChunkData \/ ChunkDataAlmostDone \/ ChunkDataDone
  BY <1>8, ChunkSizeStep, ChunkSizeAlmostDoneStep, ChunkDataStep, ChunkDataAlmostDoneStep, ChunkDataDoneStep
<1> QED
  BY <1>1, <1>2, <1>3, <1>4, <1>5, <1>6, <1>7, <1>8 DEF Next

\* Whatever text is given to http_parser_execute, and wherever it is cut, each state of the automaton
\* has the flags, the length, the header and the mark it takes for granted.
THEOREM ParserCorrect == Spec => []ParserInv
BY ParserInit, ParserNext, PTL DEF Spec

\* A set without two members has one at most.
LEMMA OneMark ==
    ASSUME NEW ms, \A m, n \in ms : m = n
    PROVE  Cardinality(ms) <= 1
<1>1. CASE ms = {}
  BY <1>1, FS_EmptySet
<1>2. CASE ms # {}
  <2>1. PICK m \in ms : TRUE
    BY <1>2
  <2>2. ms = {m}
    BY <2>1
  <2>3. Cardinality({m}) = 1
    BY FS_Singleton
  <2> QED
    BY <2>2, <2>3
<1> QED
  BY <1>1, <1>2

\* What the asserts ask is part of the invariant.
LEMMA ParserAsserts == ParserInv => AssertsHold
<1> SUFFICES ASSUME ParserInv PROVE AssertsHold
  OBVIOUS
<1>1. /\ input \in Texts /\ p \in 1..(Len(input.text) + 1) /\ piece \in Int \X (0..Len(input.text))
      /\ parser \in Parsers
  BY DEF ParserInv, Position
<1>2. /\ piece[2] \in 0..Len(input.text) /\ parser.len \in 0..UllMax /\ parser.nread \in 0..(MaxHeader + 1)
      /\ parser.flags \subseteq FlagNames
  BY <1>1 DEF Parsers
<1>3. TypeOK
  BY <1>1, <1>2 DEF TypeOK, ParserInv, FlagNames
<1>4. ASSUME status = "in"
      PROVE  /\ Cardinality(marks) <= 1
             /\ parser.st = "s_chunk_size_start" => Count = 1
             /\ parser.st \in {"s_chunk_size_start", "s_chunk_size", "s_chunk_parameters", "s_chunk_size_almost_done",
                               "s_chunk_data", "s_chunk_data_almost_done", "s_chunk_data_done"}
                  => "F_CHUNKED" \in parser.flags
             /\ parser.st \in {"s_body_identity", "s_chunk_data"} => parser.len \notin {0, UllMax}
             /\ parser.st = "s_chunk_data_almost_done" => parser.len = 0
             /\ parser.st = "s_header_value" => parser.hst \notin {"h_connection", "h_transfer_encoding"}
  <2>1. Settled(parser) /\ Counting /\ MarksOf(marks, parser.st)
    BY <1>4 DEF ParserInv
  <2>2. Cardinality(marks) <= 1
    BY <2>1, OneMark DEF MarksOf
  <2>3. parser.st = "s_chunk_size_start" => Count = 1
    BY <2>1 DEF Counting, Count, Body
  <2>4. parser.st = "s_header_value" => parser.hst \notin {"h_connection", "h_transfer_encoding"}
    BY <2>1 DEF Settled, ValueStates
  <2>5. /\ parser.st \in ChunkStates => "F_CHUNKED" \in parser.flags
        /\ parser.st \in {"s_body_identity", "s_chunk_data"} => parser.len \notin {0, UllMax}
        /\ parser.st = "s_chunk_data_almost_done" => parser.len = 0
    BY <2>1 DEF Settled, Measured
  <2> QED
    BY <2>2, <2>3, <2>4, <2>5 DEF ChunkStates
<1> QED
  BY <1>3, <1>4 DEF AssertsHold

\* The assertions of http_parser_execute hold for every text: no two marks are open, a chunk starts
\* with the counter at one in a chunked message, and a body is read while a length is left.
THEOREM NoTextBreaksIt == Spec => []AssertsHold
BY ParserCorrect, ParserAsserts, PTL

-----------------------------------------------------------------------------
(* The capture                                                             *)

\* The file of POST w starts with its first segment and, unless something was lost on
\* its connection, holds the segments the client has sent of it.
InFile(w) ==
    /\ files[w] # <<>> /\ files[w][1] = <<w[1], w[2], 1>>
    /\ w[1] \notin missed => files[w] = [i \in 1..segments[w] |-> <<w[1], w[2], i>>]

\* A client that waits has sent a POST.
Asked == \A k \in Keys : awaiting[k] => posts[k] >= 1

\* The structure of a session was made for a POST of its connection, and lives.
OwnAttr ==
    \A k \in Keys : LET w == session[k].http IN
        w # None => w[1] = k /\ w[2] <= posts[k] /\ w \notin freed

\* While the answer is awaited, structure and file are those of one POST, which nobody has
\* been given yet; it is the client's last, unless something was lost.
Collecting ==
    \A k \in Keys : session[k].flag = 1 =>
        LET w == session[k].http
        IN  /\ w # None /\ session[k].old_name = w /\ InFile(w)
            /\ k \notin missed => w[2] = posts[k] /\ awaiting[k]

NotYetGiven ==
    \A k \in Keys : session[k].flag = 1 => \A n \in Nodes : n.orgname # session[k].http

\* A structure is freed at a later POST of its connection.
FreedLater == \A w \in freed : w[2] < posts[w[1]]

\* No segment comes to a POST that has been handed on, unless something was lost.
Closed(w) == w[1] \notin missed => w[2] < posts[w[1]] \/ ~awaiting[w[1]]

HandedOn ==
    \A n \in Nodes :
        LET w == n.orgname
        IN  n.attr = w /\ InFile(w) /\ w[2] <= posts[w[1]] /\ Closed(w)

Holding == \A c \in Consumers : cpc[c] # "idle" => hdr[c] # None

CaptureInv ==
    /\ CaptureTypeOK /\ Asked /\ OwnAttr /\ Collecting /\ NotYetGiven /\ FreedLater
    /\ HandedOn /\ HandedOnOnce /\ Holding

-----------------------------------------------------------------------------
(* POSTs, nodes and files *)

\* A POST is named by its connection and its number.
LEMMA PostNames ==
  /\ None \notin Post
  /\ \A w \in Post : w[1] \in Keys /\ w[2] \in 1..MaxPosts /\ w = <<w[1], w[2]>>
  /\ \A k \in Keys, n \in 1..MaxPosts : <<k, n>> \in Post
BY DEF Post, None

\* A node is a record, and no node is not one.
LEMMA NodeTyped ==
  ASSUME CaptureTypeOK
  PROVE  /\ Nodes \subseteq RingNode /\ None \notin RingNode
         /\ \A i \in DOMAIN ring : ring[i] \in RingNode /\ ring[i] \in Nodes
         /\ \A c \in Consumers : hdr[c] # None => hdr[c] \in RingNode /\ hdr[c] \in Nodes
         /\ \A n \in RingNode : n.attr \in Post /\ n.orgname \in Post
         /\ DOMAIN ring = 1..Len(ring) /\ Len(ring) \in Nat
  <1>1. DOMAIN ring = 1..Len(ring) /\ Len(ring) \in Nat
    BY DEF CaptureTypeOK
  <1>2. \A i \in DOMAIN ring : ring[i] \in RingNode
    BY DEF CaptureTypeOK
  <1>3. None \notin RingNode
    BY DEF RingNode, None
  <1>4. \A c \in Consumers : hdr[c] # None => hdr[c] \in RingNode
    BY DEF CaptureTypeOK
  <1>5. \A n \in RingNode : n.attr \in Post /\ n.orgname \in Post
    BY DEF RingNode
  <1>6. /\ \A i \in DOMAIN ring : ring[i] \in Nodes
        /\ \A c \in Consumers : hdr[c] # None => hdr[c] \in Nodes
    BY DEF Nodes
  <1>7. Nodes \subseteq RingNode
    BY <1>2, <1>4 DEF Nodes
  <1> QED
    BY <1>1, <1>2, <1>3, <1>4, <1>5, <1>6, <1>7

\* A file that is not touched is as good as before, if no segment came to its POST.
LEMMA InFileKept ==
  ASSUME NEW w, InFile(w), files'[w] = files[w], missed \subseteq missed',
         w[1] \notin missed' => segments'[w] = segments[w]
  PROVE  InFile(w)'
BY DEF InFile

\* A segment more leaves the first one in its place, and numbered segments stay numbered.
LEMMA FirstKept ==
  ASSUME NEW S, NEW s \in Seq(S), s # <<>>, NEW e \in S
  PROVE  Append(s, e) # <<>> /\ Append(s, e)[1] = s[1]
  <1>1. 1 \in 1..Len(s)
    BY EmptySeq
  <1> QED
    BY <1>1, AppendProperties

\* The segments of a POST so far, with the next one after them.
LEMMA NextSegment ==
  ASSUME NEW a, NEW b, NEW n \in Nat
  PROVE  Append([i \in 1..n |-> <<a, b, i>>], <<a, b, n + 1>>)
             = [i \in 1..(n + 1) |-> <<a, b, i>>]
  <1> DEFINE S == {<<a, b, i>> : i \in Nat}
             s == [i \in 1..n |-> <<a, b, i>>]
             t == [i \in 1..(n + 1) |-> <<a, b, i>>]
             e == <<a, b, n + 1>>
  <1>1. s \in Seq(S) /\ t \in Seq(S) /\ e \in S /\ Len(s) = n /\ Len(t) = n + 1
    OBVIOUS
  <1>2. \A i \in 1..n : s[i] = t[i]
    OBVIOUS
  <1>3. t[n + 1] = e
    OBVIOUS
  <1> HIDE DEF S, s, t, e
  <1>4. /\ Append(s, e) \in Seq(S) /\ Len(Append(s, e)) = n + 1
        /\ \A i \in 1..n : Append(s, e)[i] = s[i]
        /\ Append(s, e)[n + 1] = e
    BY <1>1, AppendProperties
  <1>5. \A i \in 1..(n + 1) : Append(s, e)[i] = t[i]
    BY <1>2, <1>3, <1>4
  <1>6. Append(s, e) = t
    BY <1>1, <1>4, <1>5, SeqEqual
  <1> QED
    BY <1>6 DEF s, t, e

-----------------------------------------------------------------------------
(* Types *)

\* The client's next POST, and the first segment of it.
LEMMA ClientTyped ==
  ASSUME CaptureTypeOK, NEW k \in Keys, ClientPosts(k)
  PROVE  /\ posts[k] + 1 \in 1..MaxPosts /\ <<k, posts[k] + 1>> \in Post
         /\ posts' \in [Keys -> 0..MaxPosts] /\ posts'[k] = posts[k] + 1
         /\ segments' \in [Post -> 0..MaxSegments]
         /\ segments'[<<k, posts[k] + 1>>] = 1
         /\ awaiting' \in [Keys -> BOOLEAN]
  <1>1. posts[k] + 1 \in 1..MaxPosts
    BY CaptureAssumption DEF CaptureTypeOK, ClientPosts
  <1>2. <<k, posts[k] + 1>> \in Post
    BY <1>1, PostNames
  <1>3. 1 \in 0..MaxSegments
    BY CaptureAssumption
  <1> QED
    BY <1>1, <1>2, <1>3 DEF CaptureTypeOK, ClientPosts

Session == [flag : {0, 1}, http : Post \cup {None}, old_name : Post \cup {None}]

\* A session whose flag or file name changes is still one.
LEMMA SessionExcept ==
  ASSUME NEW s \in Session, NEW q \in Post \cup {None}
  PROVE  [s EXCEPT !.old_name = q] \in Session /\ [s EXCEPT !.flag = 0] \in Session
  <1> DEFINE Name == Post \cup {None}
  <1>1. s \in [flag : {0, 1}, http : Name, old_name : Name] /\ q \in Name
    BY DEF Session
  <1> HIDE DEF Name
  <1>2. /\ [s EXCEPT !.old_name = q] \in [flag : {0, 1}, http : Name, old_name : Name]
        /\ [s EXCEPT !.flag = 0] \in [flag : {0, 1}, http : Name, old_name : Name]
    BY <1>1
  <1> QED
    BY <1>2 DEF Session, Name

\* The table keeps its type when one field of one session is written.
LEMMA SessionsExcept ==
  ASSUME CaptureTypeOK, NEW k \in Keys, NEW q \in Post \cup {None},
         \/ session' = [session EXCEPT ![k].old_name = q]
         \/ session' = [session EXCEPT ![k].flag = 0]
         \/ UNCHANGED session
  PROVE  session' \in [Keys -> Session]
  <1>1. session \in [Keys -> Session] /\ session[k] \in Session
    BY DEF CaptureTypeOK, Session
  <1> DEFINE a == [session[k] EXCEPT !.old_name = q]
             b == [session[k] EXCEPT !.flag = 0]
  <1>2. a \in Session /\ b \in Session
    BY <1>1, SessionExcept
  <1>3. \/ session' = [session EXCEPT ![k] = a]
        \/ session' = [session EXCEPT ![k] = b]
        \/ session' = session
    OBVIOUS
  <1> HIDE DEF a, b
  <1> QED
    BY <1>1, <1>2, <1>3

\* A captured POST has a structure and a file of its own.
LEMMA PostCapturedTyped ==
  ASSUME CaptureTypeOK, NEW k \in Keys, PostCaptured(k)
  PROVE  CaptureTypeOK'
  <1> DEFINE w   == <<k, posts[k] + 1>>
             old == session[k].http
  <1>1. w \in Post /\ ClientPosts(k)
    BY ClientTyped DEF PostCaptured
  <1>2. old \in Post \cup {None}
    BY DEF CaptureTypeOK
  <1>3. session' \in [Keys -> Session]
    BY <1>1 DEF CaptureTypeOK, PostCaptured, Session
  <1>4. files' \in [Post -> Seq(Segment)]
    <2>1. <<w[1], w[2], 1>> \in Segment
      BY <1>1, PostNames, CaptureAssumption DEF Segment
    <2>2. <<<<w[1], w[2], 1>>>> \in Seq(Segment)
      BY <2>1
    <2>3. files' = [files EXCEPT ![w] = <<<<w[1], w[2], 1>>>>]
      BY DEF PostCaptured
    <2> HIDE DEF w
    <2> QED
      BY <1>1, <2>2, <2>3 DEF CaptureTypeOK
  <1>5. freed' \in SUBSET Post
    BY <1>2 DEF CaptureTypeOK, PostCaptured
  <1>6. cookie' \in [Post -> {"none", "set", "freed"}]
    BY <1>2 DEF CaptureTypeOK, PostCaptured
  <1>7. UNCHANGED <<ring, hdr, cpc, missed>>
    BY DEF PostCaptured, consVars
  <1> QED
    BY <1>1, <1>3, <1>4, <1>5, <1>6, <1>7, ClientTyped DEF CaptureTypeOK, Session

\* A POST that is not captured changes the session, at most.
LEMMA PostOtherTyped ==
  ASSUME CaptureTypeOK, NEW k \in Keys, PostLost(k) \/ PostIgnored(k)
  PROVE  CaptureTypeOK'
  <1>1. ClientPosts(k) /\ UNCHANGED <<files, cookie, freed, ring, hdr, cpc, missed>>
    BY DEF PostLost, PostIgnored, heapVars, consVars
  <1>2. session' \in [Keys -> Session]
    <2>1. CASE UNCHANGED session
      BY <2>1 DEF CaptureTypeOK, Session
    <2>2. ASSUME NEW q \in Post \cup {None}, session' = [session EXCEPT ![k].old_name = q]
          PROVE  session' \in [Keys -> Session]
      BY <2>2, SessionsExcept
    <2>3. <<k, posts[k] + 1>> \in Post /\ session[k].old_name \in Post \cup {None}
      BY <1>1, ClientTyped DEF CaptureTypeOK
    <2> QED
      BY <2>1, <2>2, <2>3 DEF PostLost, PostIgnored
  <1> QED
    BY <1>1, <1>2, ClientTyped DEF CaptureTypeOK, Session

\* The next segment goes to the file of the POST that collects it, or nowhere.
LEMMA MoreTyped ==
  ASSUME CaptureTypeOK, Asked, Collecting, NEW k \in Keys, MoreData(k)
  PROVE  CaptureTypeOK'
  <1> DEFINE w == <<k, posts[k]>>
             n == segments[w] + 1
  <1>1. w \in Post /\ n \in 1..MaxSegments
    <2>1. posts[k] \in 1..MaxPosts
      BY DEF CaptureTypeOK, Asked, MoreData
    <2>2. w \in Post
      BY <2>1, PostNames
    <2> QED
      BY <2>2, CaptureAssumption DEF CaptureTypeOK, MoreData
  <1>2. segments' = [segments EXCEPT ![w] = n] /\ segments'[w] = n
    BY <1>1 DEF MoreData, CaptureTypeOK
  <1>3. segments' \in [Post -> 0..MaxSegments]
    BY <1>1, <1>2 DEF CaptureTypeOK
  <1>4. <<k, posts[k], n>> \in Segment
    BY <1>1, PostNames DEF Segment
  <1>5. files' \in [Post -> Seq(Segment)]
    <2>1. CASE UNCHANGED files
      BY <2>1 DEF CaptureTypeOK
    <2>2. CASE session[k].flag = 1 /\ files' = [files EXCEPT ![session[k].old_name] =
                                                  Append(@, <<k, posts[k], n>>)]
      <3>1. session[k].old_name \in Post
        BY <2>2 DEF Collecting, CaptureTypeOK
      <3> HIDE DEF n
      <3>2. Append(files[session[k].old_name], <<k, posts[k], n>>) \in Seq(Segment)
        BY <1>4, <3>1 DEF CaptureTypeOK
      <3> QED
        BY <2>2, <3>1, <3>2 DEF CaptureTypeOK
    <2> QED
      BY <1>2, <2>1, <2>2 DEF MoreData
  <1>6. missed' \in SUBSET Keys
    BY DEF CaptureTypeOK, MoreData
  <1>7. UNCHANGED <<posts, awaiting, session, cookie, freed, ring, hdr, cpc>>
    BY DEF MoreData, heapVars, consVars
  <1> QED
    BY <1>3, <1>5, <1>6, <1>7 DEF CaptureTypeOK

\* The four ways an answer ends the wait.
LEMMA ResponseTyped ==
  ASSUME CaptureTypeOK, Collecting, NEW k \in Keys,
         ResponseQueued(k) \/ ResponseLost(k) \/ ResponseMissed(k) \/ ResponseIgnored(k)
  PROVE  CaptureTypeOK'
  <1>1. UNCHANGED <<posts, segments, files, cookie, freed, hdr, cpc>>
    BY DEF ResponseQueued, ResponseLost, ResponseMissed, ResponseIgnored, heapVars, consVars
  <1>2. awaiting' \in [Keys -> BOOLEAN] /\ missed' \in SUBSET Keys
    BY DEF CaptureTypeOK, ResponseQueued, ResponseLost, ResponseMissed, ResponseIgnored
  <1>3. session' \in [Keys -> Session]
    <2>1. UNCHANGED session \/ session' = [session EXCEPT ![k].flag = 0]
      BY DEF ResponseQueued, ResponseLost, ResponseMissed, ResponseIgnored
    <2>2. None \in Post \cup {None}
      OBVIOUS
    <2> QED
      BY <2>1, <2>2, SessionsExcept
  <1>4. ring' \in Seq(RingNode)
    <2>1. CASE ResponseQueued(k)
      <3>1. session[k].flag = 1 /\ session[k].http \in Post /\ session[k].old_name \in Post
        BY <2>1 DEF ResponseQueued, Collecting, CaptureTypeOK
      <3>2. [attr |-> session[k].http, orgname |-> session[k].old_name] \in RingNode
        BY <3>1 DEF RingNode
      <3> QED
        BY <2>1, <3>2 DEF ResponseQueued, CaptureTypeOK
    <2>2. CASE UNCHANGED ring
      BY <2>2 DEF CaptureTypeOK
    <2> QED
      BY <2>1, <2>2 DEF ResponseLost, ResponseMissed, ResponseIgnored
  <1> QED
    BY <1>1, <1>2, <1>3, <1>4 DEF CaptureTypeOK, Session

\* A consumer takes the first node, and has one until it is done.
LEMMA ConsumeTyped ==
  ASSUME CaptureTypeOK, Holding, NEW c \in Consumers, Consume(c)
  PROVE  CaptureTypeOK' /\ Holding'
  <1>1. UNCHANGED <<posts, segments, awaiting, session, files, freed, missed>>
    BY DEF Consume, Take, ParseFile, FreeCookie, ClearCookie, clientVars, heapVars
  <1>2. CASE Take(c)
    <2>1. Head(ring) \in RingNode /\ Tail(ring) \in Seq(RingNode)
      BY <1>2 DEF Take, CaptureTypeOK
    <2>2. None \notin RingNode
      BY NodeTyped
    <2>3. Holding'
      BY <1>2, <2>1, <2>2 DEF Take, CaptureTypeOK, Holding
    <2> QED
      BY <1>1, <1>2, <2>1, <2>3 DEF Take, CaptureTypeOK, heapVars
  <1>3. CASE ParseFile(c) \/ FreeCookie(c)
    <2>1. hdr[c].attr \in Post
      BY <1>3, NodeTyped DEF ParseFile, FreeCookie, Holding
    <2>2. cookie' \in [Post -> {"none", "set", "freed"}]
      BY <1>3, <2>1 DEF ParseFile, FreeCookie, CaptureTypeOK
    <2>3. cpc' \in [Consumers -> {"idle", "parse", "free", "clear"}]
      BY <1>3 DEF ParseFile, FreeCookie, CaptureTypeOK
    <2>4. UNCHANGED <<ring, hdr>>
      BY <1>3 DEF ParseFile, FreeCookie
    <2>5. Holding'
      BY <1>3, <2>4 DEF ParseFile, FreeCookie, Holding, CaptureTypeOK
    <2> QED
      BY <1>1, <2>2, <2>3, <2>4, <2>5 DEF CaptureTypeOK
  <1>4. CASE ClearCookie(c)
    <2>1. hdr[c].attr \in Post
      BY <1>4, NodeTyped DEF ClearCookie, Holding
    <2>2. cookie' \in [Post -> {"none", "set", "freed"}]
      BY <1>4, <2>1 DEF ClearCookie, CaptureTypeOK
    <2>3. Holding'
      BY <1>4 DEF ClearCookie, Holding, CaptureTypeOK
    <2> QED
      BY <1>1, <1>4, <2>2, <2>3 DEF ClearCookie, CaptureTypeOK
  <1> QED
    BY <1>2, <1>3, <1>4 DEF Consume

-----------------------------------------------------------------------------
(* One lemma for each kind of step *)

\* Nothing is captured at first.
LEMMA CaptureInvInit == CaptureInit => CaptureInv
  <1> SUFFICES ASSUME CaptureInit PROVE CaptureInv
    OBVIOUS
  <1>1. CaptureTypeOK
    BY CaptureAssumption DEF CaptureInit, CaptureTypeOK, NoSession
  <1>2. Asked /\ OwnAttr /\ Collecting /\ NotYetGiven /\ FreedLater /\ Holding
    BY DEF CaptureInit, NoSession, Asked, OwnAttr, Collecting, NotYetGiven, FreedLater, Holding
  <1>3. HandedOn /\ HandedOnOnce
    <2>1. Nodes = {} /\ DOMAIN ring = {}
      BY DEF CaptureInit, Nodes
    <2> QED
      BY <2>1 DEF CaptureInit, HandedOn, HandedOnOnce
  <1> QED
    BY <1>1, <1>2, <1>3 DEF CaptureInv

\* What is handed on stays as it is if no step touches its file.
LEMMA HandedOnKept ==
  ASSUME CaptureTypeOK, HandedOn, Nodes' \subseteq Nodes, missed \subseteq missed',
         NEW k \in Keys, posts'[k] \in Nat, posts[k] <= posts'[k],
         \A j \in Keys : j # k => posts'[j] = posts[j] /\ awaiting'[j] = awaiting[j],
         \A n \in Nodes :
             /\ files'[n.orgname] = files[n.orgname]
             /\ n.orgname[1] \notin missed' => segments'[n.orgname] = segments[n.orgname],
         \/ awaiting'[k] = FALSE
         \/ posts'[k] > posts[k]
         \/ awaiting'[k] = awaiting[k]
  PROVE  HandedOn'
  <1> SUFFICES ASSUME NEW n \in Nodes
               PROVE  LET w == n.orgname
                      IN  n.attr = w /\ InFile(w)' /\ w[2] <= posts'[w[1]] /\ Closed(w)'
    BY DEF HandedOn
  <1> DEFINE w == n.orgname
  <1>1. n.attr = w /\ InFile(w) /\ w[2] <= posts[w[1]] /\ Closed(w)
    BY DEF HandedOn
  <1>2. w \in Post /\ w[1] \in Keys /\ w[2] \in Nat /\ posts[w[1]] \in Nat
    BY NodeTyped, PostNames DEF CaptureTypeOK
  <1>3. InFile(w)'
    BY <1>1, InFileKept
  <1>4. w[2] <= posts'[w[1]]
    BY <1>1, <1>2
  <1>5. Closed(w)'
    BY <1>1, <1>2 DEF Closed
  <1> QED
    BY <1>1, <1>3, <1>4, <1>5

\* A new POST is captured: the structure of the one before is freed, and no node has it
\* as its latest.
LEMMA PostCapturedOK ==
  ASSUME CaptureInv, NEW k \in Keys, PostCaptured(k)
  PROVE  CaptureInv'
  <1> DEFINE old == session[k].http
  <1>0. /\ CaptureTypeOK /\ Asked /\ OwnAttr /\ Collecting /\ NotYetGiven /\ FreedLater
        /\ HandedOn /\ HandedOnOnce /\ Holding /\ CaptureTypeOK'
    BY PostCapturedTyped DEF CaptureInv
  <1> PICK w \in Post : w = <<k, posts[k] + 1>>
    BY <1>0, ClientTyped DEF PostCaptured
  <1>1. /\ UNCHANGED <<ring, hdr, cpc, missed>> /\ ClientPosts(k)
        /\ session'[k].flag = 1 /\ session'[k].http = w /\ session'[k].old_name = w
        /\ \A j \in Keys : j # k => session'[j] = session[j]
        /\ files' = [files EXCEPT ![w] = <<<<w[1], w[2], 1>>>>]
        /\ freed' = freed \cup ({old} \ {None})
    BY <1>0 DEF PostCaptured, consVars, CaptureTypeOK
  <1>2. /\ posts'[k] = posts[k] + 1 /\ posts[k] \in Nat
        /\ segments' = [segments EXCEPT ![w] = 1] /\ segments'[w] = 1
        /\ awaiting'[k] = TRUE
        /\ \A j \in Keys : j # k => posts'[j] = posts[j] /\ awaiting'[j] = awaiting[j]
    BY <1>0, <1>1, ClientTyped DEF ClientPosts, CaptureTypeOK
  <1>3. w[1] = k /\ w[2] = posts[k] + 1
    OBVIOUS
  <1>4. \A q \in Post : q # w => files'[q] = files[q] /\ segments'[q] = segments[q]
    BY <1>0, <1>1, <1>2 DEF CaptureTypeOK
  <1>5. old # None => old \in Post /\ old[1] = k /\ old[2] \in Nat /\ old[2] <= posts[k]
    BY <1>0, PostNames DEF OwnAttr, CaptureTypeOK
  <1>6. \A j \in Keys : session[j].http # None => session[j].http \in Post
    BY <1>0 DEF CaptureTypeOK
  <1>7. Nodes' = Nodes
    BY <1>1 DEF Nodes
  <1>8. \A n \in Nodes : n.orgname \in Post /\ n.orgname # w
    <2> TAKE n \in Nodes
    <2>1. n.orgname \in Post /\ n.orgname[2] <= posts[n.orgname[1]] /\ n.orgname[2] \in Nat
      BY <1>0, NodeTyped, PostNames DEF HandedOn
    <2> QED
      BY <1>2, <1>3, <2>1
  <1>9. InFile(w)'
    <2>1. files'[w] = <<<<w[1], w[2], 1>>>>
      BY <1>0, <1>1, <1>2 DEF CaptureTypeOK
    <2>2. <<<<w[1], w[2], 1>>>> = [i \in 1..1 |-> <<w[1], w[2], i>>]
      OBVIOUS
    <2> QED
      BY <1>2, <2>1, <2>2 DEF InFile
  <1>10. Asked'
    BY <1>0, <1>2 DEF Asked
  <1>11. FreedLater'
    <2> SUFFICES ASSUME NEW q \in freed' PROVE q[2] < posts'[q[1]]
      BY DEF FreedLater
    <2>1. CASE q \in freed
      <3>1. q \in Post /\ q[2] < posts[q[1]] /\ q[1] \in Keys /\ q[2] \in Nat
        BY <1>0, <2>1, PostNames DEF FreedLater, CaptureTypeOK
      <3>2. posts[q[1]] \in Nat
        BY <1>0, <3>1 DEF CaptureTypeOK
      <3> QED
        BY <1>2, <3>1, <3>2
    <2>2. CASE q = old /\ old # None
      BY <1>2, <1>5, <2>2
    <2> QED
      BY <1>1, <2>1, <2>2
  <1>12. OwnAttr'
    <2> SUFFICES ASSUME NEW j \in Keys, session'[j].http # None
                 PROVE  LET q == session'[j].http
                        IN  q[1] = j /\ q[2] <= posts'[j] /\ q \notin freed'
      BY DEF OwnAttr
    <2>1. CASE j = k
      <3>1. w \notin freed'
        BY <1>2, <1>3, <1>11 DEF FreedLater
      <3> QED
        BY <1>1, <1>2, <1>3, <2>1, <3>1
    <2>2. CASE j # k
      <3>1. LET q == session[j].http IN q # None /\ q[1] = j /\ q[2] <= posts[j] /\ q \notin freed
        BY <1>0, <1>1, <2>2 DEF OwnAttr
      <3> QED
        BY <1>1, <1>2, <1>5, <2>2, <3>1
    <2> QED
      BY <2>1, <2>2
  <1>13. Collecting'
    <2> SUFFICES ASSUME NEW j \in Keys, session'[j].flag = 1, NEW q, q = session'[j].http
                 PROVE  /\ q # None /\ session'[j].old_name = q /\ InFile(q)'
                        /\ j \notin missed' => q[2] = posts'[j] /\ awaiting'[j]
      BY DEF Collecting
    <2>1. CASE j = k
      BY <1>1, <1>2, <1>3, <1>9, <2>1, PostNames
    <2>2. CASE j # k
      <3>0. q = session[j].http
        BY <1>1, <2>2
      <3>1. /\ q # None /\ session[j].old_name = q /\ InFile(q)
            /\ j \notin missed => q[2] = posts[j] /\ awaiting[j]
        BY <1>0, <1>1, <2>2, <3>0 DEF Collecting
      <3>2. q \in Post /\ q[1] = j
        BY <1>0, <1>6, <3>0, <3>1 DEF OwnAttr
      <3>3. q # w
        BY <1>3, <2>2, <3>2
      <3>4. InFile(q)'
        BY <1>1, <1>4, <3>1, <3>2, <3>3, InFileKept
      <3> QED
        BY <1>1, <1>2, <2>2, <3>1, <3>4
    <2> QED
      BY <2>1, <2>2
  <1>14. NotYetGiven'
    <2> SUFFICES ASSUME NEW j \in Keys, session'[j].flag = 1, NEW n \in Nodes
                 PROVE  n.orgname # session'[j].http
      BY <1>7 DEF NotYetGiven
    <2>1. CASE j = k
      BY <1>1, <1>8, <2>1
    <2>2. CASE j # k
      BY <1>0, <1>1, <2>2 DEF NotYetGiven
    <2> QED
      BY <2>1, <2>2
  <1>15. HandedOn'
    <2>1. /\ Nodes' \subseteq Nodes /\ missed \subseteq missed'
          /\ posts'[k] \in Nat /\ posts[k] <= posts'[k] /\ posts'[k] > posts[k]
      BY <1>1, <1>2, <1>7
    <2>2. \A n \in Nodes :
              /\ files'[n.orgname] = files[n.orgname]
              /\ n.orgname[1] \notin missed' => segments'[n.orgname] = segments[n.orgname]
      BY <1>4, <1>8
    <2> QED
      BY <1>0, <1>2, <2>1, <2>2, HandedOnKept
  <1>16. HandedOnOnce' /\ Holding'
    BY <1>0, <1>1 DEF HandedOnOnce, Holding
  <1> QED
    BY <1>0, <1>10, <1>11, <1>12, <1>13, <1>14, <1>15, <1>16 DEF CaptureInv

\* A POST that is not captured leaves the session as it was, but for the name of the file
\* of an idle one.
LEMMA PostOtherOK ==
  ASSUME CaptureInv, NEW k \in Keys, PostLost(k) \/ PostIgnored(k)
  PROVE  CaptureInv'
  <1>0. /\ CaptureTypeOK /\ Asked /\ OwnAttr /\ Collecting /\ NotYetGiven /\ FreedLater
        /\ HandedOn /\ HandedOnOnce /\ Holding /\ CaptureTypeOK'
    BY PostOtherTyped DEF CaptureInv
  <1>1. ClientPosts(k) /\ UNCHANGED <<files, cookie, freed, ring, hdr, cpc, missed>>
    BY DEF PostLost, PostIgnored, heapVars, consVars
  <1>2. /\ posts'[k] = posts[k] + 1 /\ posts[k] \in Nat /\ ~awaiting[k]
        /\ \A j \in Keys : j # k => posts'[j] = posts[j] /\ awaiting'[j] = awaiting[j]
    BY <1>0, <1>1 DEF ClientPosts, CaptureTypeOK
  <1>3. \A q \in Post : q # <<k, posts[k] + 1>> => segments'[q] = segments[q]
    BY <1>0, <1>1 DEF ClientPosts, CaptureTypeOK
  <1>4. \A j \in Keys : /\ session'[j].http = session[j].http
                        /\ session'[j].flag = session[j].flag
                        /\ session[j].flag = 1 => session'[j].old_name = session[j].old_name
    <2> SUFFICES ASSUME NEW j \in Keys
                 PROVE  /\ session'[j].http = session[j].http
                        /\ session'[j].flag = session[j].flag
                        /\ session[j].flag = 1 => session'[j].old_name = session[j].old_name
      OBVIOUS
    <2>1. CASE session' = session
      BY <2>1
    <2>2. CASE session' # session
      <3>1. PICK q : session' = [session EXCEPT ![k].old_name = q]
        BY <2>2 DEF PostLost, PostIgnored
      <3>2. session[k].flag = 0
        BY <2>2 DEF PostLost, PostIgnored
      <3>3. session \in [Keys -> Session]
        BY <1>0 DEF CaptureTypeOK, Session
      <3> DEFINE a == [session[k] EXCEPT !.old_name = q]
      <3>4. a.http = session[k].http /\ a.flag = session[k].flag
        BY <3>3 DEF Session
      <3>5. session' = [session EXCEPT ![k] = a]
        BY <3>1
      <3> HIDE DEF a
      <3>6. session'[k] = a /\ (j # k => session'[j] = session[j])
        BY <3>3, <3>5
      <3> QED
        BY <3>2, <3>4, <3>6
    <2> QED
      BY <2>1, <2>2
  <1>5. Nodes' = Nodes
    BY <1>1 DEF Nodes
  <1>6. \A j \in Keys : posts[j] \in Nat /\ posts'[j] \in Nat /\ posts[j] <= posts'[j]
    <2>1. \A j \in Keys : posts[j] \in Nat /\ posts'[j] \in Nat
      BY <1>0 DEF CaptureTypeOK
    <2> QED
      BY <1>2, <2>1
  <1>7. Asked' /\ HandedOnOnce' /\ Holding'
    BY <1>0, <1>1, <1>2 DEF Asked, HandedOnOnce, Holding
  <1>8. OwnAttr'
    <2> SUFFICES ASSUME NEW j \in Keys, NEW q, q = session'[j].http, q # None
                 PROVE  q[1] = j /\ q[2] <= posts'[j] /\ q \notin freed'
      BY DEF OwnAttr
    <2>1. q = session[j].http /\ q[1] = j /\ q[2] <= posts[j] /\ q \notin freed /\ q \in Post
      BY <1>0, <1>4 DEF OwnAttr, CaptureTypeOK
    <2> QED
      BY <1>1, <1>6, <2>1, PostNames
  <1>9. FreedLater'
    <2> SUFFICES ASSUME NEW q \in freed PROVE q[2] < posts'[q[1]]
      BY <1>1 DEF FreedLater
    <2>1. q \in Post /\ q[2] < posts[q[1]]
      BY <1>0 DEF FreedLater, CaptureTypeOK
    <2> QED
      BY <1>6, <2>1, PostNames
  <1>10. NotYetGiven'
    BY <1>0, <1>4, <1>5 DEF NotYetGiven
  <1>11. \A q \in Post : q[2] <= posts[q[1]] => segments'[q] = segments[q]
    <2> SUFFICES ASSUME NEW q \in Post, q[2] <= posts[q[1]] PROVE segments'[q] = segments[q]
      OBVIOUS
    <2>1. q # <<k, posts[k] + 1>>
      BY <1>2
    <2> QED
      BY <1>3, <2>1
  <1>12. Collecting'
    <2> SUFFICES ASSUME NEW j \in Keys, session'[j].flag = 1, NEW q, q = session'[j].http
                 PROVE  /\ q # None /\ session'[j].old_name = q /\ InFile(q)'
                        /\ j \notin missed' => q[2] = posts'[j] /\ awaiting'[j]
      BY DEF Collecting
    <2>1. /\ q = session[j].http /\ session[j].flag = 1 /\ q # None
          /\ session'[j].old_name = q /\ InFile(q) /\ (j \notin missed => q[2] = posts[j] /\ awaiting[j])
      BY <1>0, <1>4 DEF Collecting
    <2>2. q \in Post /\ q[1] = j /\ q[2] <= posts[j]
      BY <1>0, <2>1 DEF OwnAttr, CaptureTypeOK
    <2>3. InFile(q)'
      BY <1>1, <1>11, <2>1, <2>2, InFileKept
    <2>4. CASE j = k
      BY <1>1, <1>2, <2>1, <2>3, <2>4
    <2>5. CASE j # k
      BY <1>1, <1>2, <2>1, <2>3, <2>5
    <2> QED
      BY <2>1, <2>3, <2>4, <2>5
  <1>13. HandedOn'
    <2>1. \A n \in Nodes :
              /\ files'[n.orgname] = files[n.orgname]
              /\ n.orgname[1] \notin missed' => segments'[n.orgname] = segments[n.orgname]
      BY <1>0, <1>1, <1>11, NodeTyped DEF HandedOn
    <2>2. /\ Nodes' \subseteq Nodes /\ missed \subseteq missed'
          /\ posts'[k] \in Nat /\ posts[k] <= posts'[k] /\ posts'[k] > posts[k]
      BY <1>1, <1>2, <1>5, <1>6
    <2> QED
      BY <1>0, <1>2, <2>1, <2>2, HandedOnKept
  <1> QED
    BY <1>0, <1>7, <1>8, <1>9, <1>10, <1>12, <1>13 DEF CaptureInv

\* A further segment goes to the file of the POST that is being collected, and to no other.
LEMMA MoreOK ==
  ASSUME CaptureInv, NEW k \in Keys, MoreData(k)
  PROVE  CaptureInv'
  <1>0. /\ CaptureTypeOK /\ Asked /\ OwnAttr /\ Collecting /\ NotYetGiven /\ FreedLater
        /\ HandedOn /\ HandedOnOnce /\ Holding /\ CaptureTypeOK'
    BY MoreTyped DEF CaptureInv
  <1>1. UNCHANGED <<posts, awaiting, session, freed, cookie, ring, hdr, cpc>> /\ awaiting[k]
    BY DEF MoreData, heapVars, consVars
  <1> PICK w \in Post : w = <<k, posts[k]>>
    BY <1>0, PostNames DEF MoreData, Asked, CaptureTypeOK
  <1> PICK n \in Nat : n = segments[w] + 1
    BY <1>0 DEF CaptureTypeOK
  <1>2. segments' = [segments EXCEPT ![w] = n] /\ segments'[w] = n
    BY <1>0 DEF MoreData, CaptureTypeOK
  <1>3. \A q \in Post : q # w => segments'[q] = segments[q]
    BY <1>0, <1>2 DEF CaptureTypeOK
  <1>4. \/ session[k].flag = 1 /\ UNCHANGED missed
           /\ files' = [files EXCEPT ![session[k].old_name] = Append(@, <<k, posts[k], n>>)]
        \/ session[k].flag = 0 /\ UNCHANGED <<files, missed>>
        \/ missed' = missed \cup {k} /\ UNCHANGED files
    BY <1>2 DEF MoreData
  <1>5. missed \subseteq missed' /\ Nodes' = Nodes
    BY <1>1, <1>4 DEF Nodes
  <1>6. Asked' /\ OwnAttr' /\ NotYetGiven' /\ FreedLater' /\ HandedOnOnce' /\ Holding'
    BY <1>0, <1>1, <1>5 DEF Asked, OwnAttr, NotYetGiven, FreedLater, HandedOnOnce, Holding
  <1>7. \A q \in Post : (session[k].flag = 1 => q # session[k].old_name) => files'[q] = files[q]
    BY <1>0, <1>4 DEF CaptureTypeOK
  <1>8. n \in 1..MaxSegments
    BY <1>0, CaptureAssumption DEF MoreData, CaptureTypeOK
  <1>9. Collecting'
    <2> SUFFICES ASSUME NEW j \in Keys, session[j].flag = 1, NEW q, q = session[j].http
                 PROVE  /\ q # None /\ session[j].old_name = q /\ InFile(q)'
                        /\ j \notin missed' => q[2] = posts[j] /\ awaiting[j]
      BY <1>1 DEF Collecting
    <2>1. /\ q # None /\ session[j].old_name = q /\ InFile(q)
          /\ j \notin missed => q[2] = posts[j] /\ awaiting[j]
      BY <1>0 DEF Collecting
    <2>2. q \in Post /\ q[1] = j
      BY <1>0, <2>1 DEF OwnAttr, CaptureTypeOK
    <2>3. InFile(q)'
      <3>1. CASE j # k
        <4>1. session[k].flag = 1 => session[k].old_name[1] = k
          BY <1>0 DEF Collecting, OwnAttr
        <4>2. q # w /\ (session[k].flag = 1 => q # session[k].old_name)
          BY <2>2, <3>1, <4>1
        <4> QED
          BY <1>3, <1>5, <1>7, <2>1, <2>2, <4>2, InFileKept
      <3> DEFINE e == <<k, posts[k], n>>
      <3>2. files[q] \in Seq(Segment) /\ files[q] # <<>> /\ files[q][1] = <<q[1], q[2], 1>>
        BY <1>0, <2>1, <2>2 DEF InFile, CaptureTypeOK
      <3>3. e \in Segment
        BY <1>0, <1>8, PostNames DEF Segment
      <3>4. CASE j = k /\ k \in missed' /\ UNCHANGED files
        BY <2>2, <3>2, <3>4 DEF InFile
      <3>5. CASE j = k /\ missed' = missed /\ files' = [files EXCEPT ![q] = Append(@, e)]
        <4>1. files'[q] = Append(files[q], e)
          BY <1>0, <2>2, <3>5 DEF CaptureTypeOK
        <4> HIDE DEF e
        <4>2. files'[q] # <<>> /\ files'[q][1] = <<q[1], q[2], 1>>
          BY <3>2, <3>3, <4>1, FirstKept
        <4>3. ASSUME k \notin missed PROVE files'[q] = [i \in 1..segments'[q] |-> <<q[1], q[2], i>>]
          <5>1. q = w /\ q[1] = k /\ q[2] = posts[k]
            BY <2>1, <2>2, <3>5, <4>3, PostNames
          <5>2. files[q] = [i \in 1..segments[q] |-> <<q[1], q[2], i>>]
            BY <2>1, <4>3, <5>1 DEF InFile
          <5>3. segments[q] \in Nat /\ n = segments[q] + 1 /\ segments'[q] = segments[q] + 1
            BY <1>0, <1>2, <5>1 DEF CaptureTypeOK
          <5>4. e = <<q[1], q[2], segments[q] + 1>>
            BY <5>1, <5>3 DEF e
          <5>5. Append([i \in 1..segments[q] |-> <<q[1], q[2], i>>], <<q[1], q[2], segments[q] + 1>>)
                    = [i \in 1..(segments[q] + 1) |-> <<q[1], q[2], i>>]
            BY <5>3, NextSegment, SMTT(60)
          <5> QED
            BY <4>1, <5>2, <5>3, <5>4, <5>5
        <4> QED
          BY <2>2, <3>5, <4>2, <4>3 DEF InFile
      <3>6. CASE j = k
        <4>1. session[k].flag = 1 /\ session[k].old_name = q /\ session[k].flag # 0
          BY <2>1, <3>6
        <4>2. CASE missed' = missed \cup {k} /\ UNCHANGED files
          BY <3>4, <3>6, <4>2
        <4>3. CASE /\ UNCHANGED missed
                   /\ files' = [files EXCEPT ![session[k].old_name] = Append(@, e)]
          BY <3>5, <3>6, <4>1, <4>3
        <4> QED
          BY <1>4, <4>1, <4>2, <4>3
      <3> QED
        BY <3>1, <3>4, <3>6
    <2> QED
      BY <1>5, <2>1, <2>3
  <1>10. HandedOn'
    <2>1. ASSUME NEW m \in Nodes, NEW q, q = m.orgname
          PROVE  files'[q] = files[q] /\ (q[1] \notin missed' => segments'[q] = segments[q])
      <3>1. q \in Post /\ Closed(q)
        BY <1>0, <2>1, NodeTyped DEF HandedOn
      <3>2. session[k].flag = 1 => q # session[k].old_name
        BY <1>0, <2>1 DEF NotYetGiven, Collecting
      <3>3. q = w => k \in missed
        <4> SUFFICES ASSUME q = w PROVE k \in missed
          OBVIOUS
        <4>1. q[1] = k /\ q[2] = posts[k] /\ posts[k] \in Nat
          BY <1>0 DEF CaptureTypeOK
        <4> QED
          BY <1>1, <3>1, <4>1 DEF Closed
      <3> QED
        BY <1>3, <1>5, <1>7, <3>1, <3>2, <3>3
    <2>2. \A m \in Nodes :
              /\ files'[m.orgname] = files[m.orgname]
              /\ m.orgname[1] \notin missed' => segments'[m.orgname] = segments[m.orgname]
      BY <2>1
    <2>3. posts'[k] \in Nat /\ posts[k] <= posts'[k] /\ awaiting'[k] = awaiting[k]
      BY <1>0, <1>1 DEF CaptureTypeOK
    <2> QED
      BY <1>0, <1>1, <1>5, <2>2, <2>3, HandedOnKept
  <1> QED
    BY <1>0, <1>6, <1>9, <1>10 DEF CaptureInv

\* When the flag of a session goes down, nothing else changes in any session.
LEMMA SessionClosed ==
  ASSUME CaptureTypeOK, NEW k \in Keys, session' = [session EXCEPT ![k].flag = 0]
  PROVE  \A j \in Keys : /\ session'[j].http = session[j].http
                         /\ session'[j].old_name = session[j].old_name
                         /\ session'[j].flag = 1 => j # k /\ session[j].flag = 1
  <1> SUFFICES ASSUME NEW j \in Keys
               PROVE  /\ session'[j].http = session[j].http
                      /\ session'[j].old_name = session[j].old_name
                      /\ session'[j].flag = 1 => j # k /\ session[j].flag = 1
    OBVIOUS
  <1>1. session \in [Keys -> Session]
    BY DEF CaptureTypeOK, Session
  <1> PICK a : a = [session[k] EXCEPT !.flag = 0]
    OBVIOUS
  <1>2. a.http = session[k].http /\ a.old_name = session[k].old_name /\ a.flag = 0
    BY <1>1 DEF Session
  <1>3. session' = [session EXCEPT ![k] = a]
    OBVIOUS
  <1>4. session'[k] = a /\ (j # k => session'[j] = session[j])
    BY <1>1, <1>3
  <1>5. CASE j = k
    <2>1. session'[j] = a /\ session'[j].flag = 0
      BY <1>2, <1>4, <1>5
    <2>2. \A x : x = 0 => x # 1
      OBVIOUS
    <2> QED
      BY <1>2, <1>5, <2>1, <2>2
  <1>6. CASE j # k
    BY <1>4, <1>6
  <1> QED
    BY <1>5, <1>6

\* The answer: what was collected is handed on, and the client's POST is closed.
LEMMA ResponseQueuedOK ==
  ASSUME CaptureInv, NEW k \in Keys, ResponseQueued(k)
  PROVE  CaptureInv'
  <1>0. /\ CaptureTypeOK /\ Asked /\ OwnAttr /\ Collecting /\ NotYetGiven /\ FreedLater
        /\ HandedOn /\ HandedOnOnce /\ Holding /\ CaptureTypeOK'
    BY ResponseTyped DEF CaptureInv
  <1>1. /\ UNCHANGED <<posts, segments, files, cookie, freed, hdr, cpc, missed>>
        /\ awaiting' = [awaiting EXCEPT ![k] = FALSE] /\ session[k].flag = 1
        /\ session' = [session EXCEPT ![k].flag = 0]
    BY DEF ResponseQueued, heapVars, consVars
  <1> PICK w \in Post : w = session[k].http /\ w = session[k].old_name
    BY <1>0, <1>1 DEF Collecting, CaptureTypeOK
  <1> PICK m \in RingNode : m = [attr |-> w, orgname |-> w]
    BY DEF RingNode
  <1>2. ring' = Append(ring, m)
    BY DEF ResponseQueued
  <1> DEFINE z == Len(ring) + 1
  <1>3. /\ ring \in Seq(RingNode) /\ Len(ring) \in Nat
        /\ DOMAIN ring = 1..Len(ring) /\ DOMAIN ring' = 1..z
        /\ ring'[z] = m /\ \A i \in 1..Len(ring) : ring'[i] = ring[i]
    BY <1>0, <1>2 DEF CaptureTypeOK
  <1>4. Nodes' = Nodes \cup {m}
    <2>1. {ring'[i] : i \in DOMAIN ring'} = {ring[i] : i \in DOMAIN ring} \cup {m}
      BY <1>3
    <2>2. None \notin RingNode
      BY <1>0, NodeTyped
    <2> QED
      BY <1>1, <2>1, <2>2 DEF Nodes
  <1>5. w[1] = k /\ w[2] <= posts[k] /\ InFile(w) /\ \A n \in Nodes : n.orgname # w
    BY <1>0, <1>1, PostNames DEF OwnAttr, Collecting, NotYetGiven
  <1>6. awaiting'[k] = FALSE /\ \A j \in Keys : j # k => awaiting'[j] = awaiting[j]
    BY <1>0, <1>1 DEF CaptureTypeOK
  <1>7. \A j \in Keys : /\ session'[j].http = session[j].http
                        /\ session'[j].old_name = session[j].old_name
                        /\ session'[j].flag = 1 => j # k /\ session[j].flag = 1
    BY <1>0, <1>1, SessionClosed
  <1>8. Asked' /\ OwnAttr' /\ FreedLater' /\ Holding'
    BY <1>0, <1>1, <1>6, <1>7 DEF Asked, OwnAttr, FreedLater, Holding
  <1>9. Collecting'
    <2> SUFFICES ASSUME NEW j \in Keys, session'[j].flag = 1, NEW q, q = session'[j].http
                 PROVE  /\ q # None /\ session'[j].old_name = q /\ InFile(q)'
                        /\ j \notin missed' => q[2] = posts'[j] /\ awaiting'[j]
      BY DEF Collecting
    <2>1. /\ q # None /\ session[j].old_name = q /\ InFile(q)
          /\ j \notin missed => q[2] = posts[j] /\ awaiting[j]
      BY <1>0, <1>7 DEF Collecting
    <2>2. InFile(q)'
      BY <1>1, <2>1, InFileKept
    <2> QED
      BY <1>1, <1>6, <1>7, <2>1, <2>2
  <1>10. NotYetGiven'
    <2> SUFFICES ASSUME NEW j \in Keys, session'[j].flag = 1, NEW n \in Nodes \cup {m}
                 PROVE  n.orgname # session[j].http
      BY <1>4, <1>7 DEF NotYetGiven
    <2>1. CASE n = m
      <3>1. session[j].http # None /\ session[j].http[1] = j /\ j # k
        BY <1>0, <1>7 DEF Collecting, OwnAttr
      <3> QED
        BY <1>5, <2>1, <3>1
    <2>2. CASE n \in Nodes
      BY <1>0, <1>7, <2>2 DEF NotYetGiven
    <2> QED
      BY <2>1, <2>2
  <1>11. HandedOn'
    <2> SUFFICES ASSUME NEW n \in Nodes \cup {m}, NEW q, q = n.orgname
                 PROVE  n.attr = q /\ InFile(q)' /\ q[2] <= posts[q[1]] /\ Closed(q)'
      BY <1>1, <1>4 DEF HandedOn
    <2>1. n.attr = q /\ InFile(q) /\ q[2] <= posts[q[1]] /\ q[1] \in Keys
      <3>1. CASE n = m
        BY <1>5, <3>1
      <3>2. CASE n \in Nodes
        BY <1>0, <3>2, NodeTyped, PostNames DEF HandedOn
      <3> QED
        BY <3>1, <3>2
    <2>2. InFile(q)'
      BY <1>1, <2>1, InFileKept
    <2>3. Closed(q)'
      <3>1. CASE n = m
        BY <1>5, <1>6, <3>1 DEF Closed
      <3>2. CASE n \in Nodes
        <4>1. Closed(q)
          BY <1>0, <3>2 DEF HandedOn
        <4> QED
          BY <1>1, <1>6, <2>1, <4>1 DEF Closed
      <3> QED
        BY <3>1, <3>2
    <2> QED
      BY <2>1, <2>2, <2>3
  <1>12. HandedOnOnce'
    <2>1. \A i \in 1..Len(ring) : ring[i].orgname # m.orgname
      BY <1>0, <1>3, <1>5, NodeTyped
    <2>2. \A i, j \in 1..z : ring'[i].orgname = ring'[j].orgname => i = j
      <3> SUFFICES ASSUME NEW i \in 1..z, NEW j \in 1..z,
                          ring'[i].orgname = ring'[j].orgname
                   PROVE  i = j
        OBVIOUS
      <3>1. CASE i \in 1..Len(ring) /\ j \in 1..Len(ring)
        BY <1>0, <1>3, <3>1 DEF HandedOnOnce
      <3>2. CASE i = z /\ j \in 1..Len(ring)
        BY <1>3, <2>1, <3>2
      <3>3. CASE j = z /\ i \in 1..Len(ring)
        BY <1>3, <2>1, <3>3
      <3> QED
        BY <1>3, <3>1, <3>2, <3>3
    <2>3. \A c \in Consumers : hdr[c] # m
      BY <1>0, <1>5, NodeTyped
    <2>4. \A i \in 1..z, c \in Consumers : hdr[c] # ring'[i]
      <3> SUFFICES ASSUME NEW i \in 1..z, NEW c \in Consumers PROVE hdr[c] # ring'[i]
        OBVIOUS
      <3>1. CASE i \in 1..Len(ring)
        BY <1>0, <1>3, <3>1 DEF HandedOnOnce
      <3>2. CASE i = z
        BY <1>3, <2>3, <3>2
      <3> QED
        BY <1>3, <3>1, <3>2
    <2> QED
      BY <1>0, <1>1, <1>3, <2>2, <2>4 DEF HandedOnOnce
  <1> QED
    BY <1>0, <1>8, <1>9, <1>10, <1>11, <1>12 DEF CaptureInv

\* An answer that hands nothing on: it was not awaited, could not be queued, or was not seen.
LEMMA ResponseElseOK ==
  ASSUME CaptureInv, NEW k \in Keys,
         ResponseLost(k) \/ ResponseMissed(k) \/ ResponseIgnored(k)
  PROVE  CaptureInv'
  <1>0. /\ CaptureTypeOK /\ Asked /\ OwnAttr /\ Collecting /\ NotYetGiven /\ FreedLater
        /\ HandedOn /\ HandedOnOnce /\ Holding /\ CaptureTypeOK'
    BY ResponseTyped DEF CaptureInv
  <1>1. /\ UNCHANGED <<posts, segments, files, cookie, freed, ring, hdr, cpc>>
        /\ awaiting' = [awaiting EXCEPT ![k] = FALSE] /\ missed \subseteq missed'
    BY DEF ResponseLost, ResponseMissed, ResponseIgnored, heapVars, consVars
  <1>2. Nodes' = Nodes
    BY <1>1 DEF Nodes
  <1>3. awaiting'[k] = FALSE /\ \A j \in Keys : j # k => awaiting'[j] = awaiting[j]
    BY <1>0, <1>1 DEF CaptureTypeOK
  <1>4. \A j \in Keys : /\ session'[j].http = session[j].http
                        /\ session'[j].old_name = session[j].old_name
                        /\ session'[j].flag = 1 =>
                               session[j].flag = 1 /\ (j # k \/ k \in missed')
    <2>1. CASE session' = [session EXCEPT ![k].flag = 0]
      BY <1>0, <2>1, SessionClosed
    <2>2. CASE UNCHANGED session
      <3>1. session[k].flag = 1 => k \in missed'
        <4>1. \A x : x = 0 => x # 1
          OBVIOUS
        <4> QED
          BY <4>1 DEF ResponseLost, ResponseMissed, ResponseIgnored
      <3> QED
        BY <2>2, <3>1
    <2> QED
      BY <2>1, <2>2 DEF ResponseLost, ResponseMissed, ResponseIgnored
  <1>5. Asked' /\ OwnAttr' /\ FreedLater' /\ HandedOnOnce' /\ Holding'
    BY <1>0, <1>1, <1>3, <1>4 DEF Asked, OwnAttr, FreedLater, HandedOnOnce, Holding
  <1>6. Collecting'
    <2> SUFFICES ASSUME NEW j \in Keys, session'[j].flag = 1, NEW q, q = session'[j].http
                 PROVE  /\ q # None /\ session'[j].old_name = q /\ InFile(q)'
                        /\ j \notin missed' => q[2] = posts'[j] /\ awaiting'[j]
      BY DEF Collecting
    <2>1. /\ q # None /\ session[j].old_name = q /\ InFile(q)
          /\ j \notin missed => q[2] = posts[j] /\ awaiting[j]
      BY <1>0, <1>4 DEF Collecting
    <2>2. InFile(q)'
      BY <1>1, <2>1, InFileKept
    <2> QED
      BY <1>1, <1>3, <1>4, <2>1, <2>2
  <1>7. NotYetGiven'
    BY <1>0, <1>2, <1>4 DEF NotYetGiven
  <1>8. HandedOn'
    <2>1. \A n \in Nodes :
              /\ files'[n.orgname] = files[n.orgname]
              /\ n.orgname[1] \notin missed' => segments'[n.orgname] = segments[n.orgname]
      BY <1>1
    <2>2. posts'[k] \in Nat /\ posts[k] <= posts'[k]
      BY <1>0, <1>1 DEF CaptureTypeOK
    <2> QED
      BY <1>0, <1>1, <1>2, <1>3, <2>1, <2>2, HandedOnKept
  <1> QED
    BY <1>0, <1>5, <1>6, <1>7, <1>8 DEF CaptureInv

\* A consumer moves a node from the ring into its hands, once; when it is done the node
\* is gone.
LEMMA ConsumeOK ==
  ASSUME CaptureInv, NEW c \in Consumers, Consume(c)
  PROVE  CaptureInv'
  <1>0. /\ CaptureTypeOK /\ Asked /\ OwnAttr /\ Collecting /\ NotYetGiven /\ FreedLater
        /\ HandedOn /\ HandedOnOnce /\ Holding /\ CaptureTypeOK' /\ Holding'
    BY ConsumeTyped DEF CaptureInv
  <1>1. UNCHANGED <<posts, segments, awaiting, session, files, freed, missed>>
    BY DEF Consume, Take, ParseFile, FreeCookie, ClearCookie, clientVars, heapVars
  <1>2. Nodes' \subseteq Nodes /\ HandedOnOnce'
    <2>1. CASE Take(c)
      <3> DEFINE z == Len(ring)
      <3>1. /\ ring # <<>> /\ ring' = Tail(ring) /\ hdr' = [hdr EXCEPT ![c] = Head(ring)]
            /\ ring \in Seq(RingNode) /\ z \in Nat /\ DOMAIN ring = 1..z
        BY <1>0, <2>1 DEF Take, CaptureTypeOK
      <3>2. /\ DOMAIN ring' = 1..(z - 1) /\ \A i \in 1..(z - 1) : ring'[i] = ring[i + 1]
            /\ z >= 1 /\ Head(ring) = ring[1]
        BY <3>1, HeadTailProperties, EmptySeq
      <3>3. hdr'[c] = ring[1] /\ \A d \in Consumers : d # c => hdr'[d] = hdr[d]
        BY <1>0, <3>1, <3>2 DEF CaptureTypeOK
      <3>4. \A i \in 1..(z - 1) : i + 1 \in 1..z /\ i + 1 # 1
        BY <3>1
      <3>5. 1 \in 1..z
        BY <3>1, <3>2
      <3>6. Nodes' \subseteq Nodes
        <4> SUFFICES ASSUME NEW n \in Nodes' PROVE n \in Nodes
          OBVIOUS
        <4>1. CASE \E i \in 1..(z - 1) : n = ring'[i]
          BY <3>1, <3>2, <3>4, <4>1 DEF Nodes
        <4>2. CASE n # None /\ \E d \in Consumers : n = hdr'[d]
          BY <3>1, <3>3, <3>5, <4>2 DEF Nodes
        <4> QED
          BY <3>2, <4>1, <4>2 DEF Nodes
      <3>7. /\ \A i, j \in 1..z : ring[i].orgname = ring[j].orgname => i = j
            /\ \A i \in 1..z, d \in Consumers : hdr[d] # ring[i]
            /\ \A d, e \in Consumers : hdr[d] = hdr[e] /\ hdr[d] # None => d = e
        BY <1>0, <3>1 DEF HandedOnOnce
      <3>8. \A i, j \in 1..(z - 1) : ring'[i].orgname = ring'[j].orgname => i = j
        BY <3>1, <3>2, <3>4, <3>7
      <3>9. \A i \in 1..(z - 1), d \in Consumers : hdr'[d] # ring'[i]
        BY <3>2, <3>3, <3>4, <3>5, <3>7
      <3>10. \A d, e \in Consumers : hdr'[d] = hdr'[e] /\ hdr'[d] # None => d = e
        BY <3>3, <3>5, <3>7
      <3> QED
        BY <3>2, <3>6, <3>8, <3>9, <3>10 DEF HandedOnOnce
    <2>2. CASE ParseFile(c) \/ FreeCookie(c)
      <3>1. UNCHANGED <<ring, hdr>>
        BY <2>2 DEF ParseFile, FreeCookie
      <3> QED
        BY <1>0, <3>1 DEF Nodes, HandedOnOnce
    <2>3. CASE ClearCookie(c)
      <3>1. UNCHANGED ring /\ hdr'[c] = None /\ \A d \in Consumers : d # c => hdr'[d] = hdr[d]
        BY <1>0, <2>3 DEF ClearCookie, CaptureTypeOK
      <3>2. \A i \in DOMAIN ring : ring[i] # None
        BY <1>0, NodeTyped
      <3> QED
        BY <1>0, <3>1, <3>2 DEF Nodes, HandedOnOnce
    <2> QED
      BY <2>1, <2>2, <2>3 DEF Consume
  <1>3. Asked' /\ OwnAttr' /\ FreedLater' /\ NotYetGiven'
    BY <1>0, <1>1, <1>2 DEF Asked, OwnAttr, FreedLater, NotYetGiven
  <1>4. \A q : InFile(q) => InFile(q)'
    BY <1>1 DEF InFile
  <1>5. Collecting'
    <2> SUFFICES ASSUME NEW j \in Keys, session[j].flag = 1, NEW q, q = session[j].http
                 PROVE  /\ q # None /\ session[j].old_name = q /\ InFile(q)'
                        /\ j \notin missed => q[2] = posts[j] /\ awaiting[j]
      BY <1>1 DEF Collecting
    <2> QED
      BY <1>0, <1>4 DEF Collecting
  <1>6. HandedOn'
    <2> SUFFICES ASSUME NEW n \in Nodes, NEW q, q = n.orgname
                 PROVE  n.attr = q /\ InFile(q)' /\ q[2] <= posts[q[1]] /\ Closed(q)'
      BY <1>1, <1>2 DEF HandedOn
    <2> QED
      BY <1>0, <1>1, <1>4 DEF HandedOn, Closed
  <1> QED
    BY <1>0, <1>2, <1>3, <1>5, <1>6 DEF CaptureInv

\* Every step of the capture and of the consumers keeps CaptureInv.
LEMMA CaptureInvNext == CaptureInv /\ [CaptureNext]_captureVars => CaptureInv'
  <1> SUFFICES ASSUME CaptureInv, [CaptureNext]_captureVars PROVE CaptureInv'
    OBVIOUS
  <1>1. CASE UNCHANGED captureVars
    <2>1. UNCHANGED <<posts, segments, awaiting, session, files, cookie, freed, ring, hdr,
                      cpc, missed>>
      BY <1>1 DEF captureVars, clientVars, heapVars, consVars
    <2>2. CaptureTypeOK' /\ Asked' /\ OwnAttr' /\ FreedLater' /\ HandedOnOnce' /\ Holding'
      BY <2>1 DEF CaptureInv, CaptureTypeOK, Asked, OwnAttr, FreedLater, HandedOnOnce, Holding
    <2>3. Nodes' = Nodes /\ \A q : (InFile(q) => InFile(q)') /\ (Closed(q) => Closed(q)')
      BY <2>1 DEF Nodes, InFile, Closed
    <2>4. NotYetGiven'
      BY <2>1, <2>3 DEF CaptureInv, NotYetGiven
    <2>5. Collecting'
      <3> SUFFICES ASSUME NEW j \in Keys, session[j].flag = 1, NEW q, q = session[j].http
                   PROVE  /\ q # None /\ session[j].old_name = q /\ InFile(q)'
                          /\ j \notin missed => q[2] = posts[j] /\ awaiting[j]
        BY <2>1 DEF Collecting
      <3> QED
        BY <2>3 DEF CaptureInv, Collecting
    <2>6. HandedOn'
      <3> SUFFICES ASSUME NEW n \in Nodes, NEW q, q = n.orgname
                   PROVE  n.attr = q /\ InFile(q)' /\ q[2] <= posts[q[1]] /\ Closed(q)'
        BY <2>1, <2>3 DEF HandedOn
      <3> QED
        BY <2>3 DEF CaptureInv, HandedOn
    <2> QED
      BY <2>2, <2>4, <2>5, <2>6 DEF CaptureInv
  <1>2. ASSUME NEW k \in Keys, DoHttpFile(k) PROVE CaptureInv'
    BY <1>1, <1>2, PostCapturedOK, PostOtherOK, MoreOK, ResponseQueuedOK, ResponseElseOK
       DEF DoHttpFile, InterimResponse
  <1>3. ASSUME NEW c \in Consumers, Consume(c) PROVE CaptureInv'
    BY <1>3, ConsumeOK
  <1> QED
    BY <1>1, <1>2, <1>3 DEF CaptureNext

-----------------------------------------------------------------------------
(* What follows for every behaviour *)

\* Whatever the clients send and whatever is lost, a node handed on has one POST,
\* its own attributes and its own file, and a session that collects has not handed on: the
\* strengthening from which NodeIsOnePost and AttrOutlivesItsPost follow.
THEOREM CaptureCorrect == CaptureSpec => []CaptureInv
BY CaptureInvInit, CaptureInvNext, PTL DEF CaptureSpec

\* Whatever a consumer is given is one POST: structure and file were made for the same one,
\* the file starts with its first segment and, unless something was lost on the
\* connection, holds all its segments in order and nothing else; and it is given once.
THEOREM NodesAreOnePost == CaptureSpec => []NodeIsOnePost
  <1>1. CaptureInv => NodeIsOnePost
    <2> SUFFICES ASSUME CaptureInv, NEW n \in Nodes
                 PROVE  LET w == n.orgname IN n.attr = w /\ InFile(w)
      BY DEF CaptureInv, NodeIsOnePost, InFile
    <2> QED
      BY DEF CaptureInv, HandedOn
  <1> QED
    BY <1>1, CaptureCorrect, PTL

\* The structure a session points to is never one that was freed, and a node on its way
\* points to a freed one only after a later POST of its connection.
THEOREM AttrLives == CaptureSpec => []AttrOutlivesItsPost
  <1>1. CaptureInv => AttrOutlivesItsPost
    <2> SUFFICES ASSUME CaptureInv PROVE AttrOutlivesItsPost
      OBVIOUS
    <2>1. ASSUME NEW k \in Keys PROVE session[k].http \notin freed
      BY PostNames DEF CaptureInv, OwnAttr, CaptureTypeOK
    <2>2. ASSUME NEW n \in Nodes, n.attr \in freed PROVE posts[n.attr[1]] > n.attr[2]
      <3>1. PICK q \in Post : q = n.attr
        BY <2>2, NodeTyped DEF CaptureInv
      <3>2. q[2] < posts[q[1]] /\ q[2] \in Nat /\ posts[q[1]] \in Nat
        BY <2>2, <3>1, PostNames DEF CaptureInv, FreedLater, CaptureTypeOK
      <3> QED
        BY <3>1, <3>2
    <2> QED
      BY <2>1, <2>2 DEF AttrOutlivesItsPost
  <1> QED
    BY <1>1, CaptureCorrect, PTL
=============================================================================
