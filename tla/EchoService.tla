---------------------------- MODULE EchoService ----------------------------
(***************************************************************************)
(* The ICAP service of srv_echo.c.  Each thread of the c-icap server runs  *)
(* one request at a time through the callbacks of the service:             *)
(* echo_init_request_data, echo_check_preview_handler, echo_io while the   *)
(* body arrives, echo_end_of_data_handler, echo_io again until CI_EOF,     *)
(* echo_release_request_data.                                              *)
(*                                                                         *)
(* A POST that uploads a file is gated: nothing of its body is handed back *)
(* to the server until a verdict on it has arrived.  To obtain the verdict *)
(* the end-of-data handler puts a node that points into its own stack into *)
(* the session ring and waits on a System V queue for a message whose type *)
(* is its thread id.                                                       *)
(*                                                                         *)
(* Left out: building and parsing of header text, the rewritten headers of *)
(* a blocked request, logging.  DlpPipeline adds the other end.            *)
(***************************************************************************)
EXTENDS Integers, Sequences, FiniteSets

CONSTANTS Threads,     \* threads of the c-icap server; a thread's id is its message type
          Requests,    \* the requests clients send
          MaxServed,   \* bound: how many requests one thread serves
          irb_qlength, \* slots of the session ring
          FreshEof,    \* what malloc may leave in the field eof
          Faults       \* which of the faults named below may happen

\* What jdmail_my looks for in a URL: it depends on nothing else.
Patterns == {"mail", "8080", "163.com", "compose", "/upxmail/upload", "/compose/upload",
             "/upload"}

FaultNames == {"signal",       \* a sem_wait of sbuff_putdata is interrupted
               "storage",      \* the body file cannot be created or written
               "disconnect",   \* the client goes away
               "silent",       \* the worker finds nothing to send to the policy matcher
               "restart"}      \* the server process dies and is started again

Request == [headers : BOOLEAN,              \* ci_http_request_headers finds headers
            info    : BOOLEAN,              \* extract_http_info succeeds
            method  : {"GET", "POST"},
            url     : SUBSET Patterns,
            size    : Nat,                  \* units of body data, 0 when it has no body
            preview : Nat]                  \* units of it in the preview

ASSUME RequestsAssumption ==
    Requests \subseteq Request /\ \A r \in Requests : r.preview <= r.size

ASSUME ServiceAssumption ==
    /\ IsFiniteSet(Threads)
    /\ MaxServed \in Nat
    /\ irb_qlength \in Nat \ {0}
    /\ FreshEof \subseteq {0, 1} /\ FreshEof # {}
    /\ Faults \subseteq FaultNames

Frame == Threads \X (1..MaxServed)          \* the stack frame of one handler call
Verdict == [about : Frame, msg : {"y", "n"}]
NoAnswer == [about |-> <<>>, msg |-> ""]

VARIABLES
    pc,        \* which callback the thread is in, or between which two
    served,    \* how many requests the thread has begun
    request,   \* the request it serves
    blocked,   \* echo_data->blocked
    att,       \* echo_data->att
    eof,       \* echo_data->eof
    unset,     \* history: was eof set when the request began, though nobody set it
    body,      \* echo_data->body: open or NULL, units written to and read from it
    fed,       \* units of body data the server has got from the client
    reply,     \* what the callbacks have answered: nothing yet, 204, error, done
    ended,     \* the service has returned CI_EOF
    answer,    \* the message the handler took from the queue
    ring,      \* the session ring: stack frames put and not yet taken
    verdicts   \* the System V queue of verdicts, by message type

dataVars == <<request, att, eof, unset, fed, body>>
serviceVars == <<pc, served, request, blocked, att, eof, unset, body, fed, reply, ended, answer>>

NoBody == [open |-> FALSE, in |-> 0, out |-> 0]
NoRequest == [headers |-> FALSE, info |-> FALSE, method |-> "", url |-> {}, size |-> 0,
              preview |-> 0]

ServiceInit ==
    /\ pc = [t \in Threads |-> "free"]
    /\ served = [t \in Threads |-> 0]
    /\ request = [t \in Threads |-> NoRequest]
    /\ blocked = [t \in Threads |-> "NOT_BLOCKED"]
    /\ att = [t \in Threads |-> "no_att"]
    /\ eof = [t \in Threads |-> 0]
    /\ unset = [t \in Threads |-> FALSE]
    /\ body = [t \in Threads |-> NoBody]
    /\ fed = [t \in Threads |-> 0]
    /\ reply = [t \in Threads |-> "none"]
    /\ ended = [t \in Threads |-> FALSE]
    /\ answer = [t \in Threads |-> NoAnswer]
    /\ ring = <<>>
    /\ verdicts = [t \in Threads |-> <<>>]

Goto(t, place) == pc' = [pc EXCEPT ![t] = place]

-----------------------------------------------------------------------------
(* echo_init_request_data: every field but eof is given a value. *)

InitRequestData(t) ==
    /\ pc[t] = "free" /\ served[t] < MaxServed
    /\ served' = [served EXCEPT ![t] = @ + 1]
    /\ \E r \in Requests : request' = [request EXCEPT ![t] = r]
    /\ \E e \in FreshEof :
           /\ eof' = [eof EXCEPT ![t] = e]
           /\ unset' = [unset EXCEPT ![t] = e # 0]
    /\ blocked' = [blocked EXCEPT ![t] = "NOT_BLOCKED"]
    /\ att' = [att EXCEPT ![t] = "no_att"]
    /\ body' = [body EXCEPT ![t] = NoBody]
    /\ fed' = [fed EXCEPT ![t] = 0]
    /\ reply' = [reply EXCEPT ![t] = "none"]
    /\ ended' = [ended EXCEPT ![t] = FALSE]
    /\ answer' = [answer EXCEPT ![t] = NoAnswer]
    /\ Goto(t, "preview")
    /\ UNCHANGED <<ring, verdicts>>

-----------------------------------------------------------------------------
(* echo_check_preview_handler *)

JdmailMy(url) ==
    LET netease == "163.com" \in url
    IN  CASE url \cap {"mail", "8080"} = {}           -> "NOT_MAIL"
          [] netease /\ "compose" \in url             -> "IS_MAIL"
          [] netease /\ "compose" \notin url
                     /\ "/upxmail/upload" \in url     -> "MAIL_HAS_ATT"
          [] netease /\ url \cap {"compose", "/upxmail/upload"} = {}
                     /\ "/compose/upload" \in url     -> "MAIL_HAS_MIME_ATT"
          [] ~netease /\ {"8080", "/upload"} \subseteq url -> "UPLOAD_TEST"
          [] OTHER                                    -> "NOT_MAIL"

AttOf == [IS_MAIL           |-> "no_att",
          MAIL_HAS_ATT      |-> "normal_att",
          MAIL_HAS_MIME_ATT |-> "mime_att",
          UPLOAD_TEST       |-> "upload_test"]

\* The answer that ends a request in the preview handler.
Refuse(t, answered) ==
    /\ reply' = [reply EXCEPT ![t] = answered]
    /\ Goto(t, "release")
    /\ UNCHANGED <<served, ended, answer, ring, verdicts>>

NoHeaders(t) ==
    /\ pc[t] = "preview" /\ ~request[t].headers
    /\ Refuse(t, "CI_ERROR")
    /\ UNCHANGED <<blocked, dataVars>>

\* The request is told apart by its header, its body, its method, its URL.
Interesting(r) == r.method = "POST" /\ JdmailMy(r.url) # "NOT_MAIL"

Allow204(t) ==
    /\ pc[t] = "preview" /\ request[t].headers
    /\ \/ ~request[t].info
       \/ request[t].size = 0
       \/ request[t].preview > 0 /\ ~Interesting(request[t])
    /\ Refuse(t, "CI_MOD_ALLOW204")
    /\ UNCHANGED <<blocked, dataVars>>

\* No preview data: go on, with neither a kind nor a body file.
ContinueWithoutPreview(t) ==
    /\ pc[t] = "preview" /\ request[t].headers /\ request[t].info
    /\ request[t].size > 0 /\ request[t].preview = 0
    /\ Goto(t, "io")
    /\ UNCHANGED <<served, blocked, reply, ended, answer, ring, verdicts, dataVars>>

\* The kind is set before the body file is made, and stays set if that fails.
Gate(t) ==
    /\ pc[t] = "preview" /\ request[t].headers /\ request[t].info
    /\ request[t].preview > 0 /\ Interesting(request[t])
    /\ att' = [att EXCEPT ![t] = AttOf[JdmailMy(request[t].url)]]
    /\ blocked' = [blocked EXCEPT ![t] = IF att'[t] = "no_att" THEN @ ELSE "WRITE_BLOCKED"]

Continue(t) ==
    /\ Gate(t)
    /\ body' = [body EXCEPT ![t] = [open |-> TRUE, in |-> request[t].preview, out |-> 0]]
    /\ fed' = [fed EXCEPT ![t] = request[t].preview]
    /\ Goto(t, "io")
    /\ UNCHANGED <<served, request, eof, unset, reply, ended, answer, ring, verdicts>>

NoBodyFile(t) ==
    /\ "storage" \in Faults
    /\ Gate(t)
    /\ Refuse(t, "CI_ERROR")
    /\ UNCHANGED <<request, eof, unset, body, fed>>

CheckPreview(t) ==
    NoHeaders(t) \/ Allow204(t) \/ ContinueWithoutPreview(t) \/ Continue(t) \/ NoBodyFile(t)

-----------------------------------------------------------------------------
(* echo_io *)

\* echo_read_from_net: without a body file the data is accepted and dropped.
ReadFromNet(b, units) == IF b.open THEN [b EXCEPT !.in = @ + units] ELSE b

\* Mutants: the gate is not looked at; the last unit is never handed out.
WriteToNetUngated(t, b) == IF b.open /\ b.out < b.in THEN 1 ELSE 0

WriteToNetShort(t, b) ==
    IF blocked[t] # "WRITE_BLOCKED" /\ b.open /\ b.out + 1 < b.in THEN 1 ELSE 0

\* echo_write_to_net: how much of the body it hands out, given room for one unit.
WriteToNet(t, b) ==
    IF blocked[t] # "WRITE_BLOCKED" /\ b.open /\ b.out < b.in THEN 1 ELSE 0

\* One call: the server offers a unit it has read, room for a unit, or both.
\* It offers no more room once it has been told CI_EOF.
Io(t) ==
    /\ pc[t] \in {"io", "send"} /\ blocked[t] # "BLOCKED"
    /\ \E units \in {0, 1}, room \in {FALSE, TRUE} :
        LET b == ReadFromNet(body[t], units)
            n == IF room THEN WriteToNet(t, b) ELSE 0
        IN  /\ units = 1 => pc[t] = "io" /\ fed[t] < request[t].size
            /\ units = 1 \/ room
            /\ room => ~ended[t]
            /\ fed' = [fed EXCEPT ![t] = @ + units]
            /\ body' = [body EXCEPT ![t] = [b EXCEPT !.out = @ + n]]
            /\ ended' = [ended EXCEPT ![t] = @ \/ (n = 0 /\ eof[t] = 1)]
    /\ UNCHANGED <<pc, served, request, blocked, att, eof, unset, reply, answer, ring, verdicts>>

IoBlocked(t) ==
    /\ pc[t] = "send" /\ blocked[t] = "BLOCKED" /\ ~ended[t]
    /\ ended' = [ended EXCEPT ![t] = TRUE]
    /\ UNCHANGED <<pc, served, blocked, dataVars, reply, answer, ring, verdicts>>

\* The write to the body file fails.
IoError(t) ==
    /\ "storage" \in Faults
    /\ pc[t] = "io" /\ body[t].open /\ fed[t] < request[t].size
    /\ Refuse(t, "CI_ERROR")
    /\ UNCHANGED <<blocked, dataVars>>

-----------------------------------------------------------------------------
(* echo_end_of_data_handler *)

EndOfData(t) ==
    /\ pc[t] = "io" /\ fed[t] = request[t].size
    /\ eof' = [eof EXCEPT ![t] = 1]
    /\ \/ /\ att[t] = "no_att"
          /\ blocked' = [blocked EXCEPT ![t] = "NOT_BLOCKED"]
          /\ reply' = [reply EXCEPT ![t] = "CI_MOD_DONE"]
          /\ Goto(t, "send")
       \/ /\ att[t] # "no_att"
          /\ Goto(t, "put")
          /\ UNCHANGED <<blocked, reply>>
    /\ UNCHANGED <<served, request, att, unset, fed, body, ended, answer, ring, verdicts>>

\* sbuff_putdata(0, ft), whose result nobody looks at
Put(t) ==
    /\ pc[t] = "put" /\ Len(ring) < irb_qlength
    /\ ring' = Append(ring, <<t, served[t]>>)
    /\ Goto(t, "wait")
    /\ UNCHANGED <<served, blocked, dataVars, reply, ended, answer, verdicts>>

PutInterrupted(t) ==
    /\ "signal" \in Faults
    /\ pc[t] = "put"
    /\ Goto(t, "wait")
    /\ UNCHANGED <<served, blocked, dataVars, reply, ended, answer, ring, verdicts>>

\* recv_msg_from_policy succeeds.  Its failures change nothing: the loop tests
\* ret < 0 first and goes round again, whatever the failure was.
Receive(t) ==
    /\ pc[t] = "wait" /\ verdicts[t] # <<>>
    /\ answer' = [answer EXCEPT ![t] = Head(verdicts[t])]
    /\ verdicts' = [verdicts EXCEPT ![t] = Tail(@)]
    /\ blocked' = [blocked EXCEPT ![t] =
                      IF answer'[t].msg = "n" THEN "BLOCKED" ELSE "NOT_BLOCKED"]
    /\ reply' = [reply EXCEPT ![t] = "CI_MOD_DONE"]
    /\ Goto(t, "send")
    /\ UNCHANGED <<served, dataVars, ended, ring>>

-----------------------------------------------------------------------------
(* echo_release_request_data, at the end of the request or of the client. *)

Reset(f, S, value) == [t \in Threads |-> IF t \in S THEN value ELSE f[t]]

\* free(echo_data): nothing is left of the requests of the threads in S.
Forget(S) ==
    /\ pc' = Reset(pc, S, "free")
    /\ request' = Reset(request, S, NoRequest)
    /\ blocked' = Reset(blocked, S, "NOT_BLOCKED")
    /\ att' = Reset(att, S, "no_att")
    /\ eof' = Reset(eof, S, 0)
    /\ unset' = Reset(unset, S, FALSE)
    /\ body' = Reset(body, S, NoBody)
    /\ fed' = Reset(fed, S, 0)
    /\ reply' = Reset(reply, S, "none")
    /\ ended' = Reset(ended, S, FALSE)
    /\ answer' = Reset(answer, S, NoAnswer)
    /\ UNCHANGED served

\* Mutant: a client that goes away takes the handler out of its wait.
ReleaseWaiting(t) ==
    /\ \/ pc[t] = "release"
       \/ pc[t] = "send" /\ ended[t]
       \/ "disconnect" \in Faults /\ pc[t] \in {"io", "send", "wait"}
    /\ Forget({t})
    /\ UNCHANGED <<ring, verdicts>>

Release(t) ==
    /\ \/ pc[t] = "release"
       \/ pc[t] = "send" /\ ended[t]
       \/ "disconnect" \in Faults /\ pc[t] \in {"io", "send"}
    /\ Forget({t})
    /\ UNCHANGED <<ring, verdicts>>

Serve(t) ==
    \/ CheckPreview(t) \/ Io(t) \/ IoBlocked(t) \/ IoError(t)
    \/ EndOfData(t) \/ Put(t) \/ PutInterrupted(t) \/ Receive(t) \/ Release(t)

-----------------------------------------------------------------------------

ServiceTypeOK ==
    /\ pc \in [Threads -> {"free", "preview", "io", "put", "wait", "send", "release"}]
    /\ served \in [Threads -> 0..MaxServed]
    /\ request \in [Threads -> Requests \cup {NoRequest}]
    /\ blocked \in [Threads -> {"WRITE_BLOCKED", "NOT_BLOCKED", "BLOCKED"}]
    /\ att \in [Threads -> {"no_att", "normal_att", "mime_att", "upload_test"}]
    /\ eof \in [Threads -> {0, 1}] /\ unset \in [Threads -> BOOLEAN]
    /\ body \in [Threads -> [open : BOOLEAN, in : Nat, out : Nat]]
    /\ fed \in [Threads -> Nat]
    /\ reply \in [Threads -> {"none", "CI_ERROR", "CI_MOD_ALLOW204", "CI_MOD_DONE"}]
    /\ ended \in [Threads -> BOOLEAN]
    /\ answer \in [Threads -> Verdict \cup {NoAnswer}]
    /\ ring \in Seq(Frame)
    /\ verdicts \in [Threads -> Seq(Verdict)]

\* The gate: while a request that uploads a file has had no verdict, or a bad one,
\* not a single unit of its body has been handed back to the server, although
\* the handlers unlock the data and the server asks for it all along.
GateHolds ==
    \A t \in Threads :
        att[t] # "no_att" /\ body[t].out > 0 => answer[t].msg = "y"

\* What the client of a request has sent is what the service holds until it is
\* released, whatever callbacks ran in between; and the server is told that the data
\* is over only when all of it has come and, if the request was let through, all of it
\* has been handed back.  A request that goes on without preview data is the
\* exception: it has no body file; so is the end of one for which malloc left in eof
\* what reads as set.
Previewed(t) == request[t].preview > 0

EndsWhole ==
    \A t \in Threads : Previewed(t) =>
        /\ pc[t] \in {"io", "put", "wait", "send"} => body[t].in = fed[t]
        /\ ended[t] /\ ~unset[t] =>
                       /\ fed[t] = request[t].size
                       /\ blocked[t] # "BLOCKED" => body[t].out = fed[t]
=============================================================================
