---------------------------- MODULE SmtpSession ----------------------------
(***************************************************************************)
(* An SMTP connection as smtp_dissect.c and smtpfunc.c follow it.  The     *)
(* capture thread hands each packet of a connection to one of the          *)
(* dispose_ handlers with the connection's SmtpSession_t; the end of a     *)
(* mail puts the connection into the session ring, and worker threads run  *)
(* gmime_tika_send for it: find the session, parse the newest mail, send   *)
(* its JSON, remove the session from the table and free it.  Nothing is    *)
(* locked, so a worker's steps fall between any two packets.               *)
(*                                                                         *)
(* Which handler a packet goes to is decided outside the repository; it is *)
(* modelled from the flags the handlers set for it (smtp_state,            *)
(* data_store_flag, bdat_seen).  The same caller chooses the mail of the   *)
(* chain: the bucket's content, which is the oldest, or the newest.        *)
(*                                                                         *)
(* A body is Segments segments; the last one ends with the end mark, and   *)
(* SmtpBody tells when seen_dot recognises it.                             *)
(***************************************************************************)
EXTENDS SessionTable

CONSTANTS Workers,    \* threads that run gmime_tika_send
          Scenes,     \* what the environment does: one is chosen at the start
          MaxRcpts,   \* bound: recipients of a mail
          MaxBuckets, \* bound: sessions put into the table
          Segments    \* bound: segments of a body

\* A scene: which mail the caller passes; the connections that use more than plain
\* mails, and which verbs; what may fail, once; a bound on the mails of all connections.
SceneType == [pick : {"oldest", "newest"}, wild : SUBSET Keys,
              verbs : SUBSET {"RSET", "BDAT", "STARTTLS"},
              faults : SUBSET {"malloc", "store", "parse", "extract"}, mails : Nat \ {0}]

ASSUME SmtpSessionAssumption ==
    /\ Workers # {} /\ Scenes # {} /\ \A s \in Scenes : s \in SceneType
    /\ {MaxRcpts, MaxBuckets, Segments} \subseteq Nat \ {0}

VARIABLES
    scene,     \* the scene, the same all along
    client,    \* per connection: where the client is, its mail, segments and recipients sent
    table,     \* ftp_session_tbl
    chain,     \* bucket -> its mails, oldest first; only buckets not yet freed
    files,     \* contents of the .eml files, by the number of their uuid
    ring,      \* connections in the session ring
    worker,    \* what each worker works on
    posted,    \* history: JSON texts handed to the policy, with what they were made from
    blocks,    \* memory blocks allocated and not freed, by the bucket they were allocated for
    failed,    \* a fault has happened
    down,      \* the process has followed a null pointer or used a freed session
    did        \* history: what each connection has gone through; "torn": it lost its session
               \* in the middle of a mail; "shared": a worker released one another had too

Buckets == 1..MaxBuckets

vars == <<scene, client, table, chain, files, ring, worker, posted, blocks, failed, down, did>>

-----------------------------------------------------------------------------
\* A cleared SmtpSession_t.  Counters that nothing reads are left out.
NewMail == [mail_from |-> NULL, rcpt_to |-> <<>>, mail_body_name |-> NULL,
            mail_body_dir |-> FALSE, result_json |-> FALSE, starttls |-> FALSE,
            data_store_flag |-> "WAIT", data_seen |-> FALSE, bdat_seen |-> FALSE,
            dot_seen |-> FALSE, quit_seen |-> FALSE, bdat_total_len |-> 0,
            bdat_read_len |-> 0, bdat_last |-> FALSE, session_quit_flag |-> FALSE]

One(b) == IF b THEN 1 ELSE 0

\* Blocks that free_smtp frees for one mail: itself, its strings, two per recipient.
BlocksOfMail(m) ==
    1 + One(m.mail_from # NULL) + 2 * Len(m.rcpt_to)
      + One(m.mail_body_name # NULL) + One(m.mail_body_dir) + One(m.result_json)

\* Blocks of the first n mails of a chain, and of all of them.
BlocksUpTo(mails) ==
    LET upTo[n \in 0..Len(mails)] == IF n = 0 THEN 0 ELSE upTo[n - 1] + BlocksOfMail(mails[n]) IN upTo
SumOf(mails) == BlocksUpTo(mails)[Len(mails)]

Allocated(b, n) == blocks' = [blocks EXCEPT ![b] = @ + n]

\* Mutant: the list of recipients is not freed.
FreeSmtpKeepingRcpt(b) ==
    /\ chain' = Without(chain, b)
    /\ Allocated(b, - 1 - SumOf([i \in DOMAIN chain[b] |-> [chain[b][i] EXCEPT !.rcpt_to = <<>>]]))

\* free_smtp walks the chain; then the bucket itself goes.
FreeSmtp(b) ==
    /\ chain' = Without(chain, b)
    /\ Allocated(b, - 1 - SumOf(chain[b]))

Init ==
    /\ scene \in Scenes
    /\ client = [c \in Keys |-> [at |-> "ready", mail |-> 0, segment |-> 0, rcpts |-> 0]]
    /\ table = CreateHash /\ chain = <<>> /\ files = <<>> /\ ring = <<>>
    /\ worker = [w \in Workers |-> [at |-> "idle", bucket |-> NULL, mail |-> 0]]
    /\ posted = {} /\ blocks = [b \in Buckets |-> 0] /\ failed = FALSE /\ down = FALSE
    /\ did = [c \in Keys |-> {}]

Fault(f) == f \in scene.faults /\ ~failed /\ failed' = TRUE
NoFault == UNCHANGED failed

Did(c, what) == did' = [did EXCEPT ![c] = @ \cup {what}]

\* A null pointer is followed: nothing happens any more.
Crash == down' = TRUE /\ UNCHANGED <<table, chain, files, ring, blocks, failed>>

Session(c) == FindHash(table, c)
Position(b) == IF scene.pick = "newest" THEN Len(chain[b]) ELSE 1
The(b, i) == chain[b][i]
Update(b, i, m) == chain' = [chain EXCEPT ![b] = [@ EXCEPT ![i] = m]]

-----------------------------------------------------------------------------
\* Commands: dispose_smtp_cmd on mail i of bucket b.

StartTls(b, i) ==
    /\ Update(b, i, [The(b, i) EXCEPT !.starttls = TRUE])
    /\ NoFault /\ UNCHANGED <<table, files, ring, blocks, down>>

Quit(b, i) ==
    /\ Update(b, i, [The(b, i) EXCEPT !.quit_seen = TRUE])
    /\ NoFault /\ UNCHANGED <<table, files, ring, blocks, down>>

\* MAIL FROM: the sender of a mail that has none, else of a mail added to the end of
\* the chain; if the walk to the end meets a mail with no sender, of none at all.
MailFrom(b, i, n) ==
    /\ \/ /\ The(b, i).mail_from = NULL
          /\ \/ /\ Update(b, i, [The(b, i) EXCEPT !.mail_from = n])
                /\ Allocated(b, 1) /\ NoFault
             \/ Fault("malloc") /\ UNCHANGED <<chain, blocks>>
       \/ /\ \A j \in i..Len(chain[b]) : The(b, j).mail_from # NULL
          /\ \/ /\ chain' = [chain EXCEPT ![b] = Append(@, [NewMail EXCEPT !.mail_from = n])]
                /\ Allocated(b, 2) /\ NoFault
             \/ Fault("malloc") /\ (\E k \in 0..1 : Allocated(b, k)) /\ UNCHANGED chain
       \/ /\ The(b, i).mail_from # NULL
          /\ \E j \in i..Len(chain[b]) : The(b, j).mail_from = NULL
          /\ NoFault /\ UNCHANGED <<chain, blocks>>
    /\ UNCHANGED <<table, files, ring, down>>

\* RCPT TO: add_rcpt_to; the caller then prints the first recipient whatever happened.
\* When a block cannot be had, those allocated before it are lost.
RcptTo(b, i, n) ==
    LET m == The(b, i)
    IN  \/ /\ Update(b, i, [m EXCEPT !.rcpt_to = Append(@, n)])
           /\ Allocated(b, 2) /\ NoFault
           /\ UNCHANGED <<table, files, ring, down>>
        \/ /\ m.rcpt_to # <<>>
           /\ Fault("malloc") /\ \E k \in 0..2 : Allocated(b, k)
           /\ UNCHANGED <<table, chain, files, ring, down>>
        \/ /\ m.rcpt_to = <<>>                         \* the node, with no address
           /\ Fault("malloc") /\ Allocated(b, 2)
           /\ Update(b, i, [m EXCEPT !.rcpt_to = <<NULL>>])
           /\ UNCHANGED <<table, files, ring, down>>
        \/ /\ m.rcpt_to = <<>> /\ Fault("malloc")        \* no node to print
           /\ down' = TRUE /\ UNCHANGED <<table, chain, files, ring, blocks>>

Data(b, i) ==
    /\ Update(b, i, [The(b, i) EXCEPT !.data_seen = TRUE, !.bdat_seen = FALSE])
    /\ NoFault /\ UNCHANGED <<table, files, ring, blocks, down>>

\* BDAT size [LAST]: with LAST in it the store flag is left alone.
Bdat(b, i, size, isLast) ==
    LET m == The(b, i)
        started == [m EXCEPT !.bdat_seen = size > 0, !.data_seen = FALSE,
                             !.data_store_flag = IF size = 0 THEN "END" ELSE "START"]
    IN  /\ Update(b, i, IF isLast THEN [m EXCEPT !.bdat_last = TRUE, !.bdat_total_len = size]
                        ELSE [started EXCEPT !.bdat_total_len = size])
        /\ NoFault /\ UNCHANGED <<table, files, ring, blocks, down>>

\* RSET: reset_smtp_session copies the mail, clears it and forgets the copy, and with
\* it all that hung on the mail and the mails after it.
Rset(b, i) ==
    /\ \/ /\ chain' = [chain EXCEPT ![b] = Append(SubSeq(@, 1, i - 1), NewMail)]
          /\ Allocated(b, 1) /\ NoFault
       \/ Fault("malloc") /\ UNCHANGED <<chain, blocks>>
    /\ UNCHANGED <<table, files, ring, down>>

Nothing == NoFault /\ UNCHANGED <<table, chain, files, ring, blocks, down>>

DisposeSmtpCmd(b, i, p) ==
    \/ p.verb = "STARTTLS" /\ StartTls(b, i)
    \/ p.verb = "QUIT" /\ Quit(b, i)
    \/ p.verb = "MAIL" /\ MailFrom(b, i, p.mail)
    \/ p.verb = "RCPT" /\ RcptTo(b, i, p.mail)
    \/ p.verb = "DATA" /\ Data(b, i)
    \/ p.verb = "BDAT" /\ Bdat(b, i, Segments, FALSE)
    \/ p.verb = "BDAT LAST" /\ Bdat(b, i, Segments, TRUE)
    \/ p.verb = "RSET" /\ Rset(b, i)
    \/ p.verb \in {"segment", "chunk"} /\ Nothing       \* no verb is recognised

\* dispose_STARTTLS_cmd: only the end of the connection is of interest.
DisposeStartTlsCmd(c, b, i, p) ==
    \/ p.verb = "QUIT" /\ Quit(b, i)
    \/ /\ p.verb = "221" /\ The(b, i).quit_seen
       /\ table' = RemoveHash(table, b)
       /\ FreeSmtp(b)
       /\ NoFault /\ UNCHANGED <<files, ring, down>>
    \/ /\ p.verb # "QUIT" /\ ~(p.verb = "221" /\ The(b, i).quit_seen)
       /\ Nothing

\* dispose_smtp_response: 354 to DATA begins a file of a new name; the names of an
\* earlier one are overwritten.  The two names are allocated one after the other.
DisposeSmtpResponse(b, i, p) ==
    LET m == The(b, i)
        opened == [m EXCEPT !.data_store_flag = "START", !.mail_body_name = Len(files) + 1]
    IN  \/ /\ p.verb = "221" /\ m.quit_seen
           /\ Update(b, i, [m EXCEPT !.session_quit_flag = TRUE])
           /\ NoFault /\ UNCHANGED <<table, files, ring, blocks, down>>
        \/ /\ p.verb = "354" /\ m.data_seen
           /\ files' = Append(files, <<>>)
           /\ \/ /\ Update(b, i, [opened EXCEPT !.mail_body_dir = TRUE])
                 /\ Allocated(b, 2) /\ NoFault
              \/ Update(b, i, opened) /\ Allocated(b, 1) /\ Fault("malloc")
              \/ /\ Update(b, i, [opened EXCEPT !.mail_body_name = NULL])
                 /\ UNCHANGED blocks /\ Fault("malloc")
           /\ UNCHANGED <<table, ring, down>>
        \/ /\ ~(p.verb = "221" /\ m.quit_seen) /\ ~(p.verb = "354" /\ m.data_seen)
           /\ Nothing

-----------------------------------------------------------------------------
\* Body: segments are appended to the mail's file.

NoName(m) == m.mail_body_name = NULL \/ ~m.mail_body_dir

\* store_smtp_data; what it returns is ignored.
StoreSmtpData(m, token) ==
    \/ files' = [files EXCEPT ![m.mail_body_name] = Append(@, token)] /\ NoFault
    \/ Fault("store") /\ UNCHANGED files

\* Mutant: the end is looked for before the segment is stored, which is then left to
\* the next one.
BodyDataEndFirst(c, b, i, p) ==
    LET m == The(b, i)
    IN  \/ NoName(m) /\ Crash
        \/ /\ ~NoName(m)
           /\ IF p.end THEN UNCHANGED files /\ NoFault ELSE StoreSmtpData(m, p.token)
           /\ ring' = IF p.end THEN Append(ring, c) ELSE ring
           /\ Update(b, i, IF p.end THEN [m EXCEPT !.data_seen = FALSE, !.bdat_seen = FALSE,
                                                   !.dot_seen = TRUE, !.data_store_flag = "END"]
                           ELSE m)
           /\ UNCHANGED <<table, blocks, down>>

\* Mutant: the end of the mail is announced but not kept.
BodyDataNoDot(c, b, i, p) ==
    LET m == The(b, i)
    IN  \/ NoName(m) /\ Crash
        \/ /\ ~NoName(m)
           /\ StoreSmtpData(m, p.token)
           /\ ring' = IF p.end THEN Append(ring, c) ELSE ring
           /\ Update(b, i, IF p.end THEN [m EXCEPT !.data_seen = FALSE] ELSE m)
           /\ UNCHANGED <<table, blocks, down>>

\* dispose_smtp_mail_body_data: store, then look for the end; a mail whose end was
\* seen before ends at once.
BodyData(c, b, i, p) ==
    LET m == The(b, i)
        ended == [m EXCEPT !.data_seen = FALSE, !.bdat_seen = FALSE, !.dot_seen = TRUE]
        after == IF p.end THEN ended ELSE m
    IN  \/ NoName(m) /\ Crash
        \/ /\ ~NoName(m)
           /\ StoreSmtpData(m, p.token)
           /\ ring' = IF p.end THEN Append(ring, c) ELSE ring
           /\ Update(b, i, IF after.dot_seen THEN [after EXCEPT !.data_store_flag = "END"]
                           ELSE after)
           /\ UNCHANGED <<table, blocks, down>>

\* dispose_smtp_mail_body_bdat: the chunk ends when as much has come as BDAT said.
\* The branch for the last chunk repeats that condition and is never reached.
BodyBdat(b, i, p) ==
    LET m == The(b, i)
        read == m.bdat_read_len + 1
    IN  \/ NoName(m) /\ Crash
        \/ /\ ~NoName(m)
           /\ StoreSmtpData(m, p.token)
           /\ Update(b, i, IF read = m.bdat_total_len
                           THEN [m EXCEPT !.data_store_flag = "END",
                                          !.bdat_read_len = 0, !.bdat_total_len = 0]
                           ELSE [m EXCEPT !.bdat_read_len = read])
           /\ UNCHANGED <<table, ring, blocks, down>>

-----------------------------------------------------------------------------
\* The caller (external): a connection without a session gets one, and each packet
\* goes to the handler that the flags of the chosen mail call for.

Open(c) ==
    /\ ~down /\ Session(c) = NULL /\ client[c].at # "closed"
    /\ table.nr < MaxBuckets /\ Cardinality(DOMAIN chain) < MaxBuckets
    /\ LET b == CHOOSE n \in Buckets : n \notin DOMAIN chain
       IN  /\ table' = InsertHash(table, b, c)
           /\ chain' = With(chain, b, <<NewMail>>) /\ Allocated(b, 2)
    /\ IF client[c].at \in {"ready", "quit"} THEN UNCHANGED did ELSE Did(c, "torn")
    /\ UNCHANGED <<scene, client, files, ring, worker, posted, failed, down>>

FromClient(c, p) ==
    LET b == Session(c)
        i == Position(b)
        m == The(b, i)
    IN  /\ b # NULL
        /\ \/ m.starttls /\ DisposeStartTlsCmd(c, b, i, p)
           \/ ~m.starttls /\ m.data_store_flag = "START" /\ m.bdat_seen /\ BodyBdat(b, i, p)
           \/ ~m.starttls /\ m.data_store_flag = "START" /\ ~m.bdat_seen /\ BodyData(c, b, i, p)
           \/ ~m.starttls /\ m.data_store_flag # "START" /\ DisposeSmtpCmd(b, i, p)

FromServer(c, p) ==
    LET b == Session(c)
        i == Position(b)
    IN  /\ b # NULL
        /\ \/ The(b, i).starttls /\ DisposeStartTlsCmd(c, b, i, p)
           \/ ~The(b, i).starttls /\ DisposeSmtpResponse(b, i, p)

\* A packet: its verb, the mail it is about, what it puts into a file, whether it ends
\* with the end mark.
Packet(v, n) == [verb |-> v, mail |-> n, token |-> <<v, n, 0>>, end |-> FALSE]
BodyPacket(v, n, s) ==
    [verb |-> v, mail |-> n, token |-> <<v, n, s>>, end |-> v = "segment" /\ s = Segments]

Now(c, a) == client' = [client EXCEPT ![c].at = a]

\* Mails are numbered over all connections; n is the last of them.
LastMail(n) ==
    /\ \A c \in Keys : client[c].mail <= n
    /\ n = 0 \/ \E c \in Keys : client[c].mail = n

\* What clients and servers send (external): mails one after the other, each with a
\* sender, recipients, DATA answered by 354 and the body, or BDAT chunks.
Client(c) ==
    LET at == client[c].at
        n  == client[c].mail
    IN  /\ ~down /\ UNCHANGED <<scene, worker, posted>>
        /\ \/ /\ at = "ready" /\ Did(c, IF n = 0 THEN "mail" ELSE "mails")
              /\ \E new \in 1..scene.mails :
                    /\ LastMail(new - 1)
                    /\ client' = [client EXCEPT ![c] = [at |-> "mail", mail |-> new,
                                                        segment |-> 0, rcpts |-> 0]]
                    /\ FromClient(c, Packet("MAIL", new))
           \/ /\ at \in {"mail", "rcpt"} /\ client[c].rcpts < MaxRcpts
              /\ client' = [client EXCEPT ![c].at = "rcpt", ![c].rcpts = @ + 1]
              /\ UNCHANGED did
              /\ FromClient(c, Packet("RCPT", n))
           \/ /\ at = "rcpt" /\ client[c].segment = 0 /\ Now(c, "data") /\ UNCHANGED did
              /\ FromClient(c, Packet("DATA", n))
           \/ /\ at = "data" /\ Now(c, "body") /\ UNCHANGED did
              /\ FromServer(c, Packet("354", n))
           \/ /\ at = "body"
              /\ LET s == client[c].segment + 1
                 IN  /\ client' = [client EXCEPT ![c].segment = s,
                                                 ![c].at = IF s = Segments THEN "ready" ELSE "body"]
                     /\ IF s = Segments THEN Did(c, "body") ELSE UNCHANGED did
                     /\ FromClient(c, BodyPacket("segment", n, s))

ClientExtras(c) ==
    LET at == client[c].at
        n  == client[c].mail
    IN  /\ ~down /\ UNCHANGED <<scene, worker, posted>>
        /\ \/ /\ at = "ready" /\ Now(c, "quit") /\ UNCHANGED did
              /\ FromClient(c, Packet("QUIT", n))
           \/ /\ at = "quit" /\ Now(c, "closed") /\ UNCHANGED did
              /\ FromServer(c, Packet("221", n))
           \/ /\ at = "data" /\ Now(c, "ready") /\ Did(c, "refused")
              /\ FromServer(c, Packet("5xx", n))
           \/ /\ "RSET" \in scene.verbs /\ at \in {"ready", "mail", "rcpt"}
              /\ did[c] \cap scene.verbs = {}
              /\ Now(c, "ready") /\ Did(c, "RSET")
              /\ FromClient(c, Packet("RSET", n))
           \/ /\ "STARTTLS" \in scene.verbs /\ at = "ready" /\ did[c] = {}
              /\ Did(c, "STARTTLS") /\ UNCHANGED client     \* the server refuses
              /\ FromClient(c, Packet("STARTTLS", n))
           \/ /\ "BDAT" \in scene.verbs /\ at = "rcpt" /\ did[c] \cap scene.verbs \subseteq {"BDAT"}
              /\ Did(c, "BDAT")
              /\ \E v \in {"BDAT", "BDAT LAST"} :
                    /\ Now(c, IF v = "BDAT" THEN "chunk" ELSE "last chunk")
                    /\ FromClient(c, Packet(v, n))
           \/ /\ at \in {"chunk", "last chunk"}
              /\ LET s == client[c].segment + 1
                     done == IF at = "chunk" /\ s < 2 * Segments THEN "rcpt" ELSE "ready"
                 IN  /\ client' = [client EXCEPT ![c].segment = s,
                                                 ![c].at = IF s % Segments = 0 THEN done ELSE at]
                     /\ UNCHANGED did
                     /\ FromClient(c, BodyPacket("chunk", n, s))

-----------------------------------------------------------------------------
\* gmime_tika_send in a worker.

Idle(w) == worker' = [worker EXCEPT ![w] = [at |-> "idle", bucket |-> NULL, mail |-> 0]]

\* Find the session of the connection taken from the ring, test that its oldest mail
\* has ended, walk to the newest.
Take(w) ==
    /\ ~down /\ worker[w].at = "idle" /\ ring # <<>>
    /\ ring' = Tail(ring)
    /\ LET b == Session(Head(ring))
       IN  IF b # NULL /\ The(b, 1).dot_seen
           THEN worker' = [worker EXCEPT ![w] = [at |-> "parse", bucket |-> b,
                                                 mail |-> Len(chain[b])]]
           ELSE UNCHANGED worker
    /\ UNCHANGED <<scene, client, table, chain, files, posted, blocks, failed, down, did>>

Freed(w) == worker[w].bucket \notin DOMAIN chain

\* The session is gone: what happens next is undefined, and nothing more is asked.
UseFreed(w) ==
    /\ ~down /\ worker[w].at # "idle" /\ Freed(w)
    /\ Crash /\ Idle(w)
    /\ UNCHANGED <<scene, client, posted, did>>

\* The sender as set_mailenvelope_rcpt_from writes it, recipients with an address.
Envelope(m) == [from |-> m.mail_from, to |-> {m.rcpt_to[i] : i \in DOMAIN m.rcpt_to} \ {NULL}]

\* Mutant: the recipients are those of the oldest mail.
EnvelopeOldest(b, i) == [Envelope(The(b, i)) EXCEPT !.to = Envelope(The(b, 1)).to]

EnvelopeOf(b, i) == Envelope(The(b, i))

\* gmime_parse_mailbody: the names are tested, but used when they are NULL too.  The
\* file may not open and gmime may fail; then there is no JSON.
\* A mail that RSET has cut off the chain is one that the caller never filled.
Parse(w) ==
    LET b == worker[w].bucket
        i == worker[w].mail
        nameless == i \in DOMAIN chain[b] => NoName(The(b, i))
    IN  /\ ~down /\ worker[w].at = "parse" /\ ~Freed(w)
        /\ \/ /\ nameless
              /\ Crash /\ UNCHANGED worker
           \/ /\ ~nameless
              /\ Update(b, i, [The(b, i) EXCEPT !.result_json = TRUE])
              /\ Allocated(b, 1) /\ NoFault
              /\ worker' = [worker EXCEPT ![w] =
                    [at |-> "extract", bucket |-> b, mail |-> i,
                     json |-> [key   |-> table.key[b],
                               env   |-> EnvelopeOf(b, i),
                               body  |-> files[The(b, i).mail_body_name],
                               alone |-> Len(chain[b]) = 1]]]
              /\ UNCHANGED <<table, files, ring, down>>
           \/ /\ ~nameless
              /\ Fault("parse") /\ Idle(w)
              /\ UNCHANGED <<table, chain, files, ring, blocks, down>>
        /\ UNCHANGED <<scene, client, posted, did>>

\* file_extract_pthread; when it fails the session stays in the table.
Extract(w) ==
    /\ ~down /\ worker[w].at = "extract" /\ ~Freed(w)
    /\ \/ /\ posted' = posted \cup {worker[w].json} /\ NoFault
          /\ worker' = [worker EXCEPT ![w] = [at |-> "release", bucket |-> worker[w].bucket,
                                              mail |-> worker[w].mail]]
       \/ Fault("extract") /\ Idle(w) /\ UNCHANGED posted
    /\ UNCHANGED <<scene, client, table, chain, files, ring, blocks, down, did>>

Release(w) ==
    LET b == worker[w].bucket
    IN  /\ ~down /\ worker[w].at = "release" /\ ~Freed(w)
        /\ table' = RemoveHash(table, b)
        /\ FreeSmtp(b)
        /\ Idle(w)
        /\ IF \E v \in Workers \ {w} : worker[v].bucket = b
           THEN Did(table.key[b], "shared") ELSE UNCHANGED did
        /\ UNCHANGED <<scene, client, files, ring, posted, failed, down>>

Work(w) == Take(w) \/ UseFreed(w) \/ Parse(w) \/ Extract(w) \/ Release(w)

Next == \/ \E c \in Keys : Open(c) \/ Client(c)
        \/ \E c \in scene.wild : ClientExtras(c)
        \/ \E w \in Workers : Work(w)

\* Workers are threads that loop for ever.
Spec == Init /\ [][Next]_vars /\ \A w \in Workers : WF_vars(Work(w))

-----------------------------------------------------------------------------
\* One mail with DATA on the connection, nothing has failed, and no worker has released
\* a session that another worker still works on: its bucket, used again for the next
\* connection, would be that worker's too.
Plain(c) ==
    /\ did[c] \cap {"mails", "RSET", "BDAT", "STARTTLS", "refused"} = {} /\ ~failed
    /\ \A k \in Keys : "shared" \notin did[k]

TypeOK ==
    /\ scene \in Scenes /\ blocks \in [Buckets -> Nat]
    /\ In(table) \subseteq DOMAIN chain /\ DOMAIN chain \subseteq Buckets
    /\ \A b \in DOMAIN chain : chain[b] # <<>>
    /\ \A c \in Keys : client[c].mail \in 0..scene.mails
    /\ \A w \in Workers : worker[w].at \in {"idle", "parse", "extract", "release"}

\* The table's chains stay linked both ways and hold exactly the sessions not freed,
\* each connection once, whichever of capture and workers took one out.
TableLinked ==
    /\ Linked(table) /\ In(table) = DOMAIN chain
    /\ \A a, b \in In(table) : table.key[a] = table.key[b] => a = b

\* A JSON text never mixes the body of one mail with the sender or a recipient of
\* another, also when mails follow each other on a connection and when workers come
\* late, if the caller passes the newest mail, nothing failed and the connection kept its
\* session through the mail; and the mail of a plain connection comes with its sender
\* and recipients.
OneMailPerJson ==
    (scene.pick = "newest" /\ ~failed) =>
        \A j \in posted :
            /\ "torn" \notin did[j.key] =>
                  \A i \in DOMAIN j.body :
                      /\ j.env.from \in {NULL, j.body[i][2]}
                      /\ \A r \in j.env.to : r = j.body[i][2]
            /\ Plain(j.key) => j.env.from # NULL /\ j.env.to # {}

\* A file holds segments of one mail, in order and none twice, and no command, unless
\* BDAT, whose chunks have no file of their own, was used on a connection.
FileIsOneMail ==
    (\A c \in Keys : "BDAT" \notin did[c]) =>
        \A f \in DOMAIN files : \A i \in DOMAIN files[f] :
            /\ files[f][i][1] = "segment" /\ files[f][i][2] = files[f][1][2]
            /\ i > 1 => files[f][i][3] > files[f][i - 1][3]

\* The mail of a plain connection is parsed only when all of it is in its file, and
\* files are never a mixture of mails.
WholeMail ==
    /\ TypeOK /\ FileIsOneMail
    /\ \A j \in posted : Plain(j.key) => Len(j.body) = Segments /\ j.alone

\* Plain connections never make a thread follow a null pointer or use a freed session.
PlainIsSafe == (\A c \in Keys : Plain(c)) => ~down

\* The table stays a table of the living sessions, and all memory of plain connections is
\* reachable from it, so that free_smtp gives back all of it.
NothingLost ==
    /\ TableLinked /\ PlainIsSafe
    /\ (\A c \in Keys : Plain(c)) =>
          \A b \in Buckets : blocks[b] = IF b \in DOMAIN chain THEN 1 + SumOf(chain[b]) ELSE 0

\* Once the end of the mail of a plain connection was seen, its JSON is sent, unless
\* something else stops the process or another connection's fault the worker.
Judged ==
    \A c \in Keys :
        ("body" \in did[c]) ~>
            (\/ \E j \in posted : j.key = c
             \/ ~Plain(c) \/ down)
=============================================================================
