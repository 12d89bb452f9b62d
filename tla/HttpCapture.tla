---------------------------- MODULE HttpCapture ----------------------------
(***************************************************************************)
(* do_http_file of parsertrace.c: the callback that follows HTTP           *)
(* connections on the wire.  The segments of a POST are collected in a     *)
(* file; the response to it puts a node with the file's name and the       *)
(* header structure (attr) into the session ring.  Consumers parse the     *)
(* file into that structure and free its cookie; the structure itself is   *)
(* freed by the callback, when the next POST of the connection arrives.    *)
(*                                                                         *)
(* One thread runs the callback.  A client on each connection sends a POST *)
(* in segments, each at least 13 bytes long and none but the first         *)
(* starting with "POST " or "HTTP/1.", and waits for the answer, interim   *)
(* answers (100) included.                                                 *)
(***************************************************************************)
EXTENDS Integers, Sequences, FiniteSets

CONSTANTS Keys,        \* connections: the four-tuples of ftp_session_tbl
          Consumers,   \* threads that take nodes from the ring
          MaxPosts,    \* bound: how many POSTs a connection carries
          MaxSegments, \* bound: how many segments a POST has
          Qlength,     \* slots of the ring
          Faults       \* what may fail: "memory", a malloc; "create" or "append", opening a
                       \* file for the first or for a later segment; "signal", the wait for
                       \* a slot; "response", the capture misses the answer to a POST

ASSUME CaptureAssumption ==
    /\ IsFiniteSet(Keys) /\ IsFiniteSet(Consumers)
    /\ MaxPosts \in Nat /\ MaxSegments \in Nat \ {0} /\ Qlength \in Nat \ {0}
    /\ Faults \subseteq {"memory", "create", "append", "signal", "response"}

Post    == Keys \X (1..MaxPosts)        \* also names the file and the structure made for it
Segment == Keys \X (1..MaxPosts) \X (1..MaxSegments)
None    == <<>>

VARIABLES
    posts,     \* POSTs each client has sent
    segments,  \* how many segments of each it has sent
    awaiting,  \* the client waits for the response to it
    session,   \* per connection: no session, or its flag, structure and file name
    files,     \* the file made for each POST
    cookie,    \* the cookie of each structure: none, set, freed but still pointed to
    freed,     \* structures that have been freed
    ring,      \* the session ring
    hdr,       \* the node each consumer holds
    cpc,       \* where each consumer stands
    missed     \* history: connections that lost a segment, an answer or a node

clientVars == <<posts, segments, awaiting>>
heapVars   == <<cookie, freed>>
consVars   == <<hdr, cpc>>
captureVars == <<clientVars, session, files, heapVars, ring, consVars, missed>>

NoSession == [flag |-> 0, http |-> None, old_name |-> None]

CaptureInit ==
    /\ posts = [k \in Keys |-> 0]
    /\ segments = [p \in Post |-> 0]
    /\ awaiting = [k \in Keys |-> FALSE]
    /\ session = [k \in Keys |-> NoSession]
    /\ files = [p \in Post |-> <<>>]
    /\ cookie = [p \in Post |-> "none"]
    /\ freed = {}
    /\ ring = <<>>
    /\ hdr = [c \in Consumers |-> None]
    /\ cpc = [c \in Consumers |-> "idle"]
    /\ missed = {}

-----------------------------------------------------------------------------
(* do_http_file on a segment that starts with "POST " *)

ClientPosts(k) ==
    /\ ~awaiting[k] /\ posts[k] < MaxPosts
    /\ posts' = [posts EXCEPT ![k] = @ + 1]
    /\ segments' = [segments EXCEPT ![<<k, posts[k] + 1>>] = 1]
    /\ awaiting' = [awaiting EXCEPT ![k] = TRUE]

\* Mutant: the structure of the POST before stays in use, and is freed all the same.
PostCapturedInOldAttr(k) ==
    LET p   == <<k, posts[k] + 1>>
        old == session[k].http
    IN  /\ ClientPosts(k)
        /\ session[k].flag = 0
        /\ session' = [session EXCEPT ![k] = [flag |-> 1, old_name |-> p,
                                               http |-> IF old = None THEN p ELSE old]]
        /\ files' = [files EXCEPT ![p] = <<<<p[1], p[2], 1>>>>]
        /\ freed' = freed \cup ({old} \ {None})
        /\ UNCHANGED <<cookie, ring, consVars, missed>>

\* A new structure and a new file; the structure of the POST before goes, and
\* its cookie if it still has one.
PostCaptured(k) ==
    LET p   == <<k, posts[k] + 1>>
        old == session[k].http
    IN  /\ ClientPosts(k)
        /\ session[k].flag = 0
        /\ session' = [session EXCEPT ![k] = [flag |-> 1, http |-> p, old_name |-> p]]
        /\ files' = [files EXCEPT ![p] = <<<<p[1], p[2], 1>>>>]
        /\ freed' = freed \cup ({old} \ {None})
        /\ cookie' = IF old # None /\ cookie[old] = "set"
                     THEN [cookie EXCEPT ![old] = "freed"] ELSE cookie
        /\ UNCHANGED <<ring, consVars, missed>>

\* An allocation or the first write fails: there is no session, or the session
\* stays as it was but for the name of its file.
PostLost(k) ==
    /\ ClientPosts(k)
    /\ session[k].flag = 0
    /\ \/ "memory" \in Faults /\ UNCHANGED session
       \/ /\ "create" \in Faults
          /\ session' = [session EXCEPT ![k].old_name =
                            IF session[k].http = None THEN @ ELSE <<k, posts[k] + 1>>]
    /\ UNCHANGED <<files, heapVars, ring, consVars, missed>>

\* A POST while the answer to another one has not been seen is ignored.
PostIgnored(k) ==
    /\ ClientPosts(k)
    /\ session[k].flag = 1
    /\ UNCHANGED <<session, files, heapVars, ring, consVars, missed>>

-----------------------------------------------------------------------------
(* do_http_file on any other segment of the client *)

MoreData(k) ==
    LET p == <<k, posts[k]>>
    IN  /\ awaiting[k] /\ segments[p] < MaxSegments
        /\ segments' = [segments EXCEPT ![p] = @ + 1]
        /\ \/ /\ session[k].flag = 1
              /\ files' = [files EXCEPT ![session[k].old_name] =
                              Append(@, <<k, posts[k], segments'[p]>>)]
              /\ UNCHANGED missed
           \/ /\ session[k].flag = 0
              /\ UNCHANGED <<files, missed>>
           \/ /\ "append" \in Faults
              /\ missed' = missed \cup {k}
              /\ UNCHANGED files
        /\ UNCHANGED <<posts, awaiting, session, heapVars, ring, consVars>>

-----------------------------------------------------------------------------
(* do_http_file on a segment that starts with "HTTP/1." *)

\* " 100": nothing happens.
InterimResponse(k) == awaiting[k] /\ UNCHANGED captureVars

\* Mutants: the flag is not looked at; nothing is handed on.
ResponseQueuedUnguarded(k) ==
    /\ awaiting[k]
    /\ Len(ring) < Qlength
    /\ awaiting' = [awaiting EXCEPT ![k] = FALSE]
    /\ session' = [session EXCEPT ![k].flag = 0]
    /\ ring' = Append(ring, [attr |-> session[k].http, orgname |-> session[k].old_name])
    /\ UNCHANGED <<posts, segments, files, heapVars, consVars, missed>>

ResponseNotQueued(k) ==
    /\ awaiting[k] /\ session[k].flag = 1
    /\ awaiting' = [awaiting EXCEPT ![k] = FALSE]
    /\ session' = [session EXCEPT ![k].flag = 0]
    /\ UNCHANGED <<posts, segments, files, heapVars, ring, consVars, missed>>

ResponseQueued(k) ==
    /\ awaiting[k] /\ session[k].flag = 1
    /\ Len(ring) < Qlength
    /\ awaiting' = [awaiting EXCEPT ![k] = FALSE]
    /\ session' = [session EXCEPT ![k].flag = 0]
    /\ ring' = Append(ring, [attr |-> session[k].http, orgname |-> session[k].old_name])
    /\ UNCHANGED <<posts, segments, files, heapVars, consVars, missed>>

\* The callback does not look at the result of sbuff_putdata.
ResponseLost(k) ==
    /\ awaiting[k] /\ session[k].flag = 1
    /\ "signal" \in Faults
    /\ awaiting' = [awaiting EXCEPT ![k] = FALSE]
    /\ session' = [session EXCEPT ![k].flag = 0]
    /\ missed' = missed \cup {k}
    /\ UNCHANGED <<posts, segments, files, heapVars, ring, consVars>>

\* The client has its answer, the callback has not seen it.
ResponseMissed(k) ==
    /\ awaiting[k]
    /\ "response" \in Faults
    /\ awaiting' = [awaiting EXCEPT ![k] = FALSE]
    /\ missed' = missed \cup {k}
    /\ UNCHANGED <<posts, segments, session, files, heapVars, ring, consVars>>

ResponseIgnored(k) ==
    /\ awaiting[k] /\ session[k].flag = 0
    /\ awaiting' = [awaiting EXCEPT ![k] = FALSE]
    /\ UNCHANGED <<posts, segments, session, files, heapVars, ring, consVars, missed>>

DoHttpFile(k) ==
    \/ PostCaptured(k) \/ PostLost(k) \/ PostIgnored(k)
    \/ MoreData(k) \/ InterimResponse(k) \/ ResponseQueued(k) \/ ResponseLost(k)
    \/ ResponseMissed(k) \/ ResponseIgnored(k)

-----------------------------------------------------------------------------
(* A consumer: http() parses the file into attr, webmail_mail reads attr, and *)
(* webmail_free_HttpSession frees the cookie and then clears the pointer.     *)

Take(c) ==
    /\ cpc[c] = "idle" /\ ring # <<>>
    /\ hdr' = [hdr EXCEPT ![c] = Head(ring)]
    /\ ring' = Tail(ring)
    /\ cpc' = [cpc EXCEPT ![c] = "parse"]
    /\ UNCHANGED <<clientVars, missed, session, files, heapVars>>

ParseFile(c) ==
    /\ cpc[c] = "parse"
    /\ \/ cookie' = [cookie EXCEPT ![hdr[c].attr] = "set"]
       \/ UNCHANGED cookie
    /\ cpc' = [cpc EXCEPT ![c] = "free"]
    /\ UNCHANGED <<clientVars, missed, session, files, freed, ring, hdr>>

FreeCookie(c) ==
    /\ cpc[c] = "free"
    /\ IF cookie[hdr[c].attr] = "none"
       THEN UNCHANGED cookie
       ELSE cookie' = [cookie EXCEPT ![hdr[c].attr] = "freed"]
    /\ cpc' = [cpc EXCEPT ![c] = "clear"]
    /\ UNCHANGED <<clientVars, missed, session, files, freed, ring, hdr>>

ClearCookie(c) ==
    /\ cpc[c] = "clear"
    /\ cookie' = [cookie EXCEPT ![hdr[c].attr] = "none"]
    /\ cpc' = [cpc EXCEPT ![c] = "idle"]
    /\ hdr' = [hdr EXCEPT ![c] = None]
    /\ UNCHANGED <<clientVars, missed, session, files, freed, ring>>

Consume(c) == Take(c) \/ ParseFile(c) \/ FreeCookie(c) \/ ClearCookie(c)

CaptureNext == (\E k \in Keys : DoHttpFile(k)) \/ (\E c \in Consumers : Consume(c))

CaptureSpec == CaptureInit /\ [][CaptureNext]_captureVars

\* Answers come, the callback runs and consumers are scheduled.
FairCapture ==
    /\ CaptureSpec
    /\ \A k \in Keys : SF_captureVars(ResponseQueued(k) \/ ResponseIgnored(k))
    /\ \A c \in Consumers : WF_captureVars(Consume(c))

-----------------------------------------------------------------------------

RingNode == [attr : Post, orgname : Post]

CaptureTypeOK ==
    /\ posts \in [Keys -> 0..MaxPosts]
    /\ segments \in [Post -> 0..MaxSegments]
    /\ awaiting \in [Keys -> BOOLEAN]
    /\ session \in [Keys -> [flag : {0, 1}, http : Post \cup {None}, old_name : Post \cup {None}]]
    /\ files \in [Post -> Seq(Segment)]
    /\ cookie \in [Post -> {"none", "set", "freed"}]
    /\ freed \in SUBSET Post
    /\ ring \in Seq(RingNode)
    /\ hdr \in [Consumers -> RingNode \cup {None}]
    /\ cpc \in [Consumers -> {"idle", "parse", "free", "clear"}]
    /\ missed \in SUBSET Keys

\* Nodes on their way: in the ring or with a consumer.
Nodes == {ring[i] : i \in DOMAIN ring} \cup ({hdr[c] : c \in Consumers} \ {None})

\* No two nodes on their way name the same file.
HandedOnOnce ==
    /\ \A i, j \in DOMAIN ring : ring[i].orgname = ring[j].orgname => i = j
    /\ \A i \in DOMAIN ring, c \in Consumers : hdr[c] # ring[i]
    /\ \A c, d \in Consumers : hdr[c] = hdr[d] /\ hdr[c] # None => c = d

\* What is handed on is one POST: the structure and the file were made for the same
\* POST, the file starts with its first segment and, unless something was lost on
\* the connection, holds all of its segments and nothing else, in order - also when
\* earlier or later POSTs of the connection could not be captured; and a POST is handed
\* on once.
NodeIsOnePost ==
    /\ CaptureTypeOK /\ HandedOnOnce
    /\ \A n \in Nodes :
          LET p == n.orgname
          IN  /\ n.attr = p
              /\ files[p] # <<>> /\ files[p][1] = <<p[1], p[2], 1>>
              /\ p[1] \notin missed =>
                     files[p] = [i \in 1..segments[p] |-> <<p[1], p[2], i>>]

\* How long a structure lives: the one a session points to is not freed, and a node
\* on its way points to freed memory only if its connection has sent a later POST.
AttrOutlivesItsPost ==
    /\ \A k \in Keys : session[k].http \notin freed
    /\ \A n \in Nodes : n.attr \in freed => posts[n.attr[1]] > n.attr[2]

\* Every POST that was captured is handed to a consumer in the end, unless something
\* was lost on its connection.
Captured(p) == session[p[1]].flag = 1 /\ session[p[1]].http = p
Taken(p)    == \E c \in Consumers : hdr[c] # None /\ hdr[c].attr = p

CapturedIsTaken == \A p \in Post : Captured(p) ~> (Taken(p) \/ p[1] \in missed)
=============================================================================
