----------------------------- MODULE ChatUpload -----------------------------
(***************************************************************************)
(* How http_IM_parser.c and http_fei_xin.c put together a file that a chat *)
(* program sends in several POSTs.  Workers take POSTs, and meet in a note *)
(* (the .dlp file, named after the connection or an id in the request) and *)
(* in the file of the data, whose uuid the note holds; there is no lock.   *)
(* The worker that finds the file complete announces it and removes the    *)
(* note.                                                                   *)
(*   Q13    http_QQ_2013          offset and size in the URL               *)
(*   Q14    http_QQ_2014          number of the block and end in the body  *)
(*   GOS    http_QQ_2014_GOS      the same, for two sizes of block         *)
(*   Fei    http_feition          a session of SessionTable holds what the *)
(*                                first request says of the file; each     *)
(*                                block ends with "fin=", which is counted *)
(*   Fei5   http_feition_5_5_38   offset and size in the headers           *)
(*   Yahoo  http_Yahoo_Messager   one POST is a file                       *)
(*   Blog   blog                  one POST is a text, if its pattern fits  *)
(*                                                                         *)
(* A unit of data stands for 65536 bytes, so that a block of kind k has k  *)
(* units; the 1000 bytes of the first POST of Q14 are one unit as well.    *)
(* The chat programs, the capture and the caller of http_IM are external.  *)
(***************************************************************************)
EXTENDS SessionTable

CONSTANTS
    Workers,  \* threads that call http_IM
    Plans,    \* what chat programs do: each plan is a sequence of uploads
    Faults,   \* which of "lost" (a POST is not captured), "body" (its file is
              \* missing) and "memory" (no room for the JSON) occur
    MaxFaults \* how often, in one behaviour

Single == {"Yahoo", "Blog"}
Noted  == {"Q13", "Q14", "GOS", "Fei", "Fei5"}

\* An upload: its kind, the name of its note, its connection, its name, the lengths
\* of its parts, the block size of its program, and which parts are marked: end in
\* "fin=" (Fei) or fit the pattern (Blog).  The programs of Q14 and GOS send full
\* blocks but for the last, that of Q14 after a first POST of its own.
ChatUploadAssumption ==
    /\ MaxFaults \in Nat
    /\ \A plan \in Plans : \A u \in DOMAIN plan :
          /\ plan[u].kind \in Single \cup Noted
          /\ plan[u].conn \in Keys
          /\ plan[u].parts \in Seq(Nat \ {0}) /\ plan[u].parts # <<>>
          /\ plan[u].marked \subseteq 1..Len(plan[u].parts)
          /\ plan[u].kind \in Single => Len(plan[u].parts) = 1
          /\ plan[u].kind = "Fei" => Len(plan[u].parts) \in plan[u].marked
          /\ plan[u].kind = "Q14" => plan[u].block = 2 /\ plan[u].parts[1] = 1
          /\ plan[u].kind = "GOS" =>
                plan[u].block \in {2, 4} /\ plan[u].parts[1] <= plan[u].block
          /\ plan[u].kind \in {"Q14", "GOS"} =>
                \A i \in 1..(Len(plan[u].parts) - 1) :
                    plan[u].parts[i] = plan[u].block \/ (i = 1 /\ plan[u].kind = "Q14")

ASSUME ChatUploadAssumption

VARIABLES
    uploads,    \* the plan
    posted,     \* the POSTs of each upload that were sent
    taken,      \* those that workers have taken
    pc,         \* where each worker stands
    post,       \* the POST it holds
    got,        \* its f_inf and locals
    note,       \* directory: which note a name leads to, 0 for none
    notes,      \* contents of the notes, removed ones included
    data,       \* the files of data, by uuid
    uuids,      \* how many uuids were made
    tbl,        \* ftp_session_tbl
    sessions,   \* the http_IM_session of each bucket
    freed,      \* buckets that were freed
    announced,  \* history: what was announced
    faults,     \* history: how many failures there were
    disturbed   \* history: uploads whose POSTs did not come one at a time, in order

fileVars    == <<note, notes, data, uuids>>
sessionVars == <<tbl, sessions, freed>>
planVars    == <<uploads, posted, taken>>
workVars    == <<pc, post, got>>
histVars    == <<announced, faults, disturbed>>
vars == <<planVars, workVars, fileVars, sessionVars, histVars>>

Ids == DOMAIN uploads
Sum(s) ==
    LET upTo[n \in 0..Len(s)] == IF n = 0 THEN 0 ELSE upTo[n - 1] + s[n] IN upTo[Len(s)]

Count(u)     == Len(uploads[u].parts)
Size(u)      == Sum(uploads[u].parts)
Offset(u, i) == Sum(SubSeq(uploads[u].parts, 1, i - 1))
Units(u, i)  == [k \in 1..uploads[u].parts[i] |-> <<u, Offset(u, i) + k>>]
Whole(u)     == [k \in 1..Size(u) |-> <<u, k>>]
Hole         == <<0, 0>>

\* The POSTs of an upload: Fei has one before the parts and one after them.
Posts(u)     == IF uploads[u].kind = "Fei" THEN 0..(Count(u) + 1) ELSE 1..Count(u)
FirstPost(u) == IF uploads[u].kind = "Fei" THEN 0 ELSE 1

\* A note is a sequence of items: a header, and the "1" of each finished block.
Header(uid, num, fn, fs) == [uid |-> uid, num |-> num, fn |-> fn, fs |-> fs, len |-> 470]
One                      == [uid |-> 0, num |-> 0, fn |-> 0, fs |-> 0, len |-> 1]
LengthOf(items)          == Sum([k \in DOMAIN items |-> items[k].len])

\* What fread finds at the places of a header.
Read(items) ==
    IF items # <<>> /\ items[1].len = 470 THEN items[1] ELSE One

Nothing == [uid |-> 0, num |-> 0, fn |-> 0, fs |-> 0, flen |-> 0, fd |-> 0, bucket |-> NULL]

Init ==
    /\ uploads \in Plans
    /\ posted = [u \in Ids |-> {}]
    /\ taken = [u \in Ids |-> {}]
    /\ pc = [w \in Workers |-> "idle"]
    /\ post = [w \in Workers |-> <<0, 0>>]
    /\ got = [w \in Workers |-> Nothing]
    /\ note = [f \in {uploads[u].note : u \in Ids} |-> 0]
    /\ notes = <<>>
    /\ data = <<>>
    /\ uuids = 0
    /\ tbl = CreateHash
    /\ sessions = <<>>
    /\ freed = {}
    /\ announced = <<>>
    /\ faults = 0
    /\ disturbed = {}

-----------------------------------------------------------------------------
(* The chat program and the capture *)

\* The parts of these go over any connection, in any order; the first request of Fei
\* comes before them, the last one after.
AnyOrder == {"Q13", "Fei", "Fei5"}

NextPosts(u) ==
    {i \in Posts(u) \ posted[u] :
        LET before == {j \in Posts(u) : j < i}
        IN  IF uploads[u].kind \in AnyOrder /\ i \in 1..Count(u)
            THEN before \ (1..Count(u)) \subseteq posted[u]
            ELSE before \subseteq posted[u]}

Failure(kind, u) ==
    /\ kind \in Faults /\ faults < MaxFaults
    /\ faults' = faults + 1
    /\ disturbed' = disturbed \cup {u}

\* A POST that the capture misses.
Lose(u) ==
    /\ Failure("lost", u)
    /\ \E i \in NextPosts(u) : posted' = [posted EXCEPT ![u] = @ \cup {i}]
    /\ UNCHANGED <<uploads, taken, workVars, fileVars, sessionVars, announced>>

Upload(w) == post[w][1]
Number(w) == post[w][2]
Kind(w)   == uploads[Upload(w)].kind
Name(w)   == uploads[Upload(w)].note
Conn(w)   == uploads[Upload(w)].conn
Length(w) == uploads[Upload(w)].parts[Number(w)]
Place(w)  == Offset(Upload(w), Number(w))
IsLast(w) == Number(w) = Count(Upload(w))
Marked(w) == Number(w) \in uploads[Upload(w)].marked
Busy(w)   == pc[w] # "idle"

\* The uploads that u meets in a note or, Fei, in a session.
Met(u) ==
    {v \in Ids : \/ uploads[v].note = uploads[u].note
                 \/ /\ uploads[v].conn = uploads[u].conn
                    /\ uploads[u].kind = "Fei" /\ uploads[v].kind = "Fei"}

\* Whom the taking of POST i of u disturbs.
Disturbed(u, i) ==
    LET others == Met(u) \ {u}
        held   == {Upload(w) : w \in {v \in Workers : Busy(v)}} \cap Met(u)
        begun  == {v \in others : taken[v] # {} /\ taken[v] # Posts(v)}
    IN  (IF held \cup begun # {} THEN held \cup begun \cup {u} ELSE {})
        \cup (IF i # Cardinality(taken[u]) + FirstPost(u) \/ others \cap disturbed # {} THEN {u} ELSE {})

\* http_IM: which parser a POST goes to.
Dispatch(u, i) ==
    CASE uploads[u].kind = "Blog"                        -> "blog"
      [] uploads[u].kind = "Yahoo"                       -> "whole"
      [] uploads[u].kind = "Fei" /\ i = 0                -> "init"
      [] uploads[u].kind = "Fei" /\ i = Count(u) + 1     -> "finish"
      [] OTHER                                           -> "look"

\* A worker takes the POSTs in the order they are sent in.
Take(w) ==
    /\ ~Busy(w)
    /\ \E u \in Ids : \E i \in NextPosts(u) :
        /\ posted' = [posted EXCEPT ![u] = @ \cup {i}]
        /\ taken' = [taken EXCEPT ![u] = @ \cup {i}]
        /\ post' = [post EXCEPT ![w] = <<u, i>>]
        /\ disturbed' = disturbed \cup Disturbed(u, i)
        /\ pc' = [pc EXCEPT ![w] = Dispatch(u, i)]
    /\ UNCHANGED <<uploads, got, fileVars, sessionVars, announced, faults>>

-----------------------------------------------------------------------------
(* Finding or making the note *)

\* A worker goes on with the locals g; at the end of http_IM it holds nothing.
GoWith(w, place, g) ==
    /\ pc' = [pc EXCEPT ![w] = place]
    /\ post' = [post EXCEPT ![w] = IF place = "idle" THEN <<0, 0>> ELSE @]
    /\ got' = [got EXCEPT ![w] = IF place = "idle" THEN Nothing ELSE g]

Goto(w, place) == GoWith(w, place, got[w])
Leave(w)       == Goto(w, "idle")

Items(w) == IF note[Name(w)] = 0 THEN <<>> ELSE notes[note[Name(w)]]

\* fopen "r", and access for Fei and Fei5, which open the note later.
Look(w) ==
    /\ pc[w] = "look"
    /\ IF note[Name(w)] = 0
       THEN Goto(w, IF Kind(w) = "Fei" THEN "session" ELSE "begin")
       ELSE \E h \in {Read(Items(w))} :
            GoWith(w, IF Kind(w) \in {"Fei", "Fei5"} THEN "reopen" ELSE "rewrite",
                   [got[w] EXCEPT !.uid = h.uid, !.num = h.num])
    /\ UNCHANGED <<planVars, fileVars, sessionVars, histVars>>

\* http_feition: find_hash with the four addresses; without a session the part is
\* passed over.
FindSession(w) ==
    /\ pc[w] = "session"
    /\ \E b \in {FindHash(tbl, Conn(w))} :
        GoWith(w, IF b = NULL THEN "idle" ELSE "begin", [got[w] EXCEPT !.bucket = b])
    /\ UNCHANGED <<planVars, fileVars, sessionVars, histVars>>

Opened(f) == IF note[f] = 0 THEN Len(notes) + 1 ELSE note[f]

\* Opening the note "w" empties it, "a+" does not.
OpenNote(w, emptied) ==
    /\ note' = [note EXCEPT ![Name(w)] = Opened(Name(w))]
    /\ notes' = IF note[Name(w)] = 0 THEN Append(notes, <<>>)
                ELSE IF emptied THEN [notes EXCEPT ![note[Name(w)]] = <<>>]
                ELSE notes

\* 4 for a POST longer than QQ_6_3_MAX_BLOCK, 2 for others
KindOfBlock(w) == IF Length(w) > 2 THEN 4 ELSE 2

\* What is read of a session.  If another worker has freed it, the allocator may have
\* used the place of block.
Contents(b) ==
    {sessions[b]} \cup (IF b \in freed THEN {[sessions[b] EXCEPT !.block = 0]} ELSE {})

\* The note is opened for writing; its uuid is new, or the session's.
Begin(w) ==
    /\ pc[w] = "begin"
    /\ OpenNote(w, Kind(w) # "Fei")
    /\ \/ /\ Kind(w) = "Fei"
          /\ \E s \in Contents(got[w].bucket) :
                GoWith(w, "fill", [got[w] EXCEPT !.uid = s.uid, !.num = s.block + 1, !.fn = s.fn,
                                                 !.fs = s.fs, !.fd = Opened(Name(w))])
          /\ UNCHANGED uuids
       \/ /\ Kind(w) # "Fei"
          /\ uuids' = uuids + 1
          /\ GoWith(w, "fill", [got[w] EXCEPT !.uid = uuids', !.num = KindOfBlock(w),
                                              !.fd = Opened(Name(w))])
    /\ UNCHANGED <<planVars, data, sessionVars, histVars>>

\* fclose: what was written reaches the note.
Fill(w) ==
    /\ pc[w] = "fill"
    /\ \E h \in {Header(got[w].uid, got[w].num, got[w].fn, got[w].fs)} :
        notes' = [notes EXCEPT ![got[w].fd] = IF Kind(w) = "Fei" THEN Append(@, h) ELSE <<h>>]
    /\ Goto(w, "write")
    /\ UNCHANGED <<planVars, note, data, uuids, sessionVars, histVars>>

\* Mutant: the length is taken before the "1" is added.
ReopenedBefore(w) ==
    [got[w] EXCEPT !.fd = Opened(Name(w)),
                   !.flen = IF Marked(w) THEN LengthOf(Items(w)) ELSE 0]

\* The note that Fei opens "a+"; if the part ends a block, its length with the "1"
\* that is about to be added.
Reopened(w) ==
    [got[w] EXCEPT !.fd = Opened(Name(w)),
                   !.flen = IF Marked(w) THEN LengthOf(Items(w)) + 1 ELSE 0]

\* Fei5 has only asked whether there is a note, and gives up if it is gone.
Reopen(w) ==
    /\ pc[w] = "reopen"
    /\ \/ /\ Kind(w) = "Fei"
          /\ OpenNote(w, FALSE)
          /\ GoWith(w, "count", Reopened(w))
       \/ /\ Kind(w) = "Fei5"
          /\ IF note[Name(w)] = 0 THEN Leave(w)
             ELSE GoWith(w, "rewrite", [got[w] EXCEPT !.uid = Read(Items(w)).uid])
          /\ UNCHANGED <<note, notes>>
    /\ UNCHANGED <<planVars, data, uuids, sessionVars, histVars>>

\* fseek sends the "1" to the end of the note; then its header is read.
CountBlock(w) ==
    /\ pc[w] = "count"
    /\ \E items \in {notes[got[w].fd]} :
        /\ notes' = [notes EXCEPT ![got[w].fd] = IF Marked(w) THEN Append(items, One) ELSE items]
        /\ GoWith(w, "rewrite", [got[w] EXCEPT !.uid = Read(notes'[got[w].fd]).uid,
                                               !.num = Read(notes'[got[w].fd]).num])
    /\ UNCHANGED <<planVars, note, data, uuids, sessionVars, histVars>>

-----------------------------------------------------------------------------
(* Writing the part *)

At(s, n, piece) ==
    [k \in 1..(IF n + Len(piece) > Len(s) THEN n + Len(piece) ELSE Len(s)) |->
        IF k \in (n + 1)..(n + Len(piece)) THEN piece[k - n]
        ELSE IF k \in 1..Len(s) THEN s[k] ELSE Hole]

\* The two bytes of the body that place a block: the high half of its offset, for Q14
\* counted without the first POST.
Bp(w) ==
    LET offset == IF Kind(w) = "Q14" THEN Place(w) - uploads[Upload(w)].parts[1] ELSE Place(w)
    IN  <<offset \div 256, offset % 256>>

\* The byte of the body that tells the last block; the others have the block's size.
EndFlag(w) == IF IsLast(w) THEN 1 ELSE uploads[Upload(w)].block

PostNumTwo(bp)  == bp[1] * 128 + (bp[2] \div 16) * 8 + (bp[2] % 16) \div 2
PostNumFour(bp) == bp[1] * 64 + (bp[2] \div 16) * 4 + (bp[2] % 16) \div 4

\* Mutant: the first POST of Q14 is as long as the others.
NextRangeFlat(w) ==
    CASE Kind(w) = "Q14"                    -> PostNumTwo(Bp(w)) * 2
      [] Kind(w) = "GOS" /\ got[w].num = 2  -> PostNumTwo(Bp(w)) * 2
      [] Kind(w) = "GOS" /\ got[w].num = 4  -> PostNumFour(Bp(w)) * 4
      [] OTHER                              -> Place(w)

\* Where a part goes: as its block number says, or as the request does.
NextRange(w) ==
    CASE Kind(w) = "Q14"                    -> PostNumTwo(Bp(w)) * 2 + 1
      [] Kind(w) = "GOS" /\ got[w].num = 2  -> PostNumTwo(Bp(w)) * 2
      [] Kind(w) = "GOS" /\ got[w].num = 4  -> PostNumFour(Bp(w)) * 4
      [] OTHER                              -> Place(w)

\* The first part goes to the beginning, but for Fei.
FirstRange(w) == IF Kind(w) = "Fei" THEN Place(w) ELSE 0

Ended(w) == EndFlag(w) # got[w].num

\* Is the file complete, when its note has just been made?
FirstCompletes(w) ==
    CASE Kind(w) \in {"Q13", "Q14"} -> Length(w) = Size(Upload(w))
      [] Kind(w) = "GOS"            -> Ended(w)
      [] Kind(w) = "Fei5"           -> IsLast(w)
      [] Kind(w) = "Fei"            -> Marked(w)
      [] Kind(w) = "Yahoo"          -> TRUE

\* Mutant: the blocks are counted without the one that is still to come.
NextCompletesEarly(w) ==
    CASE Kind(w) = "Q13"  -> Place(w) + Length(w) = Size(Upload(w))
      [] Kind(w) = "Q14"  -> EndFlag(w) # 2
      [] Kind(w) = "GOS"  -> Ended(w)
      [] Kind(w) = "Fei5" -> IsLast(w)
      [] Kind(w) = "Fei"  -> got[w].flen - 470 = got[w].num - 1

\* And when it was there before?
NextCompletes(w) ==
    CASE Kind(w) = "Q13"  -> Place(w) + Length(w) = Size(Upload(w))
      [] Kind(w) = "Q14"  -> EndFlag(w) # 2
      [] Kind(w) = "GOS"  -> Ended(w)
      [] Kind(w) = "Fei5" -> IsLast(w)
      [] Kind(w) = "Fei"  -> got[w].flen - 470 = got[w].num

\* Q14 and GOS read the body themselves and give the part up if they cannot; the
\* others do not ask whether write_first_post and wirte_IM_file could.
Asks(w) == Kind(w) \in {"Q14", "GOS"}

\* What the first part tells of the file; the session has told it for Fei.
FirstInf(w) ==
    IF Kind(w) = "Fei" THEN got[w]
    ELSE [got[w] EXCEPT !.fn = uploads[Upload(w)].name,
                        !.fs = IF Kind(w) \in {"GOS", "Yahoo"} THEN Length(w) ELSE Size(Upload(w))]

\* write_first_post: the file of data is emptied, and the part put at its place.
FirstData(w) == With(data, got[w].uid, At(<<>>, FirstRange(w), Units(Upload(w), Number(w))))

\* wirte_IM_file: the part is put into the file that is there.
NextData(w) ==
    [data EXCEPT ![got[w].uid] = At(@, NextRange(w), Units(Upload(w), Number(w)))]

\* The part is written into the file of a new note.
WriteFirst(w) ==
    /\ pc[w] = "write"
    /\ \/ /\ data' = FirstData(w)
          /\ GoWith(w, IF FirstCompletes(w) THEN "tell" ELSE "idle", FirstInf(w))
          /\ UNCHANGED <<faults, disturbed>>
       \/ /\ Failure("body", Upload(w))
          /\ GoWith(w, IF FirstCompletes(w) /\ ~Asks(w) THEN "tell" ELSE "idle", FirstInf(w))
          /\ UNCHANGED data
    /\ UNCHANGED <<planVars, note, notes, uuids, sessionVars, announced>>

\* The part is written into the file of a note that was there: fopen "r+" wants that
\* file to exist.
WriteNext(w) ==
    /\ pc[w] = "rewrite"
    /\ IF got[w].uid \in DOMAIN data
       THEN \/ /\ data' = NextData(w)
               /\ Goto(w, IF NextCompletes(w) THEN "reread" ELSE "idle")
               /\ UNCHANGED <<faults, disturbed>>
            \/ /\ Failure("body", Upload(w))
               /\ Goto(w, IF NextCompletes(w) /\ ~Asks(w) THEN "reread" ELSE "idle")
               /\ UNCHANGED data
       ELSE /\ Goto(w, IF NextCompletes(w) /\ ~Asks(w) THEN "reread" ELSE "idle")
            /\ UNCHANGED <<data, faults, disturbed>>
    /\ UNCHANGED <<planVars, note, notes, uuids, sessionVars, announced>>

\* http_Yahoo_Messager: a file of its own for every POST.
WholeFile(w) ==
    /\ pc[w] = "whole"
    /\ uuids' = uuids + 1
    /\ GoWith(w, "write", [got[w] EXCEPT !.uid = uuids'])
    /\ UNCHANGED <<planVars, note, notes, data, sessionVars, histVars>>

\* paser_blog: the pattern of the site is found in the body.
Fits(w) == Marked(w)

\* blog: what the pattern finds becomes a file of its own.
Blog(w) ==
    /\ pc[w] = "blog"
    /\ uuids' = uuids + 1
    /\ \/ /\ Fits(w)
          /\ data' = With(data, uuids', Units(Upload(w), 1))
          /\ GoWith(w, "tell", [got[w] EXCEPT !.uid = uuids'])
          /\ UNCHANGED <<faults, disturbed>>
       \/ ~Fits(w) /\ Leave(w) /\ UNCHANGED <<data, faults, disturbed>>
       \/ Failure("body", Upload(w)) /\ Leave(w) /\ UNCHANGED data
    /\ UNCHANGED <<planVars, note, notes, sessionVars, announced>>

-----------------------------------------------------------------------------
(* Announcing the file *)

\* The note is read once more, for what only it knows; if it is gone, that is all.
\* Fei5 has read it before.
Reread(w) ==
    /\ pc[w] = "reread"
    /\ \E h \in {Read(Items(w))} :
        GoWith(w, IF note[Name(w)] = 0 /\ Kind(w) # "Fei5" THEN "idle" ELSE "tell",
               [got[w] EXCEPT !.fn = IF Kind(w) = "Fei" THEN h.fn ELSE uploads[Upload(w)].name,
                              !.fs = IF Kind(w) = "Fei" THEN h.fs ELSE Size(Upload(w))])
    /\ UNCHANGED <<planVars, fileVars, sessionVars, histVars>>

\* http_IM_pro_jsonstr and sbuff_putdata: the path, name and size of the file; nobody
\* asks whether it succeeds.
Tell(w) ==
    /\ pc[w] = "tell"
    /\ \/ /\ announced' = Append(announced, [upload |-> Upload(w), uid |-> got[w].uid,
                                             fn |-> got[w].fn, fs |-> got[w].fs,
                                             counted |-> got[w].flen # 0])
          /\ UNCHANGED <<faults, disturbed>>
       \/ Failure("memory", Upload(w)) /\ UNCHANGED announced
    /\ Goto(w, IF Kind(w) \in Single THEN "idle" ELSE "remove")
    /\ UNCHANGED <<planVars, fileVars, sessionVars>>

\* remove(inf_file)
RemoveNote(w) ==
    /\ pc[w] = "remove"
    /\ note' = [note EXCEPT ![Name(w)] = 0]
    /\ Leave(w)
    /\ UNCHANGED <<planVars, notes, data, uuids, sessionVars, histVars>>

-----------------------------------------------------------------------------
(* The session of http_feition *)

\* parser_feition_init and find_hash: nothing is done if there is a session already.
InitSession(w) ==
    /\ pc[w] = "init"
    /\ \/ /\ Goto(w, IF FindHash(tbl, Conn(w)) = NULL THEN "insert" ELSE "idle")
          /\ UNCHANGED <<faults, disturbed>>
       \/ Failure("body", Upload(w)) /\ Leave(w)
    /\ UNCHANGED <<planVars, fileVars, sessionVars, announced>>

\* insert_hash: block is the number of the last block, counted from 0.
InsertSession(w) ==
    /\ pc[w] = "insert"
    /\ uuids' = uuids + 1
    /\ sessions' = Append(sessions, [of    |-> Upload(w), uid |-> uuids',
                                     block |-> Cardinality(uploads[Upload(w)].marked) - 1,
                                     fn    |-> uploads[Upload(w)].name,
                                     fs    |-> Size(Upload(w))])
    /\ tbl' = InsertHash(tbl, Len(sessions'), Conn(w))
    /\ Leave(w)
    /\ UNCHANGED <<planVars, note, notes, data, freed, histVars>>

\* Mutant: the session is freed and stays in the table.
FinishFreesOnly(w) ==
    /\ pc[w] = "finish"
    /\ \E b \in {FindHash(tbl, Conn(w))} : freed' = freed \cup ({b} \ {NULL})
    /\ Leave(w)
    /\ UNCHANGED <<planVars, fileVars, tbl, sessions, histVars>>

\* find_hash, remove_hash and free; the code then clears a field of the freed bucket.
FinishSession(w) ==
    /\ pc[w] = "finish"
    /\ \E b \in {FindHash(tbl, Conn(w))} :
        /\ tbl' = IF b = NULL THEN tbl ELSE RemoveHash(tbl, b)
        /\ freed' = freed \cup ({b} \ {NULL})
    /\ Leave(w)
    /\ UNCHANGED <<planVars, fileVars, sessions, histVars>>

Work(w) ==
    \/ Look(w) \/ FindSession(w) \/ Begin(w) \/ Fill(w) \/ Reopen(w)
    \/ CountBlock(w) \/ WriteFirst(w) \/ WriteNext(w) \/ WholeFile(w) \/ Blog(w)
    \/ Reread(w) \/ Tell(w) \/ RemoveNote(w)
    \/ InitSession(w) \/ InsertSession(w) \/ FinishSession(w)

Next == (\E u \in Ids : Lose(u)) \/ (\E w \in Workers : Take(w) \/ Work(w))

Spec == Init /\ [][Next]_vars

\* A worker goes on with the POST it has taken; nothing makes a chat program send.
FairSpec == Spec /\ \A w \in Workers : WF_vars(Work(w))

-----------------------------------------------------------------------------

TypeOK ==
    /\ \A u \in Ids : taken[u] \subseteq posted[u] /\ posted[u] \subseteq Posts(u)
    /\ \A f \in DOMAIN note : note[f] \in 0..Len(notes)
    /\ DOMAIN data \subseteq 1..uuids
    /\ freed \subseteq DOMAIN sessions /\ In(tbl) \subseteq DOMAIN sessions
    /\ disturbed \subseteq Ids

About(u) == {k \in DOMAIN announced : announced[k].upload = u}

\* http_feition announces a file of several blocks with its first part, if that part
\* ends its block (http_IM_parser.c:1638).
EndsFirstBlock(u) ==
    uploads[u].kind = "Fei" /\ 1 \in uploads[u].marked /\ Count(u) > 1

\* A file whose POSTs came one at a time, in order, with no other of the same note or
\* session in between and without a failure, is announced once at most, with every
\* unit in its place and its own name and size (http_IM_parser.c:621-1802); a file
\* announced with its first part leaves its note behind to the next of that name.
AnnouncedWhole ==
    \A u \in Ids \ disturbed : (\A v \in Met(u) : ~EndsFirstBlock(v)) =>
        /\ Cardinality(About(u)) <= 1
        /\ \A k \in About(u) :
            /\ announced[k].uid \in DOMAIN data /\ data[announced[k].uid] = Whole(u)
            /\ uploads[u].kind # "Blog" =>
                  announced[k].fn = uploads[u].name /\ announced[k].fs = Size(u)

\* Whatever the order in which workers handle the parts, and whichever are lost, a
\* file that http_feition announces by its count has had the end of every block, as
\* long as its session has not been finished (lines 1674-1697).  Two first parts may
\* write a header each, and 470 bytes of the second one count as blocks: what is said
\* is of files with fewer.
BlocksCounted ==
    \A k \in DOMAIN announced : \A u \in {announced[k].upload} :
        /\ announced[k].counted
        /\ Met(u) = {u} /\ Count(u) + 1 \notin taken[u]
        /\ Cardinality(uploads[u].marked) <= 400
        => uploads[u].marked \subseteq taken[u]

\* The table of sessions stays linked, and once the last request of an undisturbed
\* upload has been handled its session is out of the table and freed.
SessionsReleased ==
    /\ TypeOK
    /\ Linked(tbl)
    /\ \A u \in Ids \ disturbed :
        (taken[u] = Posts(u) /\ \A w \in Workers : Busy(w) => Upload(w) # u)
        => \A b \in DOMAIN sessions : sessions[b].of = u => b \in freed /\ b \notin In(tbl)

\* A file of which every POST has come, one at a time and in order and without a
\* failure, is announced at last.
WholeIsAnnounced ==
    \A u \in 1..2 :
        (u \in Ids /\ taken[u] = Posts(u))
        ~> (u \in Ids => About(u) # {} \/ u \in disturbed
                         \/ (uploads[u].kind = "Blog" /\ uploads[u].marked = {}))
=============================================================================
