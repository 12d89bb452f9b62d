--------------------------- MODULE UploadAssembly ---------------------------
(***************************************************************************)
(* How webmail_parser.c puts together an attachment that a browser uploads *)
(* in several POSTs.  Each POST is a node of the session ring and may be   *)
(* taken by another worker; the workers meet in one file per attachment,   *)
(* named after the four addresses of the connection or after an id in the  *)
(* request, and in nothing else: there is no lock.  The worker that finds  *)
(* the attachment complete renames the file and announces it.              *)
(*                                                                         *)
(* The five ways of doing so differ in how the file is opened and in what  *)
(* tells that the attachment is complete:                                  *)
(*   append  wyattach, attach2_139, attach3_139: at the end; the length    *)
(*   flag    QQattach: at the end; a byte in the last part                 *)
(*   last    QQattach2: at the part's offset; the last part                *)
(*   range   mch_att_139_multi_session: the same, but for the first part   *)
(*   length  sohu_attach2: at the part's offset; the length                *)
(*                                                                         *)
(* A file name leads to a file (an inode), which keeps its identity when   *)
(* it is renamed; what was opened stays open.  What fwrite buffers is in   *)
(* the file at fclose.  The browser, the capture and the loop that takes   *)
(* nodes and calls webmail_mail are external.                              *)
(***************************************************************************)
EXTENDS Integers, Sequences, FiniteSets, SequencesExt

CONSTANTS
    Workers,  \* threads that take nodes from the ring
    Plans,    \* what browsers do: each plan is a sequence of uploads
    Faults    \* which of "lost" (a POST is not captured) and "file" (no file) occur

Appending  == {"append", "flag"}              \* fopen "a+"
Positioned == {"last", "range", "length"}     \* fseek to the offset of the part

\* An upload: by whom it is handled, the name of its file, and where each of its parts
\* ends, the last one at the size of the attachment.
UploadAssemblyAssumption ==
    \A plan \in Plans : \A k \in DOMAIN plan :
        /\ plan[k].kind \in Appending \cup Positioned
        /\ plan[k].ends \in Seq(Nat \ {0}) /\ plan[k].ends # <<>>
        /\ \A i, j \in DOMAIN plan[k].ends : i < j => plan[k].ends[i] < plan[k].ends[j]

ASSUME UploadAssemblyAssumption

VARIABLES
    uploads,     \* the plan
    posted,      \* the parts of each upload the browser has sent
    ring,        \* the session ring: parts <<upload, number>>
    pc,          \* where each worker stands
    part,        \* the part each worker holds
    fp,          \* the file each worker has open
    fresh,       \* whether the worker has just created it with "w+"
    now_length,  \* its length when it was opened
    name,        \* directory: which file a name leads to, 0 for none
    data,        \* contents of the files
    announced,   \* history: uploads announced, with the file that was renamed
    taken,       \* history: how many parts of each upload workers have taken
    disturbed    \* history: uploads whose parts did not come one at a time, in order

workVars == <<pc, part, fp, fresh, now_length>>
fileVars == <<name, data>>
vars == <<uploads, posted, ring, workVars, fileVars, announced, taken, disturbed>>

Ids   == DOMAIN uploads
Names == {uploads[u].file : u \in Ids}
Count(u)     == Len(uploads[u].ends)
Size(u)      == uploads[u].ends[Count(u)]
Offset(u, i) == IF i = 1 THEN 0 ELSE uploads[u].ends[i - 1]
Extent(u, i) == uploads[u].ends[i] - Offset(u, i)

\* The units of part i of u.  A file is a sequence of units; fseek leaves holes.
Hole        == <<0, 0>>
Units(u, i) == [k \in 1..Extent(u, i) |-> <<u, Offset(u, i) + k>>]
Whole(u)    == [k \in 1..Size(u) |-> <<u, k>>]

Init ==
    /\ uploads \in Plans
    /\ posted = [u \in Ids |-> {}]
    /\ ring = <<>>
    /\ pc = [w \in Workers |-> "idle"]
    /\ part = [w \in Workers |-> <<0, 0>>]
    /\ fp = [w \in Workers |-> 0]
    /\ fresh = [w \in Workers |-> FALSE]
    /\ now_length = [w \in Workers |-> 0]
    /\ name = [f \in Names |-> 0]
    /\ data = <<>>
    /\ announced = <<>>
    /\ taken = [u \in Ids |-> 0]
    /\ disturbed = {}

-----------------------------------------------------------------------------
(* The browser and the ring *)

\* Parts that go to the end of the file are sent one after the other on one
\* connection, the others on any.
NextParts(u) ==
    {i \in (1..Count(u)) \ posted[u] :
        uploads[u].kind \in Appending => i = Cardinality(posted[u]) + 1}

Post(u) ==
    \E i \in NextParts(u) :
        /\ posted' = [posted EXCEPT ![u] = @ \cup {i}]
        /\ \/ /\ ring' = Append(ring, <<u, i>>)
              /\ UNCHANGED disturbed
           \/ /\ "lost" \in Faults
              /\ disturbed' = disturbed \cup {u}
              /\ UNCHANGED ring
        /\ UNCHANGED <<uploads, workVars, fileVars, announced, taken>>

Upload(w) == part[w][1]
Number(w) == part[w][2]
File(w)   == uploads[Upload(w)].file
Kind(w)   == uploads[Upload(w)].kind
Length(w) == Extent(Upload(w), Number(w))
IsLast(w) == Number(w) = Count(Upload(w))

Busy(w) == pc[w] # "idle"

SameFile(u) == {v \in Ids : uploads[v].file = uploads[u].file}

\* Whom the taking of part i of u disturbs.
Disturbed(u, i) ==
    LET others == SameFile(u) \ {u}
        held   == {Upload(w) : w \in {v \in Workers : Busy(v)}} \cap SameFile(u)
        begun  == {v \in others : taken[v] \in 1..(Count(v) - 1)}
    IN  (IF held \cup begun # {} THEN held \cup begun \cup {u} ELSE {})
        \cup (IF i # taken[u] + 1 \/ others \cap disturbed # {} THEN {u} ELSE {})

Take(w) ==
    /\ ~Busy(w) /\ ring # <<>>
    /\ LET u == Head(ring)[1]
           i == Head(ring)[2]
       IN  /\ part' = [part EXCEPT ![w] = <<u, i>>]
           /\ taken' = [taken EXCEPT ![u] = @ + 1]
           /\ disturbed' = disturbed \cup Disturbed(u, i)
    /\ ring' = Tail(ring)
    /\ pc' = [pc EXCEPT ![w] = "look"]
    /\ UNCHANGED <<uploads, posted, fp, fresh, now_length, fileVars, announced>>

-----------------------------------------------------------------------------
(* Finding and opening the file *)

Goto(w, place) == pc' = [pc EXCEPT ![w] = place]

Exists(w) == name[File(w)] # 0

\* access for the appending ways, fopen "r+" for the positioned ones; a last part
\* of QQattach with no file before it is an attachment of its own.
Look(w) ==
    /\ pc[w] = "look"
    /\ Goto(w, CASE Exists(w) /\ Kind(w) \in Appending       -> "open"
                 [] Exists(w) /\ Kind(w) \in Positioned      -> "write"
                 [] ~Exists(w) /\ Kind(w) = "flag" /\ IsLast(w) -> "small"
                 [] OTHER                                    -> "create")
    /\ fp' = [fp EXCEPT ![w] = name[File(w)]]
    /\ fresh' = [fresh EXCEPT ![w] = FALSE]
    /\ UNCHANGED <<uploads, posted, ring, part, now_length, fileVars, announced, taken, disturbed>>

\* The file that opening for writing leads to, empty if there was none.
Opened(f) == IF name[f] = 0 THEN Len(data) + 1 ELSE name[f]

Emptied(f) ==
    IF name[f] = 0 THEN Append(data, <<>>) ELSE [data EXCEPT ![name[f]] = <<>>]

Kept(f) == IF name[f] = 0 THEN Append(data, <<>>) ELSE data

\* fopen "w+"; the appending ways close the file again.
Create(w) ==
    /\ pc[w] = "create"
    /\ fp' = [fp EXCEPT ![w] = Opened(File(w))]
    /\ fresh' = [fresh EXCEPT ![w] = TRUE]
    /\ data' = Emptied(File(w))
    /\ name' = [name EXCEPT ![File(w)] = Opened(File(w))]
    /\ Goto(w, IF Kind(w) \in Appending THEN "open" ELSE "write")
    /\ UNCHANGED <<uploads, posted, ring, part, now_length, announced, taken, disturbed>>

\* fopen "a+", fseek and ftell
Open(w) ==
    /\ pc[w] = "open"
    /\ fp' = [fp EXCEPT ![w] = Opened(File(w))]
    /\ data' = Kept(File(w))
    /\ name' = [name EXCEPT ![File(w)] = Opened(File(w))]
    /\ now_length' = [now_length EXCEPT ![w] = Len(data'[fp'[w]])]
    /\ Goto(w, "write")
    /\ UNCHANGED <<uploads, posted, ring, part, fresh, announced, taken, disturbed>>

\* The file cannot be opened, or attach2_139 finds no file in the part when it has
\* opened its own: the part is given up.
GiveUp(w) ==
    /\ "file" \in Faults
    /\ \/ pc[w] \in {"create", "open", "small", "measure"}
       \/ pc[w] = "write" /\ Kind(w) = "append"
    /\ Goto(w, "idle")
    /\ disturbed' = disturbed \cup {Upload(w)}
    /\ UNCHANGED <<uploads, posted, ring, part, fp, fresh, now_length, fileVars, announced, taken>>

-----------------------------------------------------------------------------
(* Writing the part, and finding the attachment complete *)

At(s, n, piece) ==
    [k \in 1..(IF n + Len(piece) > Len(s) THEN n + Len(piece) ELSE Len(s)) |->
        CASE k \in (n + 1)..(n + Len(piece))                        -> piece[k - n]
          [] k \notin (n + 1)..(n + Len(piece)) /\ k \in 1..Len(s)  -> s[k]
          [] OTHER                                                  -> Hole]

Written(w) ==
    At(data[fp[w]],
       IF Kind(w) \in Appending THEN Len(data[fp[w]]) ELSE Offset(Upload(w), Number(w)),
       Units(Upload(w), Number(w)))

\* Mutant: the length of the file is compared before the part is counted.
AfterWriteEarly(w) ==
    CASE Kind(w) = "append" -> IF now_length[w] = Size(Upload(w)) THEN "rename" ELSE "idle"
      [] Kind(w) = "flag"   -> IF IsLast(w) THEN "recheck" ELSE "idle"
      [] Kind(w) = "range"  -> IF IsLast(w) THEN "rename" ELSE "idle"
      [] Kind(w) = "last"   -> IF IsLast(w) /\ ~fresh[w] THEN "rename" ELSE "idle"
      [] Kind(w) = "length" -> IF fresh[w] THEN "idle" ELSE "measure"

\* Mutant: the last part tells that the attachment is complete, not the length.
AfterWriteLast(w) ==
    CASE Kind(w) \in {"append", "range"} -> IF IsLast(w) THEN "rename" ELSE "idle"
      [] Kind(w) = "flag"   -> IF IsLast(w) THEN "recheck" ELSE "idle"
      [] Kind(w) = "last"   -> IF IsLast(w) /\ ~fresh[w] THEN "rename" ELSE "idle"
      [] Kind(w) = "length" -> IF fresh[w] THEN "idle" ELSE "measure"

\* Is the attachment complete?  Offset and length of a part add up to the size only
\* for the last part.
AfterWrite(w) ==
    CASE Kind(w) = "append" ->
            IF now_length[w] + Length(w) = Size(Upload(w)) THEN "rename" ELSE "idle"
      [] Kind(w) = "flag"   -> IF IsLast(w) THEN "recheck" ELSE "idle"
      [] Kind(w) = "range"  -> IF IsLast(w) THEN "rename" ELSE "idle"
      [] Kind(w) = "last"   -> IF IsLast(w) /\ ~fresh[w] THEN "rename" ELSE "idle"
      [] Kind(w) = "length" -> IF fresh[w] THEN "idle" ELSE "measure"

Write(w) ==
    /\ pc[w] = "write"
    /\ data' = [data EXCEPT ![fp[w]] = Written(w)]
    /\ Goto(w, AfterWrite(w))
    /\ UNCHANGED <<uploads, posted, ring, part, fp, fresh, now_length, name, announced, taken, disturbed>>

\* sohu_attach2 opens the file once more, and takes its length.
Measure(w) ==
    /\ pc[w] = "measure"
    /\ Goto(w, IF Exists(w) /\ Len(data[name[File(w)]]) = Size(Upload(w))
               THEN "rename" ELSE "idle")
    /\ UNCHANGED <<uploads, posted, ring, part, fp, fresh, now_length, fileVars, announced, taken, disturbed>>

\* QQattach asks once more whether the file is there.
Recheck(w) ==
    /\ pc[w] = "recheck"
    /\ Goto(w, IF Exists(w) THEN "rename" ELSE "idle")
    /\ UNCHANGED <<uploads, posted, ring, part, fp, fresh, now_length, fileVars, announced, taken, disturbed>>

\* Mutant: the file is copied, and its old name stays.
RenameCopies(w) ==
    /\ pc[w] = "rename"
    /\ announced' = Append(announced, [upload |-> Upload(w), file |-> name[File(w)]])
    /\ Goto(w, "idle")
    /\ UNCHANGED <<uploads, posted, ring, part, fp, fresh, now_length, fileVars, taken, disturbed>>

\* rename, and webmail_pro_jsonstr, which puts the attachment's new name into the
\* text for file_extract_pthread.
Rename(w) ==
    /\ pc[w] = "rename"
    /\ announced' = Append(announced, [upload |-> Upload(w), file |-> name[File(w)]])
    /\ name' = [name EXCEPT ![File(w)] = 0]
    /\ Goto(w, "idle")
    /\ UNCHANGED <<uploads, posted, ring, part, fp, fresh, now_length, data, taken, disturbed>>

\* QQattach: a last part alone goes into a file of its own.
Small(w) ==
    /\ pc[w] = "small"
    /\ data' = Append(data, Units(Upload(w), Number(w)))
    /\ announced' = Append(announced, [upload |-> Upload(w), file |-> Len(data')])
    /\ Goto(w, "idle")
    /\ UNCHANGED <<uploads, posted, ring, part, fp, fresh, now_length, name, taken, disturbed>>

Work(w) ==
    \/ Take(w) \/ Look(w) \/ Create(w) \/ Open(w) \/ GiveUp(w) \/ Write(w)
    \/ Measure(w) \/ Recheck(w) \/ Rename(w) \/ Small(w)

Next == (\E u \in Ids : Post(u)) \/ (\E w \in Workers : Work(w))

Spec == Init /\ [][Next]_vars

\* Workers are scheduled; nothing makes a browser send.
FairSpec == Spec /\ \A w \in Workers : WF_vars(Work(w))

-----------------------------------------------------------------------------

TypeOK ==
    /\ uploads \in Plans
    /\ \A u \in Ids : posted[u] \subseteq 1..Count(u) /\ taken[u] \in 0..Cardinality(posted[u])
    /\ pc \in [Workers -> {"idle", "look", "create", "open", "small", "write",
                           "measure", "recheck", "rename"}]
    /\ \A f \in Names : name[f] \in 0..Len(data)
    /\ \A w \in Workers : fp[w] \in 0..Len(data) /\ (pc[w] = "write" => fp[w] # 0)
    /\ disturbed \subseteq Ids

About(u) == {k \in DOMAIN announced : announced[k].upload = u}

Contents(k) == IF announced[k].file = 0 THEN <<>> ELSE data[announced[k].file]

\* The uploads under the file name of u all go to the end of the file, or the name is
\* an id that stands for one attachment, cut in one way.
OneCut(u) ==
    \A v \in SameFile(u) :
        \/ uploads[u].kind \in Appending /\ uploads[v].kind \in Appending
        \/ uploads[u].kind = uploads[v].kind /\ uploads[u].ends = uploads[v].ends

\* An attachment whose parts came to the workers one at a time, in order, with none
\* of another under the same file name in between, is announced once at most, whole,
\* and is not touched any more, whatever the uploads before it under the same name left
\* over.  (Not so if one id stood for two lengths: QQattach2 would leave the tail of the
\* longer, webmail_parser.c:1951.)
WholeIfAlone ==
    /\ TypeOK
    /\ \A u \in {v \in Ids \ disturbed : OneCut(v)} :
          /\ Cardinality(About(u)) <= 1
          /\ \A k \in About(u) : Contents(k) = Whole(u)

\* The ways that trust the length (webmail_parser.c:1292), for an attachment that
\* shares its file name with no other: whatever the workers do to the file at the
\* same time, emptying it under each other included, an announced file holds every
\* byte of the attachment once, though not in its place; and it is announced once.
LengthTellsComplete ==
    \A u \in Ids : uploads[u].kind = "append" /\ SameFile(u) = {u} =>
        /\ Cardinality(About(u)) <= 1
        /\ \A k \in About(u) :
              /\ Len(Contents(k)) = Size(u)
              /\ ToSet(Contents(k)) = ToSet(Whole(u))

\* An attachment of which all parts have come, one at a time and in order, is
\* announced in the end; save that QQattach2 and sohu_attach2 do not ask whether it
\* is complete when they make its file, and so never announce one of a single part.
CompleteIsAnnounced ==
    \A u \in 1..2 :
        (u \in Ids /\ Cardinality(posted[u]) = Count(u)) ~>
            \/ About(u) # {}
            \/ u \in disturbed
            \/ u \in Ids /\ Count(u) = 1 /\ uploads[u].kind \in {"last", "length"}
=============================================================================
