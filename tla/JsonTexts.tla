----------------------------- MODULE JsonTexts -----------------------------
(***************************************************************************)
(* The JSON texts of update_json.c and ftp_extract.c and their memory.     *)
(* One call of send_json or http_upload_json, or of file_extract_pthread   *)
(* by a mail parser: a text is made, its list of files walked, and for     *)
(* each file four keys are set, one text after the other, each a new       *)
(* string made from the old one.  Extraction has the walk of several       *)
(* workers; here are the strings, who points at them and who frees them,   *)
(* and what is left when memory runs out in the middle.                    *)
(*                                                                         *)
(* A text is a record; only the protocol, the file list and the rest of    *)
(* the text as one value are told apart.  An entry of the list is a        *)
(* function from keys to numbers.  Values: 0 is the empty string, a file   *)
(* stands for its path, its name and what tika says of it.                 *)
(***************************************************************************)
EXTENDS Integers, Sequences, FiniteSets, SequencesExt

CONSTANTS Files,        \* files, numbered from 1; 1 is the upload
          Sizes,        \* bytes of a file; Absent is one of them
          MailLists,    \* lists of files that mail parsers make
          TikaOutputs,  \* what tika says of a file
          MaxFilesize,  \* max_filesize
          Faults        \* what may fail, once: "malloc", "load"

Absent == -1
None == -1              \* tika has no such field
BadUtf8 == -2           \* a value that json_string refuses
NULL == 0               \* no string

ASSUME JsonTextsAssumption ==
    /\ Files \subseteq Nat \ {0} /\ 1 \in Files
    /\ Sizes \subseteq Nat \cup {Absent}
    /\ MailLists \subseteq Seq(Files \cup {NULL})
    /\ Faults \subseteq {"malloc", "load"}

VARIABLES
    node,          \* the upload: kind, whether its names are set, whether it has attr
    disk,          \* size of each file
    tika,          \* what tika says of each file
    pc,            \* where the call is
    heap,          \* strings allocated: address -> text
    return_json, jsontmp, jsondest, json_src,     \* addresses
    file_flag,     \* the cursor
    filefull_fname,\* path of the file looked at last
    tika_message,  \* what tika said last
    sent,          \* texts handed to the policy
    lost,          \* strings and trees nobody points at any more
    failed,        \* the fault that has happened
    crashed        \* a freed string or a null pointer was used

inputs == <<node, disk, tika>>
walkVars == <<file_flag, filefull_fname, tika_message>>
pointers == <<return_json, jsontmp, jsondest, json_src>>
vars == <<inputs, pc, heap, pointers, walkVars, sent, lost, failed, crashed>>

-----------------------------------------------------------------------------
\* round(size / 1024), at least 1
Kilobytes(size) == LET k == (2 * size + 1024) \div 2048 IN IF k = 0 THEN 1 ELSE k

Keys == {"fn", "fp", "fs", "au", "ft", "ep", "ftp"}

\* The entry that mail parsers make; one that has no name has no path either.
MailEntry(f) == IF f = NULL THEN [k \in {"fs"} |-> 1] ELSE [k \in {"fn", "fp", "fs"} |->
                    IF k = "fs" THEN Kilobytes(disk[f]) ELSE f]

UploadEntry(size) == [k \in Keys \ {"ep"} |-> CASE k \in {"fn", "fp"} -> 1
                                              [] k = "fs" -> Kilobytes(size)
                                              [] OTHER -> NULL]

FtpMessage == [prt |-> "ftp", rest |-> "login", flist |-> <<UploadEntry(disk[1])>>]
HttpMessage == [prt |-> "http", rest |-> "url", flist |-> <<UploadEntry(disk[1])>>]
MailMessage == [prt |-> "mail", rest |-> "mail",
                flist |-> [i \in DOMAIN node.list |-> MailEntry(node.list[i])]]

\* json_object_set_new(entry, key, json_string(value))
Set(entry, key, value) ==
    IF value = BadUtf8 THEN entry
    ELSE [k \in DOMAIN entry \cup {key} |-> IF k = key THEN value ELSE entry[k]]

\* Mutant: the flag counts from 1.
UpdateFilelistValueFromOne(text, key, value, flag) ==
    IF flag \in DOMAIN text.flist
    THEN [text EXCEPT !.flist[flag] = Set(@, key, value)] ELSE text

\* update_filelist_value: entry flag, counted from 0; one
\* past the end passes the test and changes nothing.
UpdateFilelistValue(text, key, value, flag) ==
    IF flag \in 0..(Len(text.flist) - 1)
    THEN [text EXCEPT !.flist[flag + 1] = Set(@, key, value)] ELSE text

UpdateFilelistIntValue(text, key, value, flag) ==
    IF flag \in 0..(Len(text.flist) - 1)
    THEN [text EXCEPT !.flist[flag + 1] = [k \in DOMAIN @ \cup {key} |-> IF k = key THEN value ELSE @[k]]]
    ELSE text

RemoveFlist(text, flag) ==
    IF flag \in 0..(Len(text.flist) - 1)
    THEN [text EXCEPT !.flist = RemoveAt(@, flag + 1)] ELSE text

\* malloc: an address that is not in use.
Fresh(h) == CHOOSE a \in 1..(Cardinality(DOMAIN h) + 1) : a \notin DOMAIN h
Put(h, text) == [a \in DOMAIN h \cup {Fresh(h)} |-> IF a = Fresh(h) THEN text ELSE h[a]]
Free(h, as) == [a \in DOMAIN h \ as |-> h[a]]

Fault(f) == f \in Faults /\ failed = "none" /\ failed' = f
NoFault == UNCHANGED failed
Goto(place) == pc' = place

Init ==
    /\ node \in [kind : {"ftp", "http"}, named : BOOLEAN, attr : BOOLEAN, list : {<<>>}]
                \cup [kind : {"mail"}, named : {TRUE}, attr : {TRUE}, list : MailLists]
    /\ disk \in [Files -> Sizes] /\ tika \in [Files -> TikaOutputs]
    /\ node.kind # "mail" => \A f \in Files \ {1} : disk[f] = disk[1] /\ tika[f] = tika[1]
    /\ pc = "make" /\ heap = <<>>
    /\ return_json = NULL /\ jsontmp = NULL /\ jsondest = NULL /\ json_src = NULL
    /\ file_flag = 0 /\ filefull_fname = NULL
    /\ tika_message = [au |-> NULL, ft |-> NULL, ep |-> NULL]
    /\ sent = <<>> /\ lost = 0 /\ failed = "none" /\ crashed = FALSE

-----------------------------------------------------------------------------
(* send_json, http_upload_json and the text of an upload *)

\* is_not_null; or http without attr.
NoText == Goto("done") /\ UNCHANGED <<heap, return_json, lost>>

\* The path is built before the size is asked for; when there is no file it is not
\* freed, nor, for http, the url.
NoFile(strings) ==
    /\ node.named /\ disk[1] = Absent
    /\ lost' = lost + strings
    /\ Goto("done") /\ UNCHANGED <<heap, return_json>>

NewText(text) ==
    /\ heap' = Put(heap, text) /\ return_json' = Fresh(heap)
    /\ Goto("extract") /\ UNCHANGED lost

FtpJsonstr == node.named /\ disk[1] # Absent /\ NewText(FtpMessage)

HttpuploadProJsonstr ==
    \/ node.named /\ ~node.attr /\ NoText
    \/ node.attr /\ NoFile(2)
    \/ node.named /\ node.attr /\ disk[1] # Absent /\ NewText(HttpMessage)

Rest == UNCHANGED <<inputs, jsontmp, jsondest, json_src, walkVars, sent, failed, crashed>>

SendJson ==
    /\ pc = "make" /\ node.kind = "ftp" /\ Rest
    /\ \/ ~node.named /\ NoText
       \/ NoFile(1)
       \/ FtpJsonstr

HttpUploadJson ==
    /\ pc = "make" /\ node.kind = "http" /\ Rest
    /\ \/ ~node.named /\ NoText
       \/ HttpuploadProJsonstr

\* The mail parsers' texts (external); the caller keeps the string.
MailText == pc = "make" /\ node.kind = "mail" /\ NewText(MailMessage) /\ Rest

\* The end of send_json and http_upload_json, whatever file_extract_pthread returned.
Return ==
    /\ pc = "return"
    /\ heap' = Free(heap, {return_json}) /\ return_json' = NULL
    /\ Goto("done")
    /\ UNCHANGED <<inputs, jsontmp, jsondest, json_src, walkVars, sent, lost, failed, crashed>>

-----------------------------------------------------------------------------
(* file_extract_pthread *)

\* A string that was freed, or none, is read.
Crash ==
    /\ crashed' = TRUE /\ Goto("crashed")
    /\ UNCHANGED <<inputs, heap, pointers, walkVars, sent, lost, failed>>

Copy ==
    /\ pc = "extract"
    /\ \/ /\ heap' = Put(heap, heap[return_json])
          /\ jsondest' = Fresh(heap) /\ jsontmp' = Fresh(heap)
          /\ Goto("walk") /\ NoFault
       \/ Fault("malloc") /\ Goto("return") /\ UNCHANGED <<heap, jsondest, jsontmp>>
    /\ UNCHANGED <<inputs, return_json, json_src, walkVars, sent, lost, crashed>>

Bad(p) == p # NULL /\ p \notin DOMAIN heap

\* get_file_num: no text has no files, and neither has one that cannot be loaded.
GetFileNum(p) == IF p = NULL THEN 0 ELSE Len(heap[p].flist)

\* The end of the list; or what looks like it.
WalkDone ==
    /\ pc = "walk" /\ ~Bad(jsontmp)
    /\ \/ /\ file_flag >= GetFileNum(jsontmp)
          /\ Goto(IF GetFileNum(jsontmp) = 0 /\ jsontmp # NULL /\ heap[jsontmp].prt = "ftp"
                  THEN "return" ELSE "ready")
          /\ NoFault
       \/ Fault("load") /\ jsontmp # NULL
          /\ Goto(IF heap[jsontmp].prt = "ftp" THEN "return" ELSE "ready")
    /\ UNCHANGED <<inputs, heap, pointers, walkVars, sent, lost, crashed>>

Dangling == pc \in {"walk", "ready"} /\ Bad(IF pc = "walk" THEN jsontmp ELSE jsondest) /\ Crash

Entry == heap[jsontmp].flist[file_flag + 1]
More == pc = "walk" /\ ~Bad(jsontmp) /\ file_flag < GetFileNum(jsontmp)

\* get_file_value: an entry without a path leaves the path of the one before it.
GetFileValue == IF "fp" \in DOMAIN Entry THEN Entry.fp ELSE filefull_fname

\* get_file_path_absolute and the bounds on the size.
Usable(f) == f # NULL /\ disk[f] > 0 /\ disk[f] <= MaxFilesize

\* remove_flist, then jsontmp is freed and is jsondest, the same string if remove_flist
\* could not make one.
Drop ==
    /\ More /\ filefull_fname' = GetFileValue /\ ~Usable(GetFileValue)
    /\ \/ LET h == Free(Put(heap, RemoveFlist(heap[jsontmp], file_flag)), {jsontmp})
          IN  heap' = h /\ jsondest' = Fresh(heap) /\ jsontmp' = Fresh(heap)
                        /\ NoFault /\ UNCHANGED lost
       \/ /\ Fault("malloc") /\ lost' = lost + 2          \* the dump and the tree
          /\ heap' = Free(heap, {jsontmp}) /\ jsondest' = NULL /\ jsontmp' = NULL
       \/ /\ Fault("load")
          /\ heap' = Free(heap, {jsontmp}) /\ jsontmp' = jsondest /\ UNCHANGED <<jsondest, lost>>
    /\ UNCHANGED <<inputs, pc, return_json, json_src, file_flag, tika_message, sent, crashed>>

\* get_file_type_author: fields that tika does not give stay, but the type.
Said(f) == [au |-> IF tika[f].au = None THEN tika_message.au ELSE tika[f].au,
            ft |-> tika[f].ft,
            ep |-> IF tika[f].ep = None THEN tika_message.ep ELSE tika[f].ep]

TikaFileParser ==
    /\ More /\ Usable(GetFileValue)
    /\ filefull_fname' = GetFileValue /\ tika_message' = Said(GetFileValue)
    /\ Goto("au")
    /\ UNCHANGED <<inputs, heap, pointers, file_flag, sent, lost, failed, crashed>>

\* The text cannot be loaded for get_file_value: -1 and a tree lost, but for the first
\* entry 0 and the path of an entry that was there before.
Unread ==
    /\ More /\ Fault("load") /\ UNCHANGED filefull_fname
    /\ IF file_flag = 0 /\ Usable(filefull_fname)
       THEN /\ tika_message' = Said(filefull_fname) /\ Goto("au")
            /\ UNCHANGED <<heap, jsontmp, jsondest, lost>>
       ELSE /\ heap' = Free(Put(heap, RemoveFlist(heap[jsontmp], file_flag)), {jsontmp})
            /\ jsondest' = Fresh(heap) /\ jsontmp' = Fresh(heap)
            /\ lost' = lost + (IF file_flag = 0 THEN 0 ELSE 1)
            /\ UNCHANGED <<pc, tika_message>>
    /\ UNCHANGED <<inputs, return_json, json_src, file_flag, sent, crashed>>

-----------------------------------------------------------------------------
(* set_tika_message: au, ft, ep and ftp, one after the other *)

\* It fails: its strings go, the cursor moves on.
Fails ==
    /\ heap' = Free(heap, {json_src}) /\ json_src' = NULL
    /\ file_flag' = file_flag + 1 /\ Goto("walk")
    /\ UNCHANGED <<jsontmp, jsondest>>

\* The two functions that set a key.
Updated(text, key, value) ==
    IF key = "ep" THEN UpdateFilelistIntValue(text, key, value, file_flag)
    ELSE UpdateFilelistValue(text, key, value, file_flag)

\* update_filelist_value on the text at p, then freeold_copyfromnew_freenew.
SetKey(p, key, value, next) ==
    /\ \/ LET h == Free(heap, {json_src})
          IN  /\ heap' = Put(h, Updated(heap[p], key, value))
              /\ json_src' = Fresh(h) /\ Goto(next) /\ NoFault
              /\ UNCHANGED <<jsontmp, jsondest, file_flag, lost>>
       \/ Fault("malloc") /\ Fails /\ lost' \in {lost, lost + 2}
       \/ Fault("load") /\ Fails /\ UNCHANGED lost
    /\ UNCHANGED <<inputs, return_json, filefull_fname, tika_message, sent, crashed>>

SetAuthor == pc = "au" /\ SetKey(jsontmp, "au", tika_message.au, "ft")
SetType == pc = "ft" /\ SetKey(json_src, "ft", tika_message.ft, "ep")
SetEncrypted == pc = "ep" /\ SetKey(json_src, "ep", tika_message.ep, "ftp")

\* Mutant: set_tika_message leaves its last but one string.
SetContentKeeping ==
    /\ pc = "ftp"
    /\ LET h == Free(heap, {jsontmp})
       IN  /\ heap' = Put(h, Updated(heap[json_src], "ftp", filefull_fname))
           /\ jsondest' = Fresh(h) /\ jsontmp' = Fresh(h) /\ json_src' = NULL
           /\ file_flag' = file_flag + 1 /\ Goto("walk")
           /\ NoFault /\ UNCHANGED <<lost, crashed>>
    /\ UNCHANGED <<inputs, return_json, filefull_fname, tika_message, sent>>

\* The last key; the result goes to *jsondest.  A text that cannot be loaded leaves no
\* string to copy: an error for any entry but the first, whose check it passes.
SetContent ==
    /\ pc = "ftp"
    /\ LET h == Free(heap, {json_src, jsontmp})
       IN  \/ /\ heap' = Put(h, Updated(heap[json_src], "ftp", filefull_fname))
              /\ jsondest' = Fresh(h) /\ jsontmp' = Fresh(h) /\ json_src' = NULL
              /\ file_flag' = file_flag + 1 /\ Goto("walk")
              /\ NoFault /\ UNCHANGED <<lost, crashed>>
           \/ Fault("malloc") /\ Fails /\ lost' = lost + 2 /\ UNCHANGED crashed
           \/ /\ Fault("malloc")                          \* for *jsondest itself
              /\ heap' = Free(heap, {json_src}) /\ json_src' = NULL /\ jsondest' = NULL
              /\ file_flag' = file_flag + 1 /\ Goto("walk")
              /\ UNCHANGED <<jsontmp, lost, crashed>>
           \/ Fault("load") /\ file_flag > 0 /\ Fails /\ UNCHANGED <<lost, crashed>>
           \/ /\ Fault("load") /\ file_flag = 0
              /\ crashed' = TRUE /\ Goto("crashed")
              /\ UNCHANGED <<heap, jsontmp, jsondest, json_src, file_flag, lost>>
    /\ UNCHANGED <<inputs, return_json, filefull_fname, tika_message, sent>>

-----------------------------------------------------------------------------
\* After the walk the text is that of jsondest, which may be none when jsontmp has one.
\* The text is not freed.
Send ==
    /\ pc = "ready" /\ ~Bad(jsondest)
    /\ LET quiet == jsondest = NULL \/ (GetFileNum(jsondest) = 0 /\ heap[jsondest].prt = "ftp")
       IN  sent' = IF quiet THEN sent ELSE Append(sent, heap[jsondest])
    /\ Goto("return")
    /\ UNCHANGED <<inputs, heap, pointers, walkVars, lost, failed, crashed>>

Next ==
    \/ SendJson \/ HttpUploadJson \/ MailText \/ Return
    \/ Copy \/ WalkDone \/ Dangling \/ Drop \/ Unread \/ TikaFileParser
    \/ SetAuthor \/ SetType \/ SetEncrypted \/ SetContent \/ Send

Spec == Init /\ [][Next]_vars

-----------------------------------------------------------------------------
Source == CASE node.kind = "ftp" -> FtpMessage [] node.kind = "http" -> HttpMessage
            [] node.kind = "mail" -> MailMessage

Ended == pc = "done"

\* The entries of the source that the walk keeps, and the place each then has.
Kept == {i \in DOMAIN Source.flist :
            "fp" \in DOMAIN Source.flist[i] /\ Usable(Source.flist[i].fp)}
Rank(i) == Cardinality({k \in Kept : k <= i})
AllNamed == \A i \in DOMAIN Source.flist : "fp" \in DOMAIN Source.flist[i]

\* return_json and json_src always point at a string or at none.
TypeOK ==
    /\ DOMAIN heap \subseteq Nat \ {0} /\ lost \in Nat
    /\ \A p \in {return_json, json_src} : p \in DOMAIN heap \cup {NULL}
    /\ Len(sent) <= 1

\* jsontmp and jsondest never point at a freed string, through any failure of malloc.
NoStalePointer ==
    /\ TypeOK
    /\ failed # "load" => ~crashed /\ (pc = "walk" => ~Bad(jsontmp) /\ ~Bad(jsondest))

\* An entry is never changed in part: it has the four keys or none of them, also when
\* memory runs out between two of them.
AllKeysOrNone ==
    \A i \in DOMAIN sent : \A j \in DOMAIN sent[i].flist :
        LET e == sent[i].flist[j]
        IN  "ep" \in DOMAIN e <=> ("ftp" \in DOMAIN e /\ e.ftp # NULL)

\* A text with a file that can be used is sent, if nothing fails.
Answered ==
    (/\ Ended /\ failed = "none" /\ AllNamed /\ node.named /\ node.attr
     /\ node.kind # "mail" => disk[1] # Absent)
        => (sent # <<>> <=> Kept # {} \/ node.kind # "ftp")

\* The entry of a file, with the four keys set to what belongs to that file.
Changed(e, source) ==
    /\ \A k \in {"fn", "fp", "fs"} : e[k] = source[k]
    /\ e.ftp = e.fp
    /\ tika[e.fp].au \notin {None, BadUtf8} => e.au = tika[e.fp].au
    /\ tika[e.fp].ft # BadUtf8 => e.ft = tika[e.fp].ft
    /\ tika[e.fp].ep # None => e.ep = tika[e.fp].ep

\* What is sent is the source but for the entries whose files cannot be used, in the same
\* order, and each entry kept is changed at au, ft, ep and ftp only, to what belongs to its
\* own file; if memory runs out, to nothing or to that.
SentIsSource ==
    /\ Answered /\ AllKeysOrNone
    /\ \A i \in DOMAIN sent : sent[i].prt = Source.prt /\ sent[i].rest = Source.rest
    /\ AllNamed /\ failed = "none" =>
        \A i \in DOMAIN sent :
            /\ Len(sent[i].flist) = Cardinality(Kept)
            /\ \A k \in Kept : Changed(sent[i].flist[Rank(k)], Source.flist[k])

\* No pointer is stale, and when a call is over, of all strings there is only the text it
\* sent or would have sent, and nothing is lost, if all files were there and nothing
\* failed.
NothingKept ==
    /\ NoStalePointer
    /\ (Ended /\ failed = "none" /\ \A f \in Files : disk[f] # Absent) =>
        lost = 0 /\ DOMAIN heap \subseteq {jsondest}
=============================================================================
