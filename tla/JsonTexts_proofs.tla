--------------------------- MODULE JsonTexts_proofs ---------------------------
(***************************************************************************)
(* The strings of a JSON text, for every list of files, whatever tika says *)
(* and wherever memory runs out: no pointer is stale, no string is left    *)
(* over, and what is sent is the source as the walk leaves it.             *)
(***************************************************************************)
EXTENDS JsonTexts, SequenceTheorems, FiniteSetTheorems, TLAPS

-----------------------------------------------------------------------------
(* The invariant *)

\* The keys of an entry are being set; json_src has those that are.
Updating == {"ft", "ep", "ftp"}

\* There is a copy of the text.
Copied == {"walk", "au", "ready"} \cup Updating

Places == {"make", "extract", "return", "done", "crashed"} \cup Copied

Strings ==
    /\ pc \in Places /\ lost \in Nat
    /\ DOMAIN heap \subseteq Nat \ {0} /\ IsFiniteSet(DOMAIN heap)

\* Nothing has happened yet.
Fresh0 == lost = 0 /\ failed = "none" /\ jsontmp = NULL /\ jsondest = NULL

\* The text of the caller lives until the end and is nobody else's.
CallersText ==
    /\ pc = "make" => DOMAIN heap = {} /\ return_json = NULL /\ Fresh0
    /\ pc = "extract" => DOMAIN heap = {return_json} /\ Fresh0
    /\ pc \in {"return", "crashed"} \cup Copied => return_json \in DOMAIN heap \ {jsontmp, jsondest}
    /\ pc = "done" => return_json = NULL

\* The text of an entry whose keys are being set is nobody else's either.
NewestText ==
    /\ pc \in Updating => json_src \in DOMAIN heap \ {return_json, jsontmp, jsondest}
    /\ pc \notin Updating \cup {"crashed"} => json_src = NULL
    /\ pc = "crashed" => json_src \in DOMAIN heap \cup {NULL}

\* The two pointers have the same copy, or jsondest has none.  The copy is there, or there is none,
\* but for a walk after a text could not be loaded.
CopyLives ==
    pc \in Copied =>
        /\ jsondest \in {jsontmp, NULL}
        /\ failed # "load" \/ pc \in Updating \cup {"au"} => jsontmp \in DOMAIN heap \cup {NULL}

\* As long as nothing fails, there is one copy and nothing else.
Exact ==
    failed = "none" =>
        /\ pc \in Copied \cup {"return"} =>
              /\ jsontmp = jsondest /\ jsondest \in DOMAIN heap /\ lost = 0
              /\ DOMAIN heap \subseteq {return_json, jsondest, json_src}
        /\ pc = "done" => DOMAIN heap \subseteq {jsondest} /\ (lost = 0 \/ disk[1] = Absent)

Told ==
    /\ crashed \/ pc = "crashed" => failed = "load"
    /\ IF pc \in {"return", "done"} THEN Len(sent) <= 1 ELSE sent = <<>>

TextsInv == Strings /\ CallersText /\ NewestText /\ CopyLives /\ Exact /\ Told

-----------------------------------------------------------------------------
(* Lemmas: the heap *)

\* malloc finds an address that is not in use.
LEMMA FreshIsFree ==
    ASSUME NEW h, DOMAIN h \subseteq Nat \ {0}, IsFiniteSet(DOMAIN h)
    PROVE  Fresh(h) \in Nat \ {0} /\ Fresh(h) \notin DOMAIN h
<1> DEFINE n == Cardinality(DOMAIN h)
<1>1. n \in Nat
  BY FS_CardinalityType
<1> HIDE DEF n
<1>2. \E a \in 1..(n + 1) : a \notin DOMAIN h
  <2> SUFFICES ASSUME 1..(n + 1) \subseteq DOMAIN h PROVE FALSE
    OBVIOUS
  <2>1. Cardinality(1..(n + 1)) <= n
    BY FS_Subset DEF n
  <2>2. 1 \in Int /\ n + 1 \in Int
    BY <1>1
  <2>3. Cardinality(1..(n + 1)) = IF 1 > n + 1 THEN 0 ELSE (n + 1) - 1 + 1
    BY <2>2, FS_Interval
  <2> QED
    BY <1>1, <2>1, <2>3
<1>3. Fresh(h) \in 1..(n + 1) /\ Fresh(h) \notin DOMAIN h
  BY <1>2 DEF Fresh, n
<1> QED
  BY <1>1, <1>3

\* A string is put where none was.
LEMMA PutIs ==
    ASSUME NEW h, DOMAIN h \subseteq Nat \ {0}, IsFiniteSet(DOMAIN h), NEW text
    PROVE  /\ DOMAIN Put(h, text) = DOMAIN h \cup {Fresh(h)}
           /\ DOMAIN Put(h, text) \subseteq Nat \ {0} /\ IsFiniteSet(DOMAIN Put(h, text))
           /\ Fresh(h) \in Nat \ {0} /\ Fresh(h) \notin DOMAIN h
<1>1. DOMAIN Put(h, text) = DOMAIN h \cup {Fresh(h)}
  BY DEF Put
<1>2. Fresh(h) \in Nat \ {0} /\ Fresh(h) \notin DOMAIN h
  BY FreshIsFree
<1>3. IsFiniteSet(DOMAIN h \cup {Fresh(h)})
  BY FS_AddElement
<1> QED
  BY <1>1, <1>2, <1>3

\* free takes nothing else.
LEMMA FreeIs ==
    ASSUME NEW h, DOMAIN h \subseteq Nat \ {0}, IsFiniteSet(DOMAIN h), NEW as
    PROVE  /\ DOMAIN Free(h, as) = DOMAIN h \ as
           /\ DOMAIN Free(h, as) \subseteq Nat \ {0} /\ IsFiniteSet(DOMAIN Free(h, as))
<1>1. DOMAIN Free(h, as) = DOMAIN h \ as
  BY DEF Free
<1>2. IsFiniteSet(DOMAIN h \ as)
  BY FS_Difference
<1> QED
  BY <1>1, <1>2

-----------------------------------------------------------------------------
(* The steps *)

\* The text that is made is the only string there is.
LEMMA MakeStep ==
    ASSUME TextsInv, SendJson \/ HttpUploadJson \/ MailText PROVE TextsInv'
<1>1. /\ pc = "make" /\ UNCHANGED <<inputs, jsontmp, jsondest, json_src, walkVars, sent, failed, crashed>>
  BY DEF SendJson, HttpUploadJson, MailText, Rest
<1>2. /\ DOMAIN heap = {} /\ return_json = NULL /\ jsontmp = NULL /\ jsondest = NULL /\ json_src = NULL
      /\ lost = 0 /\ failed = "none" /\ ~crashed /\ sent = <<>>
  BY <1>1 DEF TextsInv, CallersText, Fresh0, NewestText, Told, Updating
<1>3. /\ jsontmp' = NULL /\ jsondest' = NULL /\ json_src' = NULL /\ failed' = "none" /\ ~crashed'
      /\ sent' = <<>> /\ disk' = disk
  BY <1>1, <1>2 DEF inputs
<1>4. Len(<<>>) = 0
  OBVIOUS
<1>5. CASE pc' = "done" /\ heap' = heap /\ return_json' = return_json /\ (lost' = 0 \/ (lost' \in Nat /\ disk[1] = Absent))
  <2>1. Strings'
    BY <1>2, <1>5 DEF TextsInv, Strings, Places
  <2>2. CallersText'
    BY <1>2, <1>5 DEF CallersText, Copied, Updating
  <2>3. NewestText'
    BY <1>3, <1>5 DEF NewestText, Updating
  <2>4. CopyLives'
    BY <1>5 DEF CopyLives, Copied, Updating
  <2>5. Exact'
    BY <1>2, <1>3, <1>5 DEF Exact, Copied, Updating
  <2>6. Told'
    BY <1>3, <1>4, <1>5 DEF Told
  <2> QED
    BY <2>1, <2>2, <2>3, <2>4, <2>5, <2>6 DEF TextsInv
<1>6. ASSUME NEW text, NewText(text) PROVE TextsInv'
  <2>1. heap' = Put(heap, text) /\ return_json' = Fresh(heap) /\ pc' = "extract" /\ lost' = lost
    BY <1>6 DEF NewText, Goto
  <2>2. /\ DOMAIN heap' = {return_json'} /\ DOMAIN heap' \subseteq Nat \ {0} /\ IsFiniteSet(DOMAIN heap')
    BY <1>2, <2>1, PutIs DEF TextsInv, Strings
  <2>3. Strings'
    BY <1>2, <2>1, <2>2 DEF Strings, Places
  <2>4. CallersText'
    BY <1>2, <1>3, <2>1, <2>2 DEF CallersText, Copied, Updating, Fresh0
  <2>5. NewestText'
    BY <1>3, <2>1 DEF NewestText, Updating
  <2>6. CopyLives' /\ Exact'
    BY <2>1 DEF CopyLives, Exact, Copied, Updating
  <2>7. Told'
    BY <1>3, <2>1 DEF Told
  <2> QED
    BY <2>3, <2>4, <2>5, <2>6, <2>7 DEF TextsInv
<1>7. CASE NoText
  BY <1>2, <1>5, <1>7 DEF NoText, Goto
<1>8. ASSUME NEW n \in Nat, NoFile(n) PROVE TextsInv'
  BY <1>2, <1>5, <1>8 DEF NoFile, Goto
<1>9. NoText \/ NoFile(1) \/ NoFile(2) \/ (\E text : NewText(text))
  BY DEF SendJson, HttpUploadJson, MailText, FtpJsonstr, HttpuploadProJsonstr
<1> QED
  BY <1>6, <1>7, <1>8, <1>9

\* The caller frees its text.
LEMMA ReturnStep == ASSUME TextsInv, Return PROVE TextsInv'
<1>1. /\ pc = "return" /\ heap' = Free(heap, {return_json}) /\ return_json' = NULL /\ pc' = "done"
      /\ UNCHANGED <<inputs, jsontmp, jsondest, json_src, walkVars, sent, lost, failed, crashed>>
  BY DEF Return, Goto
<1>2. /\ DOMAIN heap' = DOMAIN heap \ {return_json}
      /\ DOMAIN heap' \subseteq Nat \ {0} /\ IsFiniteSet(DOMAIN heap')
  BY <1>1, FreeIs DEF TextsInv, Strings
<1>3. Strings'
  BY <1>1, <1>2 DEF TextsInv, Strings, Places
<1>4. CallersText' /\ CopyLives'
  BY <1>1 DEF CallersText, CopyLives, Copied, Updating
<1>5. NewestText' /\ json_src = NULL
  BY <1>1 DEF TextsInv, NewestText, Updating
<1>6. Exact'
  BY <1>1, <1>2, <1>5 DEF TextsInv, Strings, Exact, Copied, Updating, NULL, inputs
<1>7. Told'
  BY <1>1 DEF TextsInv, Told
<1> QED
  BY <1>3, <1>4, <1>5, <1>6, <1>7 DEF TextsInv

\* A crash keeps whatever it finds.
LEMMA CrashStep ==
    ASSUME TextsInv, Crash, pc \in {"walk", "ready"}, failed = "load" PROVE TextsInv'
<1>1. /\ crashed' = TRUE /\ pc' = "crashed"
      /\ UNCHANGED <<inputs, heap, pointers, walkVars, sent, lost, failed>>
  BY DEF Crash, Goto
<1>2. Strings'
  BY <1>1 DEF TextsInv, Strings, Places
<1>3. CallersText' /\ CopyLives'
  BY <1>1 DEF TextsInv, CallersText, CopyLives, Copied, Updating, pointers
<1>4. NewestText'
  BY <1>1 DEF TextsInv, NewestText, Updating, pointers
<1>5. Exact' /\ Told'
  BY <1>1 DEF TextsInv, Exact, Told
<1> QED
  BY <1>2, <1>3, <1>4, <1>5 DEF TextsInv

\* A stale pointer is used after a text could not be loaded only.
LEMMA DanglingStep == ASSUME TextsInv, Dangling PROVE TextsInv'
<1>1. pc \in {"walk", "ready"} /\ Bad(IF pc = "walk" THEN jsontmp ELSE jsondest) /\ Crash
  BY DEF Dangling
<1>2. failed = "load"
  BY <1>1 DEF TextsInv, CopyLives, Copied, Bad
<1> QED
  BY <1>1, <1>2, CrashStep

\* The text is copied: one new string, which both pointers have, the old ones are gone.
LEMMA NewCopy ==
    ASSUME TextsInv, pc \in {"extract", "walk", "ftp"}, pc' = "walk",
           NEW a \in DOMAIN heap' \ {return_json}, jsontmp' = a, jsondest' = a,
           return_json' = return_json, return_json \in DOMAIN heap', json_src' = NULL,
           DOMAIN heap' \subseteq Nat \ {0}, IsFiniteSet(DOMAIN heap'), lost' \in Nat,
           sent' = sent, crashed' = crashed, failed' = failed \/ failed = "none",
           failed' = "none" => lost' = lost /\ DOMAIN heap' \subseteq {return_json, a}
    PROVE  TextsInv'
<1>1. Strings'
  BY DEF Strings, Places, Copied
<1>2. CallersText'
  BY DEF CallersText, Copied, Updating
<1>3. NewestText' /\ CopyLives'
  BY DEF NewestText, CopyLives, Updating
<1>4. Exact'
  <2>1. failed' = "none" => failed = "none" /\ lost = 0
    BY DEF TextsInv, CallersText, Fresh0, Exact, Copied, Updating
  <2> QED
    BY <2>1 DEF Exact
<1>5. Told'
  BY DEF TextsInv, Told
<1> QED
  BY <1>1, <1>2, <1>3, <1>4, <1>5 DEF TextsInv

\* The copy takes the place of the newest text.
LEMMA CopyStep == ASSUME TextsInv, Copy PROVE TextsInv'
<1>1. /\ pc = "extract"
      /\ UNCHANGED <<inputs, return_json, json_src, walkVars, sent, lost, crashed>>
  BY DEF Copy
<1>2. /\ DOMAIN heap = {return_json} /\ json_src = NULL /\ return_json \in Nat \ {0} /\ lost \in Nat
      /\ DOMAIN heap \subseteq Nat \ {0} /\ IsFiniteSet(DOMAIN heap) /\ jsontmp = NULL /\ jsondest = NULL
  BY <1>1 DEF TextsInv, Strings, CallersText, NewestText, Updating, Fresh0
<1>3. CASE /\ heap' = Put(heap, heap[return_json]) /\ jsondest' = Fresh(heap) /\ jsontmp' = Fresh(heap)
           /\ pc' = "walk" /\ UNCHANGED failed
  <2>1. /\ DOMAIN heap' = {return_json, Fresh(heap)} /\ Fresh(heap) # return_json
        /\ DOMAIN heap' \subseteq Nat \ {0} /\ IsFiniteSet(DOMAIN heap')
    BY <1>2, <1>3, PutIs
  <2> QED
    BY <1>1, <1>2, <1>3, <2>1, NewCopy
<1>4. CASE failed' = "malloc" /\ pc' = "return" /\ UNCHANGED <<heap, jsondest, jsontmp>>
  <2>1. Strings' /\ CallersText' /\ NewestText' /\ CopyLives' /\ Exact'
    BY <1>1, <1>2, <1>4 DEF Strings, Places, CallersText, NewestText, CopyLives, Exact, Copied, Updating, NULL
  <2>2. Told'
    <3>1. sent = <<>> /\ ~crashed
      BY <1>1 DEF TextsInv, Told, CallersText, Fresh0
    <3> QED
      BY <1>1, <1>4, <3>1 DEF Told
  <2> QED
    BY <2>1, <2>2 DEF TextsInv
<1> QED
  BY <1>3, <1>4 DEF Copy, Goto, NoFault, Fault

\* Only the place changes, and perhaps a text cannot be loaded.
LEMMA WalkDoneStep == ASSUME TextsInv, WalkDone PROVE TextsInv'
<1>1. /\ pc = "walk" /\ pc' \in {"return", "ready"} /\ (failed' = failed \/ (failed = "none" /\ failed' = "load"))
      /\ UNCHANGED <<inputs, heap, pointers, walkVars, sent, lost, crashed>>
  BY DEF WalkDone, Goto, NoFault, Fault
<1>2. UNCHANGED <<return_json, jsontmp, jsondest, json_src>>
  BY <1>1 DEF pointers
<1>3. Strings'
  BY <1>1 DEF TextsInv, Strings, Places, Copied
<1>4. CallersText'
  BY <1>1, <1>2 DEF TextsInv, CallersText, Copied, Updating
<1>5. NewestText' /\ CopyLives'
  BY <1>1, <1>2 DEF TextsInv, NewestText, CopyLives, Copied, Updating
<1>6. Exact'
  BY <1>1, <1>2 DEF TextsInv, Exact, Copied, Updating
<1>7. Told'
  <2>1. sent = <<>> /\ Len(<<>>) = 0
    BY <1>1 DEF TextsInv, Told
  <2> QED
    BY <1>1, <2>1 DEF TextsInv, Told
<1> QED
  BY <1>3, <1>4, <1>5, <1>6, <1>7 DEF TextsInv

\* What is known while the list is walked.
LEMMA Walks ==
    ASSUME TextsInv, pc = "walk"
    PROVE  /\ DOMAIN heap \subseteq Nat \ {0} /\ IsFiniteSet(DOMAIN heap) /\ lost \in Nat
           /\ return_json \in DOMAIN heap \ {jsontmp, jsondest} /\ return_json \in Nat \ {0} /\ json_src = NULL
           /\ failed = "none" => lost = 0 /\ jsontmp = jsondest /\ DOMAIN heap \subseteq {return_json, jsontmp, NULL}
           /\ NULL \notin DOMAIN heap /\ sent = <<>>
BY DEF TextsInv, Strings, CallersText, NewestText, Exact, Copied, Updating, Told, NULL

\* The text with one entry less, in the place of the old one.
LEMMA ReplaceCopy ==
    ASSUME TextsInv, pc = "walk", NEW text, heap' = Free(Put(heap, text), {jsontmp}), pc' = "walk",
           jsondest' = Fresh(heap), jsontmp' = Fresh(heap), return_json' = return_json, json_src' = json_src,
           lost' \in Nat, failed' = failed \/ failed = "none", failed' = "none" => lost' = lost,
           sent' = sent, crashed' = crashed, ~Bad(jsontmp)
    PROVE  TextsInv'
<1>1. /\ DOMAIN heap \subseteq Nat \ {0} /\ IsFiniteSet(DOMAIN heap) /\ lost \in Nat
      /\ return_json \in DOMAIN heap \ {jsontmp, jsondest} /\ json_src = NULL
      /\ failed = "none" => lost = 0 /\ jsontmp = jsondest /\ DOMAIN heap \subseteq {return_json, jsontmp, NULL}
      /\ NULL \notin DOMAIN heap
  BY Walks
<1>2. /\ DOMAIN Put(heap, text) = DOMAIN heap \cup {Fresh(heap)} /\ Fresh(heap) \notin DOMAIN heap
      /\ DOMAIN Put(heap, text) \subseteq Nat \ {0} /\ IsFiniteSet(DOMAIN Put(heap, text))
      /\ Fresh(heap) \in Nat \ {0}
  BY <1>1, PutIs
<1>3. /\ DOMAIN heap' = (DOMAIN heap \cup {Fresh(heap)}) \ {jsontmp}
      /\ DOMAIN heap' \subseteq Nat \ {0} /\ IsFiniteSet(DOMAIN heap')
  BY <1>2, FreeIs
<1>4. Fresh(heap) # jsontmp
  BY <1>2 DEF Bad, NULL
<1>5. Fresh(heap) \in DOMAIN heap' \ {return_json} /\ return_json \in DOMAIN heap'
  BY <1>1, <1>2, <1>3, <1>4
<1>6. failed' = "none" => DOMAIN heap' \subseteq {return_json, Fresh(heap)}
  BY <1>1, <1>3
<1>7. json_src' = NULL
  BY <1>1
<1> HIDE DEF NULL
<1> QED
  BY <1>1, <1>3, <1>5, <1>6, <1>7, NewCopy

\* The text without a file takes the place of the one before, whose string is freed.
LEMMA DropStep == ASSUME TextsInv, Drop PROVE TextsInv'
<1>1. /\ pc = "walk" /\ pc' = pc /\ return_json' = return_json /\ json_src' = json_src
      /\ sent' = sent /\ crashed' = crashed /\ ~Bad(jsontmp)
  BY DEF Drop, More
<1>2. /\ DOMAIN heap \subseteq Nat \ {0} /\ IsFiniteSet(DOMAIN heap) /\ lost \in Nat
      /\ return_json \in DOMAIN heap \ {jsontmp, jsondest} /\ return_json \in Nat \ {0} /\ json_src = NULL
      /\ NULL \notin DOMAIN heap /\ sent = <<>>
  BY <1>1, Walks
<1>3. CASE /\ heap' = Free(Put(heap, RemoveFlist(heap[jsontmp], file_flag)), {jsontmp})
           /\ jsondest' = Fresh(heap) /\ jsontmp' = Fresh(heap) /\ failed' = failed /\ lost' = lost
  BY <1>1, <1>2, <1>3, ReplaceCopy
<1>4. CASE /\ failed = "none" /\ failed' \in {"malloc", "load"} /\ heap' = Free(heap, {jsontmp}) /\ lost' \in Nat
           /\ jsontmp' \in {NULL, jsondest} /\ jsondest' = jsontmp'
           /\ failed' = "malloc" => jsontmp' = NULL
  <2>1. /\ DOMAIN heap' = DOMAIN heap \ {jsontmp}
        /\ DOMAIN heap' \subseteq Nat \ {0} /\ IsFiniteSet(DOMAIN heap')
    BY <1>2, <1>4, FreeIs
  <2>2. Strings'
    BY <1>1, <1>4, <2>1 DEF Strings, Places, Copied
  <2>3. CallersText'
    BY <1>1, <1>2, <1>4, <2>1 DEF CallersText, Copied, Updating, NULL
  <2>4. NewestText'
    BY <1>1, <1>2 DEF NewestText, Updating
  <2>5. CopyLives' /\ Exact'
    BY <1>1, <1>4 DEF CopyLives, Exact, Updating
  <2>6. Told'
    BY <1>1, <1>2, <1>4 DEF TextsInv, Told
  <2> QED
    BY <2>2, <2>3, <2>4, <2>5, <2>6 DEF TextsInv
<1>5. \/ /\ heap' = Free(Put(heap, RemoveFlist(heap[jsontmp], file_flag)), {jsontmp})
         /\ jsondest' = Fresh(heap) /\ jsontmp' = Fresh(heap) /\ failed' = failed /\ lost' = lost
      \/ /\ failed = "none" /\ failed' = "malloc" /\ heap' = Free(heap, {jsontmp}) /\ lost' = lost + 2
         /\ jsontmp' = NULL /\ jsondest' = NULL
      \/ /\ failed = "none" /\ failed' = "load" /\ heap' = Free(heap, {jsontmp}) /\ lost' = lost
         /\ jsontmp' = jsondest /\ jsondest' = jsondest
  BY DEF Drop, Fault, NoFault
<1>6. lost + 2 \in Nat
  BY <1>2
<1> QED
  BY <1>2, <1>3, <1>4, <1>5, <1>6

\* The keys are set next: the strings stay.
LEMMA ToAuthor ==
    ASSUME TextsInv, pc = "walk", pc' = "au", UNCHANGED <<heap, return_json, jsontmp, jsondest, json_src>>,
           lost' = lost, sent' = sent, crashed' = crashed, disk' = disk, ~Bad(jsontmp),
           failed' = failed \/ (failed = "none" /\ failed' = "load")
    PROVE  TextsInv'
<1>1. Strings'
  BY DEF TextsInv, Strings, Places, Copied
<1>2. CallersText' /\ NewestText'
  BY DEF TextsInv, CallersText, NewestText, Copied, Updating
<1>3. CopyLives' /\ Exact'
  BY DEF TextsInv, CopyLives, Exact, Copied, Bad
<1>4. Told'
  BY DEF TextsInv, Told
<1> QED
  BY <1>1, <1>2, <1>3, <1>4 DEF TextsInv

\* The parser of a file touches no string.
LEMMA TikaFileParserStep == ASSUME TextsInv, TikaFileParser PROVE TextsInv'
<1>1. /\ pc = "walk" /\ pc' = "au" /\ UNCHANGED <<heap, return_json, jsontmp, jsondest, json_src>>
      /\ lost' = lost /\ sent' = sent /\ crashed' = crashed /\ disk' = disk /\ failed' = failed
      /\ ~Bad(jsontmp)
  BY DEF TikaFileParser, More, Goto, pointers, inputs
<1> QED
  BY <1>1, ToAuthor

\* A text that cannot be loaded: the entry is dropped, or the path of the one before is used.
LEMMA UnreadStep == ASSUME TextsInv, Unread PROVE TextsInv'
<1>1. /\ pc = "walk" /\ failed = "none" /\ failed' = "load" /\ ~Bad(jsontmp) /\ disk' = disk
      /\ return_json' = return_json /\ json_src' = json_src /\ sent' = sent /\ crashed' = crashed
  BY DEF Unread, More, Fault, inputs
<1>2. \/ pc' = "au" /\ UNCHANGED <<heap, jsontmp, jsondest, lost>>
      \/ /\ heap' = Free(Put(heap, RemoveFlist(heap[jsontmp], file_flag)), {jsontmp})
         /\ jsondest' = Fresh(heap) /\ jsontmp' = Fresh(heap) /\ lost' \in {lost, lost + 1} /\ pc' = pc
  <2>1. lost + 0 = lost
    BY <1>1, Walks
  <2> QED
    BY <2>1 DEF Unread, Goto
<1>3. CASE pc' = "au" /\ UNCHANGED <<heap, jsontmp, jsondest, lost>>
  BY <1>1, <1>3, ToAuthor
<1>4. CASE /\ heap' = Free(Put(heap, RemoveFlist(heap[jsontmp], file_flag)), {jsontmp})
           /\ jsondest' = Fresh(heap) /\ jsontmp' = Fresh(heap) /\ lost' \in {lost, lost + 1} /\ pc' = pc
  <2>1. lost' \in Nat
    BY <1>1, <1>4, Walks
  <2> QED
    BY <1>1, <1>4, <2>1, ReplaceCopy
<1> QED
  BY <1>2, <1>3, <1>4

\* What is known while the keys are set.
LEMMA Sets ==
    ASSUME TextsInv, pc \in Updating \cup {"au"}
    PROVE  /\ DOMAIN heap \subseteq Nat \ {0} /\ IsFiniteSet(DOMAIN heap) /\ lost \in Nat
           /\ return_json \in DOMAIN heap \ {jsontmp, jsondest, json_src} /\ NULL \notin DOMAIN heap
           /\ json_src \notin {return_json} /\ json_src \in DOMAIN heap \cup {NULL}
           /\ json_src # NULL => json_src \notin {jsontmp, jsondest}
           /\ jsontmp \in DOMAIN heap \cup {NULL} /\ jsondest \in {jsontmp, NULL}
           /\ failed = "none" => /\ lost = 0 /\ jsontmp = jsondest /\ jsondest \in DOMAIN heap
                                 /\ DOMAIN heap \subseteq {return_json, jsondest, json_src}
           /\ sent = <<>> /\ (crashed => failed = "load")
<1>1. pc \in Copied /\ pc \notin {"return", "done", "crashed"}
  BY DEF Copied, Updating
<1>2. /\ DOMAIN heap \subseteq Nat \ {0} /\ IsFiniteSet(DOMAIN heap) /\ lost \in Nat /\ NULL \notin DOMAIN heap
  BY DEF TextsInv, Strings, NULL
<1>3. return_json \in DOMAIN heap \ {jsontmp, jsondest}
  BY <1>1 DEF TextsInv, CallersText
<1>4. json_src \in DOMAIN heap \ {return_json, jsontmp, jsondest} \/ json_src = NULL
  BY <1>1 DEF TextsInv, NewestText, Updating
<1>5. jsontmp \in DOMAIN heap \cup {NULL} /\ jsondest \in {jsontmp, NULL}
  BY <1>1 DEF TextsInv, CopyLives
<1>6. failed = "none" => /\ lost = 0 /\ jsontmp = jsondest /\ jsondest \in DOMAIN heap
                         /\ DOMAIN heap \subseteq {return_json, jsondest, json_src}
  BY <1>1 DEF TextsInv, Exact
<1>7. sent = <<>> /\ (crashed => failed = "load")
  BY <1>1 DEF TextsInv, Told
<1> QED
  BY <1>2, <1>3, <1>4, <1>5, <1>6, <1>7

\* A key cannot be set: the strings of set_tika_message are gone, the copy is the one before.
LEMMA GivesUp ==
    ASSUME TextsInv, pc \in Updating \cup {"au"}, pc' = "walk", heap' = Free(heap, {json_src}), json_src' = NULL,
           jsontmp' = jsontmp, jsondest' \in {NULL, jsondest}, return_json' = return_json, lost' \in Nat,
           failed = "none", failed' \in {"malloc", "load"}, sent' = sent, crashed' = crashed
    PROVE  TextsInv'
<1>1. /\ DOMAIN heap \subseteq Nat \ {0} /\ IsFiniteSet(DOMAIN heap)
      /\ return_json \in DOMAIN heap \ {jsontmp, jsondest, json_src} /\ NULL \notin DOMAIN heap
      /\ json_src # NULL => json_src \notin {jsontmp, jsondest}
      /\ jsontmp \in DOMAIN heap \cup {NULL} /\ jsondest \in {jsontmp, NULL}
      /\ sent = <<>> /\ ~crashed
  BY Sets
<1>2. /\ DOMAIN heap' = DOMAIN heap \ {json_src}
      /\ DOMAIN heap' \subseteq Nat \ {0} /\ IsFiniteSet(DOMAIN heap')
  BY <1>1, FreeIs
<1>3. Strings'
  BY <1>2 DEF Strings, Places, Copied
<1>4. CallersText'
  BY <1>1, <1>2 DEF CallersText, Copied, Updating
<1>5. NewestText' /\ Exact'
  BY DEF NewestText, Exact, Updating
<1>6. CopyLives'
  BY <1>1, <1>2 DEF CopyLives, Updating
<1>7. Told'
  BY <1>1 DEF Told
<1> QED
  BY <1>3, <1>4, <1>5, <1>6, <1>7 DEF TextsInv

\* A key is set: a new string in the place of the one before.
LEMMA SetKeyStep ==
    ASSUME TextsInv, NEW s, NEW key, NEW value, NEW next \in Updating, pc \in Updating \cup {"au"},
           SetKey(s, key, value, next)
    PROVE  TextsInv'
<1>1. /\ return_json' = return_json /\ sent' = sent /\ crashed' = crashed /\ disk' = disk
  BY DEF SetKey, inputs
<1>2. /\ DOMAIN heap \subseteq Nat \ {0} /\ IsFiniteSet(DOMAIN heap) /\ lost \in Nat
      /\ return_json \in DOMAIN heap \ {jsontmp, jsondest, json_src} /\ NULL \notin DOMAIN heap
      /\ json_src # NULL => json_src \notin {jsontmp, jsondest}
      /\ jsontmp \in DOMAIN heap \cup {NULL} /\ jsondest \in {jsontmp, NULL}
      /\ failed = "none" => /\ lost = 0 /\ jsontmp = jsondest /\ jsondest \in DOMAIN heap
                            /\ DOMAIN heap \subseteq {return_json, jsondest, json_src}
      /\ sent = <<>> /\ (crashed => failed = "load")
  BY Sets
<1> DEFINE h == Free(heap, {json_src})
<1>3. \/ /\ heap' = Put(h, Updated(heap[s], key, value)) /\ json_src' = Fresh(h) /\ pc' = next
         /\ UNCHANGED <<failed, jsontmp, jsondest, lost>>
      \/ /\ failed = "none" /\ failed' \in {"malloc", "load"} /\ heap' = h /\ json_src' = NULL /\ pc' = "walk"
         /\ UNCHANGED <<jsontmp, jsondest>> /\ lost' \in {lost, lost + 2}
  BY DEF SetKey, Fails, Fault, NoFault, Goto
<1>4. CASE /\ failed = "none" /\ failed' \in {"malloc", "load"} /\ heap' = h /\ json_src' = NULL /\ pc' = "walk"
           /\ UNCHANGED <<jsontmp, jsondest>> /\ lost' \in {lost, lost + 2}
  <2>1. lost' \in Nat
    BY <1>2, <1>4
  <2> QED
    BY <1>1, <1>4, <2>1, GivesUp
<1>5. CASE /\ heap' = Put(h, Updated(heap[s], key, value)) /\ json_src' = Fresh(h) /\ pc' = next
           /\ UNCHANGED <<failed, jsontmp, jsondest, lost>>
  <2>1. DOMAIN h = DOMAIN heap \ {json_src} /\ DOMAIN h \subseteq Nat \ {0} /\ IsFiniteSet(DOMAIN h)
    BY <1>2, FreeIs
  <2> HIDE DEF h
  <2>2. /\ DOMAIN heap' = DOMAIN h \cup {json_src'} /\ DOMAIN heap' \subseteq Nat \ {0} /\ IsFiniteSet(DOMAIN heap')
        /\ json_src' \in Nat \ {0} /\ json_src' \notin DOMAIN h
    BY <1>5, <2>1, PutIs
  <2>3. pc' \in Updating /\ pc' \in Copied /\ pc' \notin {"make", "extract", "done", "crashed", "return"}
    BY <1>5 DEF Updating, Copied
  <2>4. Strings'
    BY <1>2, <1>5, <2>2, <2>3 DEF Strings, Places
  <2>5. return_json \in DOMAIN h /\ return_json # json_src'
    BY <1>2, <2>1, <2>2
  <2>6. CallersText'
    BY <1>1, <1>2, <1>5, <2>2, <2>3, <2>5 DEF CallersText
  <2>7. CopyLives'
    BY <1>2, <1>5, <2>1, <2>2 DEF CopyLives
  <2>8. NewestText'
    <3>1. NULL \notin DOMAIN heap' /\ json_src' # NULL
      BY <2>2 DEF NULL
    <3>2. json_src' \notin {jsontmp, jsondest}
      <4>1. jsontmp \in DOMAIN h \cup {NULL}
        BY <1>2, <2>1
      <4> QED
        BY <1>2, <2>2, <3>1, <4>1
    <3> QED
      BY <1>1, <1>5, <2>2, <2>3, <2>5, <3>2 DEF NewestText
  <2>9. Exact'
    <3>1. failed = "none" => jsondest \in DOMAIN h
      <4>1. NULL \notin DOMAIN heap
        BY <1>2
      <4> QED
        BY <1>2, <2>1, <4>1
    <3>2. failed = "none" => DOMAIN heap' \subseteq {return_json, jsondest, json_src'}
      BY <1>2, <2>1, <2>2
    <3> QED
      BY <1>1, <1>2, <1>5, <2>2, <2>3, <3>1, <3>2 DEF Exact
  <2>10. Told'
    BY <1>1, <1>2, <1>5, <2>3 DEF Told
  <2> QED
    BY <2>4, <2>6, <2>7, <2>8, <2>9, <2>10 DEF TextsInv
<1> QED
  BY <1>3, <1>4, <1>5

\* The text with a new path takes the place of the one before, or the step gives up.
LEMMA SetContentStep == ASSUME TextsInv, SetContent PROVE TextsInv'
<1>1. /\ pc = "ftp" /\ return_json' = return_json /\ sent' = sent /\ disk' = disk
  BY DEF SetContent, inputs
<1>2. /\ DOMAIN heap \subseteq Nat \ {0} /\ IsFiniteSet(DOMAIN heap) /\ lost \in Nat
      /\ return_json \in DOMAIN heap \ {jsontmp, jsondest, json_src} /\ NULL \notin DOMAIN heap
      /\ failed = "none" => /\ lost = 0 /\ jsontmp = jsondest /\ jsondest \in DOMAIN heap
                            /\ DOMAIN heap \subseteq {return_json, jsondest, json_src}
      /\ sent = <<>> /\ (crashed => failed = "load")
  BY <1>1, Sets DEF Updating
<1> DEFINE h == Free(heap, {json_src, jsontmp})
<1>3. \/ /\ heap' = Put(h, Updated(heap[json_src], "ftp", filefull_fname))
         /\ jsondest' = Fresh(h) /\ jsontmp' = Fresh(h) /\ json_src' = NULL /\ pc' = "walk"
         /\ UNCHANGED <<failed, lost, crashed>>
      \/ /\ failed = "none" /\ failed' \in {"malloc", "load"} /\ heap' = Free(heap, {json_src}) /\ json_src' = NULL
         /\ pc' = "walk" /\ jsontmp' = jsontmp /\ jsondest' \in {NULL, jsondest} /\ lost' \in {lost, lost + 2}
         /\ crashed' = crashed
      \/ /\ failed' = "load" /\ crashed' = TRUE /\ pc' = "crashed"
         /\ UNCHANGED <<heap, jsontmp, jsondest, json_src, lost>>
  BY DEF SetContent, Fails, Fault, NoFault, Goto
<1>4. CASE /\ heap' = Put(h, Updated(heap[json_src], "ftp", filefull_fname))
           /\ jsondest' = Fresh(h) /\ jsontmp' = Fresh(h) /\ json_src' = NULL /\ pc' = "walk"
           /\ UNCHANGED <<failed, lost, crashed>>
  <2>1. DOMAIN h = DOMAIN heap \ {json_src, jsontmp} /\ DOMAIN h \subseteq Nat \ {0} /\ IsFiniteSet(DOMAIN h)
    BY <1>2, FreeIs
  <2> HIDE DEF h
  <2>2. /\ DOMAIN heap' = DOMAIN h \cup {Fresh(h)} /\ DOMAIN heap' \subseteq Nat \ {0}
        /\ IsFiniteSet(DOMAIN heap') /\ Fresh(h) \notin DOMAIN h
    BY <1>4, <2>1, PutIs
  <2>3. return_json \in DOMAIN heap' /\ Fresh(h) \in DOMAIN heap' \ {return_json}
    BY <1>2, <2>1, <2>2
  <2>4. failed' = "none" => DOMAIN heap' \subseteq {return_json, Fresh(h)}
    BY <1>2, <1>4, <2>1, <2>2
  <2> QED
    BY <1>1, <1>2, <1>4, <2>2, <2>3, <2>4, NewCopy
<1>5. CASE /\ failed = "none" /\ failed' \in {"malloc", "load"} /\ heap' = Free(heap, {json_src}) /\ json_src' = NULL
           /\ pc' = "walk" /\ jsontmp' = jsontmp /\ jsondest' \in {NULL, jsondest} /\ lost' \in {lost, lost + 2}
           /\ crashed' = crashed
  <2>1. lost' \in Nat
    BY <1>2, <1>5
  <2> QED
    BY <1>1, <1>5, <2>1, GivesUp DEF Updating
<1>6. CASE /\ failed' = "load" /\ crashed' = TRUE /\ pc' = "crashed"
           /\ UNCHANGED <<heap, jsontmp, jsondest, json_src, lost>>
  <2>1. Strings'
    BY <1>2, <1>6 DEF Strings, Places
  <2>2. CallersText'
    BY <1>1, <1>2, <1>6 DEF CallersText, Copied, Updating
  <2>3. NewestText' /\ CopyLives' /\ Exact'
    BY <1>1, <1>6 DEF TextsInv, NewestText, CopyLives, Exact, Copied, Updating
  <2>4. Told'
    BY <1>1, <1>2, <1>6 DEF Told
  <2> QED
    BY <2>1, <2>2, <2>3, <2>4 DEF TextsInv
<1> QED
  BY <1>3, <1>4, <1>5, <1>6

\* A text is sent once.
LEMMA SendStep == ASSUME TextsInv, Send PROVE TextsInv'
<1>1. /\ pc = "ready" /\ pc' = "return" /\ ~Bad(jsondest)
      /\ UNCHANGED <<heap, return_json, jsontmp, jsondest, json_src, lost, failed, crashed>>
      /\ (sent' = sent \/ sent' = Append(sent, heap[jsondest]))
  BY DEF Send, Goto, pointers
<1>2. sent = <<>>
  BY <1>1 DEF TextsInv, Told
<1>3. Len(sent') <= 1
  <2>1. PICK text : text = heap[jsondest]
    OBVIOUS
  <2>2. Len(<<>>) = 0 /\ Append(<<>>, text) = <<text>> /\ Len(<<text>>) = 1
    OBVIOUS
  <2>3. sent' = <<>> \/ sent' = <<text>>
    <3>1. CASE sent' = sent
      BY <1>2, <3>1
    <3>2. CASE sent' = Append(sent, heap[jsondest])
      <4>1. sent' = Append(<<>>, text)
        BY <1>2, <2>1, <3>2
      <4> QED
        BY <2>2, <4>1
    <3> QED
      BY <1>1, <3>1, <3>2
  <2>4. Len(<<>>) <= 1 /\ Len(<<text>>) <= 1
    BY <2>2
  <2> QED
    BY <2>3, <2>4
<1>4. Strings'
  BY <1>1 DEF TextsInv, Strings, Places
<1>5. CallersText'
  BY <1>1 DEF TextsInv, CallersText, Copied, Updating
<1>6. NewestText' /\ CopyLives'
  BY <1>1 DEF TextsInv, NewestText, CopyLives, Copied, Updating
<1>7. Exact'
  BY <1>1 DEF TextsInv, Exact, Copied, Updating
<1>8. Told'
  BY <1>1, <1>3 DEF TextsInv, Told
<1> QED
  BY <1>4, <1>5, <1>6, <1>7, <1>8 DEF TextsInv

-----------------------------------------------------------------------------
(* Theorems *)

\* No string exists at first.
LEMMA TextsInit == Init => TextsInv
<1> SUFFICES ASSUME Init PROVE TextsInv
  OBVIOUS
<1>1. /\ pc = "make" /\ heap = <<>> /\ return_json = NULL /\ jsontmp = NULL /\ jsondest = NULL
      /\ json_src = NULL /\ sent = <<>> /\ lost = 0 /\ failed = "none" /\ crashed = FALSE
  BY DEF Init
<1>2. DOMAIN heap = {}
  BY <1>1
<1>3. IsFiniteSet({})
  BY FS_EmptySet
<1>4. Strings
  BY <1>1, <1>2, <1>3 DEF Strings, Places
<1>5. CallersText
  BY <1>1, <1>2 DEF CallersText, Fresh0, Copied, Updating
<1>6. NewestText /\ CopyLives
  BY <1>1 DEF NewestText, CopyLives, Copied, Updating
<1>7. Exact /\ Told
  BY <1>1 DEF Exact, Told, Copied, Updating
<1> QED
  BY <1>4, <1>5, <1>6, <1>7 DEF TextsInv

\* Every step keeps the strings in order.
LEMMA TextsNext == TextsInv /\ [Next]_vars => TextsInv'
<1> SUFFICES ASSUME TextsInv, [Next]_vars PROVE TextsInv'
  OBVIOUS
<1>1. CASE UNCHANGED vars
  BY <1>1 DEF vars, inputs, pointers, TextsInv, Strings, CallersText, Fresh0, NewestText, CopyLives, Exact, Told
<1>2. CASE SendJson \/ HttpUploadJson \/ MailText
  BY <1>2, MakeStep
<1>3. CASE Return \/ Copy \/ WalkDone \/ Dangling \/ Drop \/ Unread \/ TikaFileParser \/ SetContent \/ Send
  BY <1>3, ReturnStep, CopyStep, WalkDoneStep, DanglingStep, DropStep, UnreadStep, TikaFileParserStep,
     SetContentStep, SendStep
<1>4. CASE SetAuthor
  <2>1. "ft" \in Updating /\ pc \in Updating \cup {"au"} /\ SetKey(jsontmp, "au", tika_message.au, "ft")
    BY <1>4 DEF SetAuthor, Updating
  <2> QED
    BY <2>1, SetKeyStep
<1>5. CASE SetType
  <2>1. "ep" \in Updating /\ pc \in Updating \cup {"au"} /\ SetKey(json_src, "ft", tika_message.ft, "ep")
    BY <1>5 DEF SetType, Updating
  <2> QED
    BY <2>1, SetKeyStep
<1>6. CASE SetEncrypted
  <2>1. "ftp" \in Updating /\ pc \in Updating \cup {"au"} /\ SetKey(json_src, "ep", tika_message.ep, "ftp")
    BY <1>6 DEF SetEncrypted, Updating
  <2> QED
    BY <2>1, SetKeyStep
<1> QED
  BY <1>1, <1>2, <1>3, <1>4, <1>5, <1>6 DEF Next

\* Whoever points at a text of update_json.c has one of its own, or shares the copy that jsontmp
\* and jsondest both have.
THEOREM TextsCorrect == Spec => []TextsInv
BY TextsInit, TextsNext, PTL DEF Spec

\* A walk that ends without a failure has the strings of its caller only.
LEMMA TextsKept == TextsInv => NothingKept
<1> SUFFICES ASSUME TextsInv PROVE NothingKept
  OBVIOUS
<1>1. return_json \in DOMAIN heap \cup {NULL} /\ json_src \in DOMAIN heap \cup {NULL}
  <2>1. pc \in Places
    BY DEF TextsInv, Strings
  <2>2. return_json \in DOMAIN heap \cup {NULL}
    BY <2>1 DEF TextsInv, CallersText, Places
  <2>3. json_src \in DOMAIN heap \cup {NULL}
    BY DEF TextsInv, NewestText
  <2> QED
    BY <2>2, <2>3
<1>2. Len(sent) <= 1
  <2>1. Len(<<>>) = 0
    OBVIOUS
  <2> QED
    BY <2>1 DEF TextsInv, Told
<1>3. TypeOK
  BY <1>1, <1>2 DEF TypeOK, TextsInv, Strings
<1>4. failed # "load" => ~crashed /\ (pc = "walk" => ~Bad(jsontmp) /\ ~Bad(jsondest))
  BY DEF TextsInv, Told, CopyLives, Copied, Bad
<1>5. NoStalePointer
  BY <1>3, <1>4 DEF NoStalePointer
<1>6. ASSUME Ended, failed = "none", \A f \in Files : disk[f] # Absent
      PROVE  lost = 0 /\ DOMAIN heap \subseteq {jsondest}
  BY <1>6, JsonTextsAssumption DEF TextsInv, Exact, Ended
<1> QED
  BY <1>5, <1>6 DEF NothingKept

\* No pointer of the walk is stale as long as only malloc fails, and a call in which nothing fails
\* leaves no string but the one it sent.
THEOREM NoTextIsKept == Spec => []NothingKept
BY TextsCorrect, TextsKept, PTL

-----------------------------------------------------------------------------
(***************************************************************************)
(* What is sent                                                            *)
(***************************************************************************)

Keyed == {"fn", "fp", "fs"}

\* What an entry may have for a value.
Values == Int \cup {t.au : t \in TikaOutputs} \cup {t.ft : t \in TikaOutputs} \cup {t.ep : t \in TikaOutputs}

\* An entry of a list, and one that has been changed as a whole or not at all.
Entries == {e \in UNION {[D -> Values] : D \in SUBSET Keys} : "fp" \in DOMAIN e => e.fp \in Files \cup {NULL}}
AllOrNone(e) == "ep" \in DOMAIN e <=> ("ftp" \in DOMAIN e /\ e.ftp # NULL)
Whole == {e \in Entries : AllOrNone(e)}

\* A text of the call: what is not a list is that of the source.
Texts(S) == [prt : {Source.prt}, rest : {Source.rest}, flist : Seq(S)]

Inputs ==
    /\ node \in [kind : {"ftp", "http", "mail"}, named : BOOLEAN, attr : BOOLEAN, list : Seq(Files \cup {NULL})]
    /\ disk \in [Files -> Sizes] /\ tika \in [Files -> TikaOutputs]

Cursor ==
    /\ file_flag \in Nat /\ (pc \in {"make", "extract"} => file_flag = 0)
    /\ filefull_fname \in Files \cup {NULL}
    /\ tika_message \in [au : Values, ft : Values, ep : Values]
    /\ pc \in Updating \cup {"au"} => filefull_fname # NULL
    /\ pc = "au" => jsontmp \in DOMAIN heap

\* The text whose last key is missing.
AllButLast(text) ==
    /\ text \in Texts(Entries)
    /\ \A i \in 1..Len(text.flist) :
          IF i = file_flag + 1 THEN "ep" \in DOMAIN text.flist[i] ELSE AllOrNone(text.flist[i])

\* Whatever fails, no text in use has an entry that was changed in part, but the one of which
\* the last key is still to be set.
WholeTexts ==
    /\ return_json \in DOMAIN heap => heap[return_json] \in Texts(Whole)
    /\ jsontmp \in DOMAIN heap => heap[jsontmp] \in Texts(Whole)
    /\ pc \in {"ft", "ep"} => heap[json_src] \in Texts(Whole)
    /\ pc = "ftp" => AllButLast(heap[json_src])
    /\ sent \in Seq(Texts(Whole))

\* Before the cursor are the entries kept of the first n, changed; behind it those not seen yet.
Around(L, n, flag) ==
    LET F == Source.flist
    IN  /\ n \in 0..Len(F) /\ flag = Rank(n) /\ Len(L) = flag + (Len(F) - n)
        /\ \A k \in Kept : k <= n => Changed(L[Rank(k)], F[k])
        /\ \A i \in (n + 2)..Len(F) : L[flag + (i - n)] = F[i]

Here(L) == L[file_flag + 1]

\* What tika said last is of the file s stands for.
Says(s) ==
    /\ tika[s.fp].au # None => tika_message.au = tika[s.fp].au
    /\ tika_message.ft = tika[s.fp].ft
    /\ tika[s.fp].ep # None => tika_message.ep = tika[s.fp].ep

\* The entry at the cursor, some of its keys set.
Partly(e, s) ==
    /\ Keyed \subseteq DOMAIN e /\ \A k \in Keyed : e[k] = s[k]
    /\ pc \in Updating /\ tika[s.fp].au \notin {None, BadUtf8} => "au" \in DOMAIN e /\ e.au = tika[s.fp].au
    /\ pc \in {"ep", "ftp"} /\ tika[s.fp].ft # BadUtf8 => "ft" \in DOMAIN e /\ e.ft = tika[s.fp].ft
    /\ pc = "ftp" /\ tika[s.fp].ep # None => "ep" \in DOMAIN e /\ e.ep = tika[s.fp].ep

\* File n + 1 is being looked at.
At(L, n) ==
    LET s == Source.flist[n + 1]
    IN  /\ Around(L, n, file_flag) /\ n + 1 \in Kept
        /\ filefull_fname = s.fp /\ Says(s) /\ Partly(Here(L), s)

\* The walk is over.
Finished(L) ==
    /\ Len(L) = Cardinality(Kept)
    /\ \A k \in Kept : Changed(L[Rank(k)], Source.flist[k])

Sends == Kept # {} \/ node.kind # "ftp"

Walked ==
    failed = "none" /\ AllNamed =>
        /\ pc = "extract" => heap[return_json] = Source
        /\ pc = "walk" =>
              \E n \in 0..Len(Source.flist) :
                  /\ Around(heap[jsontmp].flist, n, file_flag)
                  /\ n < Len(Source.flist) => Here(heap[jsontmp].flist) = Source.flist[n + 1]
        /\ pc = "au" => \E n \in 0..Len(Source.flist) : At(heap[jsontmp].flist, n)
        /\ pc \in Updating => \E n \in 0..Len(Source.flist) : At(heap[json_src].flist, n)
        /\ pc = "ready" => Finished(heap[jsontmp].flist)
        /\ pc = "return" => (sent # <<>> <=> Sends)
        /\ pc = "done" /\ node.named /\ node.attr /\ (node.kind # "mail" => disk[1] # Absent) =>
              (sent # <<>> <=> Sends)
        /\ \A i \in 1..Len(sent) : Finished(sent[i].flist)

SourceInv == TextsInv /\ Inputs /\ Cursor /\ WholeTexts /\ Walked

-----------------------------------------------------------------------------
(* Lemmas: entries and texts *)

FourKeys == {"au", "ft", "ep", "ftp"}

\* d is e with v for its key; a value that json_string refuses leaves e as it is.
KeySet(e, d, key, v) ==
    /\ d \in Entries
    /\ key = "ep" \/ v # BadUtf8 => DOMAIN d = DOMAIN e \cup {key} /\ d[key] = v
    /\ key # "ep" /\ v = BadUtf8 => d = e
    /\ \A k \in Keys \ {key} : (k \in DOMAIN d <=> k \in DOMAIN e) /\ (k \in DOMAIN e => d[k] = e[k])

\* One key of an entry is set.
LEMMA EntrySet ==
    ASSUME NEW e \in Entries, NEW key \in FourKeys, NEW v \in Values
    PROVE  LET d == [k \in DOMAIN e \cup {key} |-> IF k = key THEN v ELSE e[k]]
           IN  /\ d \in Entries /\ DOMAIN d = DOMAIN e \cup {key} /\ d[key] = v
               /\ \A k \in Keys \ {key} : (k \in DOMAIN d <=> k \in DOMAIN e) /\ (k \in DOMAIN e => d[k] = e[k])
<1> DEFINE d == [k \in DOMAIN e \cup {key} |-> IF k = key THEN v ELSE e[k]]
<1>1. PICK D \in SUBSET Keys : e \in [D -> Values]
  BY DEF Entries
<1>2. key \in Keys /\ key # "fp"
  BY DEF FourKeys, Keys
<1>3. DOMAIN d = D \cup {key} /\ D \cup {key} \in SUBSET Keys
  BY <1>1, <1>2
<1>4. d \in [D \cup {key} -> Values]
  BY <1>1
<1>5. "fp" \in DOMAIN d => d.fp \in Files \cup {NULL}
  BY <1>1, <1>2 DEF Entries
<1>6. d \in Entries
  BY <1>3, <1>4, <1>5 DEF Entries
<1> QED
  BY <1>1, <1>3, <1>6

\* update_filelist_value and update_filelist_int_value set a key of one entry, or of none.
LEMMA UpdatedIs ==
    ASSUME file_flag \in Nat, NEW t \in Texts(Entries), NEW key \in FourKeys, NEW v \in Values
    PROVE  LET u == Updated(t, key, v)
           IN  /\ u \in Texts(Entries) /\ Len(u.flist) = Len(t.flist) /\ Len(t.flist) \in Nat
               /\ \A i \in 1..Len(t.flist) : i # file_flag + 1 => u.flist[i] = t.flist[i]
               /\ file_flag + 1 <= Len(t.flist) => KeySet(t.flist[file_flag + 1], u.flist[file_flag + 1], key, v)
<1> DEFINE s == t.flist
           e == s[file_flag + 1]
           d == IF key = "ep" THEN [k \in DOMAIN e \cup {key} |-> IF k = key THEN v ELSE e[k]] ELSE Set(e, key, v)
<1>1. s \in Seq(Entries) /\ Len(s) \in Nat /\ DOMAIN s = 1..Len(s) /\ \A i \in 1..Len(s) : s[i] \in Entries
  BY DEF Texts
<1>2. CASE file_flag + 1 <= Len(s)
  <2>1. file_flag \in 0..(Len(s) - 1) /\ file_flag + 1 \in 1..Len(s)
    BY <1>1, <1>2
  <2>2. e \in Entries
    BY <1>1, <2>1
  <2>3. KeySet(e, d, key, v)
    <3>1. CASE key = "ep" \/ v # BadUtf8
      <4>1. d = [k \in DOMAIN e \cup {key} |-> IF k = key THEN v ELSE e[k]]
        BY <3>1 DEF Set
      <4> HIDE DEF d
      <4>2. /\ d \in Entries /\ DOMAIN d = DOMAIN e \cup {key} /\ d[key] = v
            /\ \A k \in Keys \ {key} : (k \in DOMAIN d <=> k \in DOMAIN e) /\ (k \in DOMAIN e => d[k] = e[k])
        <5> HIDE DEF e
        <5> QED
          BY <2>2, <4>1, EntrySet
      <4> HIDE DEF e
      <4> QED
        BY <3>1, <4>2 DEF KeySet
    <3>2. CASE ~(key = "ep" \/ v # BadUtf8)
      <4>1. d = e
        BY <3>2 DEF Set
      <4> QED
        BY <2>2, <3>2, <4>1 DEF KeySet
    <3> QED
      BY <3>1, <3>2
  <2>4. Updated(t, key, v) = [t EXCEPT !.flist[file_flag + 1] = d]
    BY <2>1 DEF Updated, UpdateFilelistIntValue, UpdateFilelistValue
  <2> HIDE DEF d
  <2>5. d \in Entries
    BY <2>3 DEF KeySet
  <2>6. [t EXCEPT !.flist[file_flag + 1] = d] = [t EXCEPT !.flist = [s EXCEPT ![file_flag + 1] = d]]
    OBVIOUS
  <2>7. /\ [s EXCEPT ![file_flag + 1] = d] \in Seq(Entries) /\ Len([s EXCEPT ![file_flag + 1] = d]) = Len(s)
        /\ [s EXCEPT ![file_flag + 1] = d][file_flag + 1] = d
        /\ \A i \in 1..Len(s) : i # file_flag + 1 => [s EXCEPT ![file_flag + 1] = d][i] = s[i]
    BY <1>1, <2>1, <2>5
  <2> QED
    BY <1>1, <2>3, <2>4, <2>6, <2>7 DEF Texts
<1>3. CASE ~(file_flag + 1 <= Len(s))
  <2>1. file_flag \notin 0..(Len(s) - 1)
    BY <1>1, <1>3
  <2>2. Updated(t, key, v) = t
    BY <2>1 DEF Updated, UpdateFilelistIntValue, UpdateFilelistValue
  <2> QED
    BY <1>1, <1>3, <2>2
<1> QED
  BY <1>2, <1>3

\* A key that is not one of ep and ftp changes nothing of an entry being changed or not.
LEMMA StaysWhole ==
    ASSUME NEW e \in Whole, NEW d, NEW key \in {"au", "ft"}, NEW v, KeySet(e, d, key, v)
    PROVE  d \in Whole
BY DEF KeySet, Whole, AllOrNone, Keys

\* The last key makes the entry a whole one.
LEMMA BecomesWhole ==
    ASSUME NEW e, "ep" \in DOMAIN e, NEW d, NEW v, v # BadUtf8, v # NULL, KeySet(e, d, "ftp", v)
    PROVE  d \in Whole
BY DEF KeySet, Whole, AllOrNone, Keys

\* A list without its i-th entry.
LEMMA Removed ==
  ASSUME NEW S, NEW s \in Seq(S), NEW i \in 1..Len(s)
  PROVE  /\ RemoveAt(s, i) \in Seq(S) /\ Len(RemoveAt(s, i)) = Len(s) - 1
         /\ \A j \in 1..(i - 1) : RemoveAt(s, i)[j] = s[j]
         /\ \A j \in i..(Len(s) - 1) : RemoveAt(s, i)[j] = s[j + 1]
  <1> DEFINE a == SubSeq(s, 1, i - 1)
             b == SubSeq(s, i + 1, Len(s))
  <1>0. Len(s) \in Nat /\ \A j \in 1..Len(s) : s[j] \in S
    OBVIOUS
  <1>1. a \in Seq(S) /\ Len(a) = i - 1 /\ \A j \in 1..(i - 1) : a[j] = s[j]
    <2>1. a \in Seq(S) /\ Len(a) = IF 1 <= i - 1 THEN (i - 1) - 1 + 1 ELSE 0
      BY <1>0, SubSeqProperties
    <2>2. \A j \in 1..((i - 1) - 1 + 1) : a[j] = s[1 + j - 1]
      BY <1>0, SubSeqProperties
    <2> HIDE DEF a
    <2> QED
      BY <1>0, <2>1, <2>2
  <1>2. b \in Seq(S) /\ Len(b) = Len(s) - i /\ \A j \in 1..(Len(s) - i) : b[j] = s[i + j]
    <2>1. b \in Seq(S) /\ Len(b) = IF i + 1 <= Len(s) THEN Len(s) - (i + 1) + 1 ELSE 0
      BY <1>0, SubSeqProperties
    <2>2. \A j \in 1..(Len(s) - (i + 1) + 1) : b[j] = s[(i + 1) + j - 1]
      BY <1>0, SubSeqProperties
    <2> HIDE DEF b
    <2> QED
      BY <1>0, <2>1, <2>2
  <1>3. RemoveAt(s, i) = a \o b
    BY DEF RemoveAt
  <1> HIDE DEF a, b
  <1>4. /\ a \o b \in Seq(S) /\ Len(a \o b) = Len(s) - 1
        /\ \A j \in 1..(Len(s) - 1) : (a \o b)[j] = IF j <= i - 1 THEN a[j] ELSE b[j - (i - 1)]
    <2>1. Len(a) + Len(b) = Len(s) - 1
      BY <1>0, <1>1, <1>2
    <2>2. /\ a \o b \in Seq(S) /\ Len(a \o b) = Len(a) + Len(b)
          /\ \A j \in 1..(Len(a) + Len(b)) :
                (a \o b)[j] = IF j <= Len(a) THEN a[j] ELSE b[j - Len(a)]
      BY <1>1, <1>2, ConcatProperties
    <2> QED
      BY <1>1, <2>1, <2>2
  <1>5. \A j \in i..(Len(s) - 1) : (a \o b)[j] = s[j + 1]
    <2> SUFFICES ASSUME NEW j \in i..(Len(s) - 1) PROVE (a \o b)[j] = s[j + 1]
      OBVIOUS
    <2>1. j \in 1..(Len(s) - 1) /\ ~(j <= i - 1) /\ j - (i - 1) \in 1..(Len(s) - i)
      BY <1>0
    <2>2. i + (j - (i - 1)) = j + 1
      BY <1>0
    <2> QED
      BY <1>2, <1>4, <2>1, <2>2
  <1>6. \A j \in 1..(i - 1) : (a \o b)[j] = s[j]
    BY <1>0, <1>1, <1>4
  <1> QED
    BY <1>3, <1>4, <1>5, <1>6

\* remove_flist takes the entry at the cursor out of the list, if there is one.
LEMMA RemovedFrom ==
    ASSUME file_flag \in Nat, NEW t \in Texts(Whole)
    PROVE  /\ RemoveFlist(t, file_flag) \in Texts(Whole)
           /\ file_flag < Len(t.flist) => RemoveFlist(t, file_flag).flist = RemoveAt(t.flist, file_flag + 1)
<1>1. t.flist \in Seq(Whole) /\ Len(t.flist) \in Nat
  BY DEF Texts
<1>2. CASE file_flag < Len(t.flist)
  <2>1. file_flag \in 0..(Len(t.flist) - 1) /\ file_flag + 1 \in 1..Len(t.flist)
    BY <1>1, <1>2
  <2>2. RemoveAt(t.flist, file_flag + 1) \in Seq(Whole)
    BY <1>1, <2>1, Removed
  <2>3. RemoveFlist(t, file_flag) = [t EXCEPT !.flist = RemoveAt(t.flist, file_flag + 1)]
    BY <2>1 DEF RemoveFlist
  <2> QED
    BY <2>2, <2>3 DEF Texts
<1>3. CASE ~(file_flag < Len(t.flist))
  <2>1. RemoveFlist(t, file_flag) = t
    BY <1>1, <1>3 DEF RemoveFlist
  <2> QED
    BY <1>3, <2>1
<1> QED
  BY <1>2, <1>3

-----------------------------------------------------------------------------
(* Lemmas: the source *)

\* A size in kilobytes is a number.
LEMMA KilobytesAre == \A size \in Int : Kilobytes(size) \in Values
<1>1. TAKE size \in Int
<1>2. (2 * size + 1024) \div 2048 \in Int
  BY <1>1
<1>3. Kilobytes(size) \in Int
  BY <1>2 DEF Kilobytes
<1> QED
  BY <1>3 DEF Values

\* A file has a size, or is absent.
LEMMA SizesAre == Inputs => \A f \in Files : disk[f] \in Int
<1> SUFFICES ASSUME Inputs, NEW f \in Files PROVE disk[f] \in Int
  OBVIOUS
<1>1. disk[f] \in Sizes
  BY DEF Inputs
<1>2. Sizes \subseteq Nat \cup {-1}
  BY JsonTextsAssumption DEF Absent
<1>3. disk[f] \in Nat \/ disk[f] = -1
  BY <1>1, <1>2
<1> QED
  BY <1>3

\* The entry of an upload has a name, a path and a size and was not changed.
LEMMA UploadEntryIs ==
    ASSUME NEW size \in Int
    PROVE  UploadEntry(size) \in Whole /\ Keyed \subseteq DOMAIN UploadEntry(size)
<1> DEFINE e == UploadEntry(size)
<1>1. DOMAIN e = Keys \ {"ep"}
  BY DEF UploadEntry
<1>2. /\ e["fn"] = 1 /\ e["fp"] = 1 /\ e["fs"] = Kilobytes(size) /\ e["au"] = NULL /\ e["ft"] = NULL /\ e["ftp"] = NULL
  BY DEF UploadEntry, Keys
<1>3. 1 \in Values /\ NULL \in Values /\ Kilobytes(size) \in Values
  BY KilobytesAre DEF Values, NULL
<1>4. \A k \in Keys \ {"ep"} : e[k] \in Values
  BY <1>2, <1>3 DEF Keys
<1>5. e \in [Keys \ {"ep"} -> Values]
  <2>1. e = [k \in Keys \ {"ep"} |-> e[k]]
    BY DEF UploadEntry
  <2> HIDE DEF e
  <2> QED
    BY <1>4, <2>1
<1> HIDE DEF e
<1>6. e \in UNION {[D -> Values] : D \in SUBSET Keys}
  <2>1. Keys \ {"ep"} \in SUBSET Keys
    OBVIOUS
  <2> QED
    BY <1>5, <2>1
<1>7. e \in Entries
  BY <1>2, <1>6, JsonTextsAssumption DEF Entries
<1>8. AllOrNone(e)
  BY <1>1, <1>2 DEF AllOrNone
<1>9. Keyed \subseteq DOMAIN e
  BY <1>1 DEF Keyed, Keys
<1> QED
  BY <1>7, <1>8, <1>9 DEF Whole, e

\* So has the entry of a mail's file, unless it has no path either.
LEMMA MailEntryIs ==
    ASSUME Inputs, NEW f \in Files \cup {NULL}
    PROVE  MailEntry(f) \in Whole /\ ("fp" \in DOMAIN MailEntry(f) => Keyed \subseteq DOMAIN MailEntry(f))
<1>1. CASE f = NULL
  <2>1. MailEntry(f) = [k \in {"fs"} |-> 1]
    BY <1>1 DEF MailEntry
  <2>2. 1 \in Values /\ {"fs"} \in SUBSET Keys
    BY DEF Values, Keys
  <2>3. [k \in {"fs"} |-> 1] \in [{"fs"} -> Values] /\ DOMAIN [k \in {"fs"} |-> 1] = {"fs"}
    BY <2>2
  <2>4. [k \in {"fs"} |-> 1] \in Entries
    BY <2>2, <2>3 DEF Entries
  <2>5. AllOrNone([k \in {"fs"} |-> 1])
    BY DEF AllOrNone
  <2> QED
    BY <2>1, <2>3, <2>4, <2>5 DEF Whole
<1>2. CASE f # NULL
  <2> DEFINE e == [k \in Keyed |-> IF k = "fs" THEN Kilobytes(disk[f]) ELSE f]
  <2>1. MailEntry(f) = e
    BY <1>2 DEF MailEntry, Keyed
  <2>2. f \in Files /\ f \in Values /\ Kilobytes(disk[f]) \in Values
    <3>1. f \in Files
      BY <1>2
    <3>2. disk[f] \in Int
      BY <3>1, SizesAre
    <3> QED
      BY <3>1, <3>2, KilobytesAre, JsonTextsAssumption DEF Values
  <2>3. e \in [Keyed -> Values] /\ DOMAIN e = Keyed /\ Keyed \in SUBSET Keys /\ e["fp"] = f
    BY <2>2 DEF Keyed, Keys
  <2> HIDE DEF e
  <2>4. e \in Entries
    BY <2>2, <2>3 DEF Entries
  <2>5. AllOrNone(e)
    BY <2>3 DEF AllOrNone, Keyed
  <2> QED
    BY <2>1, <2>3, <2>4, <2>5 DEF Whole
<1> QED
  BY <1>1, <1>2

\* The source is a text none of whose entries was changed; an entry with a path has a name and a size.
LEMMA SourceIs ==
    ASSUME Inputs
    PROVE  /\ Source \in Texts(Whole) /\ Source.flist \in Seq(Whole)
           /\ Len(Source.flist) \in Nat /\ DOMAIN Source.flist = 1..Len(Source.flist)
           /\ \A i \in 1..Len(Source.flist) :
                 "fp" \in DOMAIN Source.flist[i] => Keyed \subseteq DOMAIN Source.flist[i]
<1> DEFINE F == Source.flist
           Good(L) == L \in Seq(Whole) /\ \A i \in 1..Len(L) : "fp" \in DOMAIN L[i] => Keyed \subseteq DOMAIN L[i]
<1>1. CASE node.kind \in {"ftp", "http"}
  <2>1. PICK e : e = UploadEntry(disk[1])
    OBVIOUS
  <2>2. e \in Whole /\ Keyed \subseteq DOMAIN e
    BY <2>1, SizesAre, UploadEntryIs, JsonTextsAssumption
  <2>3. F = <<e>>
    BY <1>1, <2>1 DEF Source, FtpMessage, HttpMessage
  <2>4. Good(<<e>>)
    BY <2>2
  <2>5. Source = [prt |-> Source.prt, rest |-> Source.rest, flist |-> F]
    BY <1>1 DEF Source, FtpMessage, HttpMessage
  <2>6. Good(F)
    BY <2>3, <2>4
  <2> QED
    BY <2>5, <2>6 DEF Texts
<1>2. CASE node.kind = "mail"
  <2>1. PICK list : list = node.list
    OBVIOUS
  <2>2. list \in Seq(Files \cup {NULL}) /\ Len(list) \in Nat /\ DOMAIN list = 1..Len(list)
        /\ \A i \in 1..Len(list) : list[i] \in Files \cup {NULL}
    BY <2>1 DEF Inputs
  <2>3. F = [i \in 1..Len(list) |-> MailEntry(list[i])]
    BY <1>2, <2>1, <2>2 DEF Source, MailMessage
  <2>4. \A i \in 1..Len(list) :
           MailEntry(list[i]) \in Whole
           /\ ("fp" \in DOMAIN MailEntry(list[i]) => Keyed \subseteq DOMAIN MailEntry(list[i]))
    BY <2>2, MailEntryIs
  <2>5. F \in Seq(Whole) /\ Len(F) = Len(list)
    BY <2>2, <2>3, <2>4
  <2>6. Source = [prt |-> Source.prt, rest |-> Source.rest, flist |-> F]
    BY <1>2 DEF Source, MailMessage
  <2>7. Good(F)
    BY <2>3, <2>4, <2>5
  <2> QED
    BY <2>6, <2>7 DEF Texts
<1> QED
  BY <1>1, <1>2 DEF Inputs

\* The number of entries kept of the first n.
LEMMA RankIs ==
    ASSUME Inputs
    PROVE  /\ Kept \subseteq 1..Len(Source.flist)
           /\ Rank(0) = 0 /\ Rank(Len(Source.flist)) = Cardinality(Kept)
           /\ \A n \in 0..Len(Source.flist) :
                 /\ Rank(n) \in 0..n
                 /\ Rank(n + 1) = IF n + 1 \in Kept THEN Rank(n) + 1 ELSE Rank(n)
                 /\ \A k \in Kept : k <= n => Rank(k) \in 1..Rank(n)
<1> DEFINE To(n) == {k \in Kept : k <= n}
<1>0. Len(Source.flist) \in Nat /\ Kept \subseteq 1..Len(Source.flist)
  BY SourceIs DEF Kept
<1>1. PICK m \in Nat : m = Len(Source.flist) /\ \A k \in Kept : k \in Nat /\ 1 <= k /\ k <= m
  <2>1. PICK m \in Nat : m = Len(Source.flist)
    BY <1>0
  <2>2. ASSUME NEW k \in Kept PROVE k \in Nat /\ 1 <= k /\ k <= m
    BY <1>0, <2>1
  <2> QED
    BY <2>1, <2>2
<1> HIDE DEF To
<1>2. \A n \in Nat : IsFiniteSet(To(n)) /\ Cardinality(To(n)) \in 0..n
  <2>1. TAKE n \in Nat
  <2>2. To(n) \subseteq 1..n
    BY <1>1 DEF To
  <2>3. IsFiniteSet(1..n) /\ Cardinality(1..n) = n
    BY FS_Interval
  <2>4. IsFiniteSet(To(n)) /\ Cardinality(To(n)) <= Cardinality(1..n)
    BY <2>2, <2>3, FS_Subset
  <2>5. Cardinality(To(n)) \in Nat
    BY <2>4, FS_CardinalityType
  <2> QED
    BY <2>3, <2>4, <2>5
<1>3. \A n : Rank(n) = Cardinality(To(n))
  BY DEF Rank, To
<1>4. Rank(0) = 0
  BY <1>2, <1>3
<1>5. Rank(Len(Source.flist)) = Cardinality(Kept)
  <2>1. \A k \in Kept : k <= m
    BY <1>1
  <2>2. To(m) = Kept
    BY <2>1 DEF To
  <2> QED
    BY <1>1, <1>3, <2>2
<1>6. ASSUME NEW n \in Nat
      PROVE  Rank(n + 1) = IF n + 1 \in Kept THEN Rank(n) + 1 ELSE Rank(n)
  <2>1. CASE n + 1 \in Kept
    <3>1. To(n + 1) = To(n) \cup {n + 1} /\ n + 1 \notin To(n)
      BY <1>1, <2>1 DEF To
    <3>2. Cardinality(To(n) \cup {n + 1}) = Cardinality(To(n)) + 1
      BY <1>2, <3>1, FS_AddElement
    <3> QED
      BY <1>3, <2>1, <3>1, <3>2
  <2>2. CASE n + 1 \notin Kept
    <3>1. To(n + 1) = To(n)
      BY <1>1, <2>2 DEF To
    <3> QED
      BY <1>3, <2>2, <3>1
  <2> QED
    BY <2>1, <2>2
<1>7. ASSUME NEW n \in Nat, NEW k \in Kept, k <= n
      PROVE  Rank(k) \in 1..Rank(n)
  <2>1. k \in Nat /\ To(k) \subseteq To(n) /\ k \in To(k)
    BY <1>1, <1>7 DEF To
  <2>2. Cardinality(To(k)) <= Cardinality(To(n))
    BY <1>2, <2>1, FS_Subset
  <2>3. Cardinality(To(k)) # 0
    BY <1>2, <2>1, FS_EmptySet
  <2>4. Cardinality(To(k)) \in Nat /\ Cardinality(To(n)) \in Nat
    BY <1>2, <2>1
  <2> QED
    BY <1>3, <2>2, <2>3, <2>4
<1>8. ASSUME NEW n \in 0..Len(Source.flist)
      PROVE  /\ Rank(n) \in 0..n
             /\ Rank(n + 1) = IF n + 1 \in Kept THEN Rank(n) + 1 ELSE Rank(n)
             /\ \A k \in Kept : k <= n => Rank(k) \in 1..Rank(n)
  <2>1. n \in Nat
    BY <1>0
  <2> QED
    BY <1>2, <1>3, <1>6, <1>7, <2>1
<1> QED
  BY <1>0, <1>4, <1>5, <1>8

\* No entry is kept only if none is counted.
LEMMA KeptIs == Inputs => (Cardinality(Kept) = 0 <=> Kept = {})
<1> SUFFICES ASSUME Inputs PROVE Cardinality(Kept) = 0 <=> Kept = {}
  OBVIOUS
<1>1. Kept \subseteq 1..Len(Source.flist) /\ Len(Source.flist) \in Nat
  BY RankIs, SourceIs
<1>2. IsFiniteSet(1..Len(Source.flist))
  BY <1>1, FS_Interval
<1>3. IsFiniteSet(Kept)
  BY <1>1, <1>2, FS_Subset
<1> QED
  BY <1>3, FS_EmptySet

\* The source is the same throughout.
LEMMA SourceKept ==
    ASSUME UNCHANGED inputs
    PROVE  /\ Source' = Source /\ Kept' = Kept /\ \A n : Rank(n)' = Rank(n)
           /\ (Inputs <=> Inputs') /\ (AllNamed <=> AllNamed') /\ (Sends <=> Sends')
           /\ Texts(Whole)' = Texts(Whole) /\ Texts(Entries)' = Texts(Entries)
           /\ \A e, s : Changed(e, s) <=> Changed(e, s)'
<1>1. node' = node /\ disk' = disk /\ tika' = tika
  BY DEF inputs
<1>2. \A f : MailEntry(f)' = MailEntry(f)
  BY <1>1 DEF MailEntry
<1>3. MailMessage' = MailMessage
  BY <1>1, <1>2 DEF MailMessage
<1>4. Source' = Source
  BY <1>1, <1>3 DEF Source, FtpMessage, HttpMessage
<1>5. \A f : Usable(f) <=> Usable(f)'
  BY <1>1 DEF Usable
<1>6. Kept' = Kept
  BY <1>4, <1>5 DEF Kept
<1>7. \A n : Rank(n)' = Rank(n)
  BY <1>6 DEF Rank
<1>8. (Inputs <=> Inputs') /\ (AllNamed <=> AllNamed') /\ (Sends <=> Sends')
  BY <1>1, <1>4, <1>6 DEF Inputs, AllNamed, Sends
<1>9. Texts(Whole)' = Texts(Whole) /\ Texts(Entries)' = Texts(Entries)
  BY <1>4 DEF Texts
<1>10. \A e, s : Changed(e, s) <=> Changed(e, s)'
  BY <1>1 DEF Changed
<1> QED
  BY <1>4, <1>6, <1>7, <1>8, <1>9, <1>10

-----------------------------------------------------------------------------
(* Lemmas: the walk over the list *)

\* What lies around a cursor is a matter of the source only.
LEMMA AroundStays ==
    ASSUME UNCHANGED inputs
    PROVE  /\ \A L, n, flag : Around(L, n, flag) <=> Around(L, n, flag)'
           /\ \A L : Finished(L) <=> Finished(L)'
BY SourceKept DEF Around, Finished

\* At the start all is behind the cursor.
LEMMA AroundStart == Inputs => Around(Source.flist, 0, 0)
<1> SUFFICES ASSUME Inputs PROVE Around(Source.flist, 0, 0)
  OBVIOUS
<1>1. /\ Len(Source.flist) \in Nat /\ Rank(0) = 0
      /\ \A k \in Kept : ~(k <= 0)
  BY SourceIs, RankIs
<1> QED
  BY <1>1 DEF Around

\* At the end all is before it.
LEMMA AroundEnd ==
    ASSUME Inputs, NEW L, NEW n, NEW flag, Around(L, n, flag), flag >= Len(L)
    PROVE  Finished(L)
<1>1. PICK m \in Nat : m = Len(Source.flist)
  BY SourceIs
<1>2. n \in 0..m /\ flag = Rank(n) /\ Len(L) = flag + (m - n)
  BY <1>1 DEF Around
<1>3. flag \in Nat
  BY <1>1, <1>2, RankIs
<1>4. n = m
  BY <1>2, <1>3
<1>5. Len(L) = Cardinality(Kept)
  BY <1>1, <1>2, <1>3, <1>4, RankIs
<1>6. \A k \in Kept : k <= n
  BY <1>1, <1>4, RankIs
<1> QED
  BY <1>5, <1>6 DEF Around, Finished

\* What lies around the cursor does not depend on the entry there.
LEMMA AroundSame ==
    ASSUME Inputs, NEW L, NEW M, NEW n, NEW flag, Around(L, n, flag),
           Len(M) = Len(L), \A i \in 1..Len(L) : i # flag + 1 => M[i] = L[i]
    PROVE  Around(M, n, flag)
<1>1. PICK m \in Nat : m = Len(Source.flist)
  BY SourceIs
<1>2. n \in 0..m /\ flag = Rank(n) /\ Len(L) = flag + (m - n)
  BY <1>1 DEF Around
<1>3. flag \in Nat /\ \A k \in Kept : k <= n => Rank(k) \in 1..flag
  BY <1>1, <1>2, RankIs
<1>4. ASSUME NEW k \in Kept, k <= n PROVE Changed(M[Rank(k)], Source.flist[k])
  <2>1. Rank(k) \in 1..Len(L) /\ Rank(k) # flag + 1
    BY <1>2, <1>3, <1>4
  <2>2. M[Rank(k)] = L[Rank(k)]
    BY <2>1
  <2> QED
    BY <1>4, <2>2 DEF Around
<1>5. ASSUME NEW i \in (n + 2)..m PROVE M[flag + (i - n)] = Source.flist[i]
  <2>1. flag + (i - n) \in 1..Len(L) /\ flag + (i - n) # flag + 1
    BY <1>2, <1>3
  <2>2. M[flag + (i - n)] = L[flag + (i - n)]
    BY <2>1
  <2> QED
    BY <1>1, <2>2 DEF Around
<1> QED
  BY <1>1, <1>2, <1>4, <1>5 DEF Around

\* M is L without the entry at the cursor.
Without(M, L, flag) ==
    /\ Len(M) = Len(L) - 1 /\ \A i \in 1..flag : M[i] = L[i]
    /\ \A i \in (flag + 1)..(Len(L) - 1) : M[i] = L[i + 1]

\* An entry that is not kept is taken out.
LEMMA AroundDropped ==
    ASSUME Inputs, NEW L, NEW M, NEW n, NEW flag, Around(L, n, flag), flag < Len(L), n + 1 \notin Kept,
           Without(M, L, flag)
    PROVE  /\ n + 1 \in 0..Len(Source.flist) /\ Around(M, n + 1, flag)
           /\ n + 1 < Len(Source.flist) => M[flag + 1] = Source.flist[(n + 1) + 1]
<1>0. /\ Len(M) = Len(L) - 1 /\ \A i \in 1..flag : M[i] = L[i]
      /\ \A i \in (flag + 1)..(Len(L) - 1) : M[i] = L[i + 1]
  BY DEF Without
<1>1. PICK m \in Nat : m = Len(Source.flist)
  BY SourceIs
<1>2. n \in 0..m /\ flag = Rank(n) /\ Len(L) = flag + (m - n)
  BY <1>1 DEF Around
<1>3. flag \in Nat /\ (\A k \in Kept : k <= n => Rank(k) \in 1..flag) /\ Rank(n + 1) = flag
  BY <1>1, <1>2, RankIs
<1>4. n + 1 \in 0..m
  BY <1>2, <1>3
<1>5. ASSUME NEW k \in Kept, k <= n + 1 PROVE Changed(M[Rank(k)], Source.flist[k])
  <2>1. k <= n
    BY <1>1, <1>2, <1>5, RankIs
  <2>2. M[Rank(k)] = L[Rank(k)]
    BY <1>0, <1>3, <2>1
  <2> QED
    BY <2>1, <2>2 DEF Around
<1>6. ASSUME NEW i \in (n + 2)..m PROVE M[flag + (i - (n + 1))] = Source.flist[i]
  <2>1. flag + (i - (n + 1)) \in (flag + 1)..(Len(L) - 1) /\ (flag + (i - (n + 1))) + 1 = flag + (i - n)
    BY <1>2, <1>3
  <2>2. M[flag + (i - (n + 1))] = L[flag + (i - n)]
    BY <1>0, <2>1
  <2> QED
    BY <1>1, <2>2 DEF Around
<1>7. ((n + 1) + 2)..m \subseteq (n + 2)..m /\ Len(M) = flag + (m - (n + 1))
  BY <1>0, <1>2, <1>3
<1>8. ASSUME n + 1 < m PROVE M[flag + 1] = Source.flist[(n + 1) + 1]
  <2>1. n + 2 \in (n + 2)..m /\ flag + ((n + 2) - (n + 1)) = flag + 1 /\ (n + 1) + 1 = n + 2
    BY <1>2, <1>3, <1>8
  <2> QED
    BY <1>6, <2>1
<1>9. Around(M, n + 1, flag)
  BY <1>1, <1>3, <1>4, <1>5, <1>6, <1>7 DEF Around
<1> QED
  BY <1>1, <1>4, <1>8, <1>9

\* An entry that was changed is left behind.
LEMMA AroundAdvanced ==
    ASSUME Inputs, NEW L, NEW n, NEW flag, Around(L, n, flag), n + 1 \in Kept,
           Changed(L[flag + 1], Source.flist[n + 1])
    PROVE  /\ n + 1 \in 0..Len(Source.flist) /\ Around(L, n + 1, flag + 1)
           /\ n + 1 < Len(Source.flist) => L[(flag + 1) + 1] = Source.flist[(n + 1) + 1]
<1>1. PICK m \in Nat : m = Len(Source.flist)
  BY SourceIs
<1>2. n \in 0..m /\ flag = Rank(n) /\ Len(L) = flag + (m - n)
  BY <1>1 DEF Around
<1>3. flag \in Nat /\ Rank(n + 1) = flag + 1 /\ n + 1 \in 1..m
  BY <1>1, <1>2, RankIs
<1>4. ASSUME NEW k \in Kept, k <= n + 1 PROVE Changed(L[Rank(k)], Source.flist[k])
  <2>1. k <= n \/ k = n + 1
    BY <1>1, <1>2, <1>4, RankIs
  <2>2. CASE k <= n
    BY <2>2 DEF Around
  <2>3. CASE k = n + 1
    BY <1>3, <2>3
  <2> QED
    BY <2>1, <2>2, <2>3
<1>5. ASSUME NEW i \in (n + 2)..m PROVE L[(flag + 1) + (i - (n + 1))] = Source.flist[i]
  <2>1. (flag + 1) + (i - (n + 1)) = flag + (i - n)
    BY <1>2, <1>3
  <2> QED
    BY <1>1, <2>1 DEF Around
<1>6. ((n + 1) + 2)..m \subseteq (n + 2)..m /\ Len(L) = (flag + 1) + (m - (n + 1))
  BY <1>2, <1>3
<1>7. ASSUME n + 1 < m PROVE L[(flag + 1) + 1] = Source.flist[(n + 1) + 1]
  <2>1. n + 2 \in (n + 2)..m /\ (flag + 1) + ((n + 2) - (n + 1)) = (flag + 1) + 1 /\ (n + 1) + 1 = n + 2
    BY <1>2, <1>3, <1>7
  <2> QED
    BY <1>5, <2>1
<1>8. n + 1 \in 0..m
  BY <1>3
<1>9. Around(L, n + 1, flag + 1)
  BY <1>1, <1>3, <1>4, <1>5, <1>6, <1>8 DEF Around
<1> QED
  BY <1>1, <1>7, <1>8, <1>9

-----------------------------------------------------------------------------
(* Lemmas: texts in the heap *)

\* A text is put where it is found again, and leaves the others as they were.
LEMMA PutText ==
    ASSUME NEW h, DOMAIN h \subseteq Nat \ {0}, IsFiniteSet(DOMAIN h), NEW text
    PROVE  Put(h, text)[Fresh(h)] = text /\ \A a \in DOMAIN h : Put(h, text)[a] = h[a]
<1>1. Fresh(h) \notin DOMAIN h
  BY FreshIsFree
<1> QED
  BY <1>1 DEF Put

\* free leaves the others as they were.
LEMMA FreeText ==
    ASSUME NEW h, NEW as
    PROVE  DOMAIN Free(h, as) = DOMAIN h \ as /\ \A a \in DOMAIN h \ as : Free(h, as)[a] = h[a]
BY DEF Free

\* Strings that are freed leave the texts of the others whole.
LEMMA FreedWhole ==
    ASSUME WholeTexts, UNCHANGED inputs, NEW as, heap' = heap \/ heap' = Free(heap, as),
           return_json' = return_json \/ return_json' \notin DOMAIN heap',
           jsontmp' = jsontmp \/ jsontmp' \notin DOMAIN heap',
           pc' \notin Updating, sent' = sent
    PROVE  WholeTexts'
<1>1. \A a \in DOMAIN heap' : a \in DOMAIN heap /\ heap'[a] = heap[a]
  <2>1. CASE heap' = heap
    BY <2>1
  <2>2. CASE heap' = Free(heap, as)
    <3>1. PICK h : h = heap
      OBVIOUS
    <3>2. DOMAIN Free(h, as) = DOMAIN h \ as /\ \A a \in DOMAIN h \ as : Free(h, as)[a] = h[a]
      BY FreeText
    <3>3. heap' = Free(h, as)
      BY <2>2, <3>1
    <3> QED
      BY <3>1, <3>2, <3>3
  <2> QED
    BY <2>1, <2>2
<1>2. Texts(Whole)' = Texts(Whole)
  BY SourceKept
<1>3. return_json' \in DOMAIN heap' => heap'[return_json'] \in Texts(Whole)
  BY <1>1 DEF WholeTexts
<1>4. jsontmp' \in DOMAIN heap' => heap'[jsontmp'] \in Texts(Whole)
  BY <1>1 DEF WholeTexts
<1> QED
  BY <1>2, <1>3, <1>4 DEF WholeTexts, Updating

\* A new copy is as whole as its text.
LEMMA CopyWhole ==
    ASSUME WholeTexts, UNCHANGED inputs, NEW text \in Texts(Whole), jsontmp' \in DOMAIN heap', heap'[jsontmp'] = text,
           return_json' = return_json, return_json \in DOMAIN heap, heap'[return_json] = heap[return_json],
           pc' \notin Updating, sent' = sent
    PROVE  WholeTexts'
<1>1. Texts(Whole)' = Texts(Whole)
  BY SourceKept
<1> QED
  BY <1>1 DEF WholeTexts, Updating

\* After a failure there is nothing to say of the walk.
LEMMA FailedWalks == ASSUME failed' # "none" PROVE Walked'
BY DEF Walked

\* What was sent stays as it is.
LEMMA SentFinished ==
    ASSUME UNCHANGED inputs, sent' = sent, \A i \in 1..Len(sent) : Finished(sent[i].flist)
    PROVE  (\A i \in 1..Len(sent) : Finished(sent[i].flist))'
<1>1. PICK s : s = sent
  OBVIOUS
<1>2. \A i \in 1..Len(s) : Finished(s[i].flist)
  BY <1>1
<1>3. \A i \in 1..Len(s) : Finished(s[i].flist)'
  BY <1>2, AroundStays
<1>4. sent' = s
  BY <1>1
<1> QED
  BY <1>3, <1>4

\* What tika says is a value.
LEMMA SaidIs ==
    ASSUME Inputs, tika_message \in [au : Values, ft : Values, ep : Values], NEW f \in Files
    PROVE  Said(f) \in [au : Values, ft : Values, ep : Values]
<1>1. tika[f] \in TikaOutputs
  BY DEF Inputs
<1>2. tika[f].au \in Values /\ tika[f].ft \in Values /\ tika[f].ep \in Values
  BY <1>1 DEF Values
<1> QED
  BY <1>2 DEF Said

\* Whoever looks at an entry has a text with one at the cursor.
LEMMA MoreIs ==
    ASSUME SourceInv, More
    PROVE  /\ pc = "walk" /\ jsontmp \in DOMAIN heap /\ heap[jsontmp] \in Texts(Whole)
           /\ file_flag \in Nat /\ Len(heap[jsontmp].flist) \in Nat /\ file_flag < Len(heap[jsontmp].flist)
           /\ Entry = Here(heap[jsontmp].flist) /\ Entry \in Whole
           /\ GetFileValue \in Files \cup {NULL}
<1>1. /\ pc = "walk" /\ ~Bad(jsontmp) /\ file_flag < GetFileNum(jsontmp) /\ file_flag \in Nat
      /\ filefull_fname \in Files \cup {NULL}
  BY DEF More, SourceInv, Cursor
<1>2. jsontmp # NULL
  BY <1>1 DEF GetFileNum
<1>3. jsontmp \in DOMAIN heap
  BY <1>1, <1>2 DEF Bad
<1>4. heap[jsontmp] \in Texts(Whole) /\ file_flag < Len(heap[jsontmp].flist)
  BY <1>1, <1>2, <1>3 DEF SourceInv, WholeTexts, GetFileNum
<1>5. heap[jsontmp].flist \in Seq(Whole) /\ Len(heap[jsontmp].flist) \in Nat
  BY <1>4 DEF Texts
<1>6. Entry = Here(heap[jsontmp].flist)
  BY DEF Entry, Here
<1>7. file_flag + 1 \in 1..Len(heap[jsontmp].flist)
  BY <1>1, <1>4, <1>5
<1>8. Entry \in Whole
  BY <1>5, <1>7 DEF Entry
<1>9. GetFileValue \in Files \cup {NULL}
  BY <1>1, <1>8 DEF GetFileValue, Whole, Entries
<1> QED
  BY <1>1, <1>3, <1>4, <1>5, <1>6, <1>8, <1>9

\* A text without the entry at the cursor takes the place of the copy.
LEMMA TakenOut ==
    ASSUME SourceInv, More, UNCHANGED inputs, return_json' = return_json, sent' = sent, pc' = "walk",
           heap' = Free(Put(heap, RemoveFlist(heap[jsontmp], file_flag)), {jsontmp}), jsontmp' = Fresh(heap)
    PROVE  WholeTexts' /\ heap'[jsontmp'] = RemoveFlist(heap[jsontmp], file_flag)
<1>1. PICK u : u = RemoveFlist(heap[jsontmp], file_flag)
  OBVIOUS
<1>2. pc = "walk" /\ jsontmp \in DOMAIN heap /\ u \in Texts(Whole)
  BY <1>1, MoreIs, RemovedFrom
<1>3. /\ DOMAIN heap \subseteq Nat \ {0} /\ IsFiniteSet(DOMAIN heap) /\ return_json \in DOMAIN heap \ {jsontmp}
  BY <1>2 DEF SourceInv, TextsInv, Strings, CallersText, Copied
<1>4. PICK h, as : h = Put(heap, u) /\ as = {jsontmp}
  OBVIOUS
<1>5. /\ DOMAIN h = DOMAIN heap \cup {Fresh(heap)} /\ Fresh(heap) \notin DOMAIN heap
      /\ h[Fresh(heap)] = u /\ \A a \in DOMAIN heap : h[a] = heap[a]
  <2>1. PICK g : g = heap
    OBVIOUS
  <2>2. DOMAIN g \subseteq Nat \ {0} /\ IsFiniteSet(DOMAIN g)
    BY <1>3, <2>1
  <2>3. DOMAIN Put(g, u) = DOMAIN g \cup {Fresh(g)} /\ Fresh(g) \notin DOMAIN g
    BY <2>2, PutIs
  <2>4. Put(g, u)[Fresh(g)] = u /\ \A a \in DOMAIN g : Put(g, u)[a] = g[a]
    BY <2>2, PutText
  <2> QED
    BY <1>4, <2>1, <2>3, <2>4
<1>6. DOMAIN Free(h, as) = DOMAIN h \ as /\ \A a \in DOMAIN h \ as : Free(h, as)[a] = h[a]
  BY FreeText
<1>7. heap' = Free(h, as) /\ Fresh(heap) \in DOMAIN h \ as /\ return_json \in DOMAIN h \ as
  BY <1>1, <1>2, <1>3, <1>4, <1>5
<1>8. heap'[jsontmp'] = u /\ jsontmp' \in DOMAIN heap' /\ heap'[return_json] = heap[return_json]
  BY <1>3, <1>5, <1>6, <1>7
<1>9. WholeTexts'
  BY <1>2, <1>3, <1>8, CopyWhole DEF SourceInv, Updating
<1> QED
  BY <1>1, <1>8, <1>9

-----------------------------------------------------------------------------
(* The steps: what is sent *)

\* The text that is made is the source; without names, attributes or a file there is none.
LEMMA MakeSource ==
    ASSUME SourceInv, TextsInv', SendJson \/ HttpUploadJson \/ MailText PROVE SourceInv'
<1>1. /\ pc = "make" /\ UNCHANGED <<inputs, jsontmp, jsondest, json_src, walkVars, sent, failed, crashed>>
  BY DEF SendJson, HttpUploadJson, MailText, Rest
<1>2. /\ DOMAIN heap = {} /\ jsontmp = NULL /\ sent = <<>> /\ DOMAIN heap' \subseteq Nat \ {0} /\ IsFiniteSet(DOMAIN heap)
  BY <1>1 DEF SourceInv, TextsInv, Strings, CallersText, Fresh0, Told
<1>3. \/ /\ heap' = Put(heap, Source) /\ return_json' = Fresh(heap) /\ pc' = "extract"
      \/ /\ heap' = heap /\ return_json' = return_json /\ pc' = "done"
         /\ ~(node.named /\ node.attr /\ (node.kind # "mail" => disk[1] # Absent))
  <2>1. CASE SendJson
    BY <2>1 DEF SendJson, NoText, NoFile, FtpJsonstr, NewText, Goto, Source
  <2>2. CASE HttpUploadJson
    BY <2>2 DEF HttpUploadJson, NoText, NoFile, HttpuploadProJsonstr, NewText, Goto, Source
  <2>3. CASE MailText
    BY <2>3 DEF MailText, NewText, Goto, Source
  <2> QED
    BY <2>1, <2>2, <2>3
<1>4. Inputs /\ Inputs' /\ Source' = Source /\ Source \in Texts(Whole) /\ Texts(Whole)' = Texts(Whole)
  BY <1>1, SourceKept, SourceIs DEF SourceInv
<1>5. heap'[return_json'] = Source \/ return_json' \notin DOMAIN heap'
  <2>1. CASE heap' = Put(heap, Source) /\ return_json' = Fresh(heap)
    BY <1>2, <2>1, PutText
  <2>2. CASE heap' = heap
    BY <1>2, <2>2
  <2> QED
    BY <1>3, <2>1, <2>2
<1>6. Cursor'
  BY <1>1, <1>3 DEF SourceInv, Cursor, walkVars, Updating
<1>7. NULL \notin DOMAIN heap' /\ 1..Len(sent') = {}
  <2>1. 1..Len(<<>>) = {}
    OBVIOUS
  <2> QED
    BY <1>1, <1>2, <2>1 DEF NULL
<1>8. WholeTexts'
  BY <1>1, <1>2, <1>3, <1>4, <1>5, <1>7 DEF WholeTexts
<1>9. Walked'
  <2>1. CASE pc' = "extract"
    <3>1. heap'[return_json'] = Source'
      BY <1>2, <1>3, <1>4, <2>1, PutText
    <3> QED
      BY <1>7, <2>1, <3>1 DEF Walked, Updating
  <2>2. CASE pc' = "done"
    <3>1. ~(node'.named /\ node'.attr /\ (node'.kind # "mail" => disk'[1] # Absent))
      BY <1>1, <1>3, <2>2 DEF inputs
    <3> QED
      BY <1>7, <2>2, <3>1 DEF Walked, Updating
  <2> QED
    BY <1>3, <2>1, <2>2
<1> QED
  BY <1>4, <1>6, <1>8, <1>9 DEF SourceInv

\* The caller frees its text.
LEMMA ReturnSource == ASSUME SourceInv, TextsInv', Return PROVE SourceInv'
<1>1. /\ pc = "return" /\ pc' = "done" /\ heap' = Free(heap, {return_json}) /\ return_json' = NULL
      /\ UNCHANGED <<inputs, jsontmp, jsondest, json_src, walkVars, sent, lost, failed, crashed>>
  BY DEF Return, Goto
<1>2. NULL \notin DOMAIN heap'
  BY DEF TextsInv, Strings, NULL
<1>3. Inputs'
  BY <1>1, SourceKept DEF SourceInv
<1>4. Cursor'
  BY <1>1 DEF SourceInv, Cursor, walkVars, Updating
<1>5. WholeTexts'
  BY <1>1, <1>2, FreedWhole DEF SourceInv, Updating
<1>6. Walked'
  <2> SUFFICES ASSUME failed' = "none", AllNamed'
               PROVE  (sent' # <<>> <=> Sends') /\ (\A i \in 1..Len(sent) : Finished(sent[i].flist))'
    BY <1>1 DEF Walked, Updating
  <2>1. failed = "none" /\ AllNamed /\ (Sends <=> Sends')
    BY <1>1, SourceKept
  <2>2. (sent # <<>> <=> Sends) /\ \A i \in 1..Len(sent) : Finished(sent[i].flist)
    BY <1>1, <2>1 DEF SourceInv, Walked
  <2>3. (\A i \in 1..Len(sent) : Finished(sent[i].flist))'
    BY <1>1, <2>2, SentFinished
  <2> QED
    BY <1>1, <2>1, <2>2, <2>3
<1> QED
  BY <1>3, <1>4, <1>5, <1>6 DEF SourceInv

\* The copy is the source, with all entries behind the cursor.
LEMMA CopySource == ASSUME SourceInv, TextsInv', Copy PROVE SourceInv'
<1>1. /\ pc = "extract" /\ UNCHANGED <<inputs, return_json, json_src, walkVars, sent, lost, crashed>>
      /\ pc' \notin Updating \cup {"au", "make", "extract"}
  BY DEF Copy, Goto, Updating
<1>2. /\ DOMAIN heap = {return_json} /\ DOMAIN heap \subseteq Nat \ {0} /\ IsFiniteSet(DOMAIN heap)
      /\ sent = <<>> /\ failed = "none" /\ file_flag = 0 /\ heap[return_json] \in Texts(Whole)
      /\ return_json \in DOMAIN heap
  BY <1>1 DEF SourceInv, TextsInv, Strings, CallersText, Fresh0, Told, Cursor, WholeTexts
<1>3. Inputs /\ Inputs'
  BY <1>1, SourceKept DEF SourceInv
<1>4. Cursor'
  BY <1>1 DEF SourceInv, Cursor, walkVars
<1>5. CASE /\ heap' = Put(heap, heap[return_json]) /\ jsontmp' = Fresh(heap) /\ pc' = "walk" /\ failed' = failed
  <2>1. heap'[jsontmp'] = heap[return_json] /\ heap'[return_json] = heap[return_json] /\ jsontmp' \in DOMAIN heap'
    BY <1>2, <1>5, PutText, PutIs
  <2>2. WholeTexts'
    BY <1>1, <1>2, <2>1, CopyWhole DEF SourceInv
  <2>3. Walked'
    <3> SUFFICES ASSUME AllNamed' PROVE Walked'
      BY DEF Walked
    <3>1. heap[return_json] = Source /\ Source' = Source
      BY <1>1, <1>2, SourceKept DEF SourceInv, Walked
    <3>2. PICK F : F = Source.flist
      OBVIOUS
    <3>3. Around(F, 0, 0)' /\ 0 \in 0..Len(F)
      <4>1. Around(F, 0, 0)
        BY <1>3, <3>2, AroundStart
      <4>2. Around(F, 0, 0)'
        BY <1>1, <4>1, AroundStays
      <4>3. Len(F) \in Nat
        BY <1>3, <3>2, SourceIs
      <4> QED
        BY <4>2, <4>3
    <3>4. heap'[jsontmp'].flist = F /\ file_flag' = 0 /\ Source'.flist = F
      BY <1>1, <1>2, <2>1, <3>1, <3>2 DEF walkVars
    <3>5. Here(heap[jsontmp].flist)' = F[0 + 1]
      BY <3>4 DEF Here
    <3>6. 1..Len(sent') = {}
      <4>1. 1..Len(<<>>) = {}
        OBVIOUS
      <4> QED
        BY <1>1, <1>2, <4>1
    <3> QED
      BY <1>5, <3>3, <3>4, <3>5, <3>6 DEF Walked, Updating
  <2> QED
    BY <1>3, <1>4, <2>2, <2>3 DEF SourceInv
<1>6. CASE failed' = "malloc" /\ pc' = "return" /\ UNCHANGED <<heap, jsontmp>>
  <2>1. WholeTexts'
    BY <1>1, <1>6, FreedWhole DEF SourceInv, Updating
  <2> QED
    BY <1>3, <1>4, <1>6, <2>1, FailedWalks DEF SourceInv
<1> QED
  BY <1>5, <1>6 DEF Copy, Goto, NoFault, Fault

\* The text is sent unless it says of ftp only, and of no file.
LEMMA ProtocolIs == Inputs => (Source.prt = "ftp" <=> node.kind = "ftp")
BY DEF Inputs, Source, FtpMessage, HttpMessage, MailMessage

\* The cursor is at the end, or the text could not be loaded.
LEMMA WalkDoneSource == ASSUME SourceInv, TextsInv', WalkDone PROVE SourceInv'
<1>1. /\ pc = "walk" /\ ~Bad(jsontmp) /\ pc' \in {"return", "ready"}
      /\ UNCHANGED <<inputs, heap, pointers, walkVars, sent, lost, crashed>>
      /\ return_json' = return_json /\ jsontmp' = jsontmp /\ sent' = sent /\ heap' = heap
  BY DEF WalkDone, Goto, pointers
<1>2. sent = <<>> /\ file_flag \in Nat /\ file_flag' = file_flag
  BY <1>1 DEF SourceInv, TextsInv, Told, Cursor, walkVars
<1>3. Inputs /\ Inputs'
  BY <1>1, SourceKept DEF SourceInv
<1>4. Cursor'
  BY <1>1 DEF SourceInv, Cursor, walkVars, Updating
<1>5. WholeTexts'
  BY <1>1, FreedWhole DEF SourceInv, Updating
<1>6. Walked'
  <2> SUFFICES ASSUME failed' = "none", AllNamed' PROVE Walked'
    BY DEF Walked
  <2>1. /\ failed = "none" /\ file_flag >= GetFileNum(jsontmp)
        /\ pc' = IF GetFileNum(jsontmp) = 0 /\ jsontmp # NULL /\ heap[jsontmp].prt = "ftp"
                 THEN "return" ELSE "ready"
    BY DEF WalkDone, Goto, NoFault, Fault
  <2>2. AllNamed /\ (Sends <=> Sends')
    BY <1>1, SourceKept
  <2>3. jsontmp \in DOMAIN heap /\ jsontmp # NULL
    BY <1>1, <2>1 DEF SourceInv, TextsInv, Strings, Exact, Copied, NULL
  <2>4. PICK t : t = heap[jsontmp]
    OBVIOUS
  <2>5. t \in Texts(Whole) /\ t.prt = Source.prt /\ Len(t.flist) \in Nat /\ GetFileNum(jsontmp) = Len(t.flist)
    BY <2>3, <2>4 DEF SourceInv, WholeTexts, Texts, GetFileNum
  <2>6. Finished(t.flist) /\ Finished(t.flist)'
    <3>1. \E n \in 0..Len(Source.flist) : Around(t.flist, n, file_flag)
      BY <1>1, <2>1, <2>2, <2>4 DEF SourceInv, Walked
    <3>2. Finished(t.flist)
      BY <1>3, <2>1, <2>5, <3>1, AroundEnd
    <3> QED
      BY <1>1, <3>2, AroundStays
  <2>7. 1..Len(sent') = {} /\ sent' = <<>>
    <3>1. 1..Len(<<>>) = {}
      OBVIOUS
    <3> QED
      BY <1>1, <1>2, <3>1
  <2>8. CASE pc' = "ready"
    <3>1. heap'[jsontmp'].flist = t.flist
      BY <1>1, <2>4
    <3> QED
      BY <2>6, <2>7, <2>8, <3>1 DEF Walked, Updating
  <2>9. CASE pc' = "return"
    <3>1. Len(t.flist) = 0 /\ t.prt = "ftp"
      BY <2>1, <2>4, <2>5, <2>9
    <3>2. Kept = {}
      BY <1>3, <2>6, <3>1, KeptIs DEF Finished
    <3>3. ~Sends
      BY <1>3, <2>5, <3>1, <3>2, ProtocolIs DEF Sends
    <3> QED
      BY <2>2, <2>7, <2>9, <3>3 DEF Walked, Updating
  <2> QED
    BY <1>1, <2>8, <2>9
<1> QED
  BY <1>3, <1>4, <1>5, <1>6 DEF SourceInv

\* A crash changes no text.
LEMMA DanglingSource == ASSUME SourceInv, TextsInv', Dangling PROVE SourceInv'
<1>1. /\ crashed' = TRUE /\ pc' = "crashed"
      /\ UNCHANGED <<inputs, heap, pointers, walkVars, sent, lost, failed>>
      /\ return_json' = return_json /\ jsontmp' = jsontmp /\ sent' = sent /\ heap' = heap
  BY DEF Dangling, Crash, Goto, pointers
<1>2. failed' # "none"
  BY <1>1 DEF TextsInv, Told
<1>3. Inputs'
  BY <1>1, SourceKept DEF SourceInv
<1>4. Cursor'
  BY <1>1 DEF SourceInv, Cursor, walkVars, Updating
<1>5. WholeTexts'
  BY <1>1, FreedWhole DEF SourceInv, Updating
<1> QED
  BY <1>2, <1>3, <1>4, <1>5, FailedWalks DEF SourceInv

\* The entry whose file cannot be used is taken out.
LEMMA DropSource == ASSUME SourceInv, TextsInv', Drop PROVE SourceInv'
<1>1. /\ More /\ filefull_fname' = GetFileValue /\ ~Usable(GetFileValue) /\ pc' = pc
      /\ UNCHANGED <<inputs, return_json, json_src, file_flag, tika_message, sent, crashed>>
  BY DEF Drop
<1>2. /\ pc = "walk" /\ jsontmp \in DOMAIN heap /\ heap[jsontmp] \in Texts(Whole)
      /\ file_flag \in Nat /\ Len(heap[jsontmp].flist) \in Nat /\ file_flag < Len(heap[jsontmp].flist)
      /\ Entry = Here(heap[jsontmp].flist) /\ Entry \in Whole /\ GetFileValue \in Files \cup {NULL}
  BY <1>1, MoreIs
<1>3. /\ DOMAIN heap \subseteq Nat \ {0} /\ IsFiniteSet(DOMAIN heap) /\ sent = <<>>
      /\ return_json \in DOMAIN heap \ {jsontmp} /\ jsondest \in {jsontmp, NULL} /\ NULL \notin DOMAIN heap'
  BY <1>2 DEF SourceInv, TextsInv, Strings, CallersText, Told, CopyLives, Copied, NULL
<1>4. Inputs /\ Inputs'
  BY <1>1, SourceKept DEF SourceInv
<1>5. Cursor'
  BY <1>1, <1>2 DEF SourceInv, Cursor, Updating
<1>6. PICK t : t = heap[jsontmp]
  OBVIOUS
<1>7. PICK u : u = RemoveFlist(t, file_flag)
  OBVIOUS
<1>8. u \in Texts(Whole) /\ u.flist = RemoveAt(t.flist, file_flag + 1) /\ t.flist \in Seq(Whole)
  BY <1>2, <1>6, <1>7, RemovedFrom DEF Texts
<1>9. CASE /\ heap' = Free(Put(heap, RemoveFlist(heap[jsontmp], file_flag)), {jsontmp})
           /\ jsontmp' = Fresh(heap) /\ failed' = failed
  <2>4. heap'[jsontmp'] = u /\ WholeTexts'
    BY <1>1, <1>2, <1>6, <1>7, <1>9, TakenOut DEF SourceInv
  <2>6. Walked'
    <3> SUFFICES ASSUME failed' = "none", AllNamed' PROVE Walked'
      BY DEF Walked
    <3>1. failed = "none" /\ AllNamed /\ Source' = Source
      BY <1>1, <1>9, SourceKept
    <3>2. PICK n \in 0..Len(Source.flist) :
             /\ Around(t.flist, n, file_flag)
             /\ n < Len(Source.flist) => Here(t.flist) = Source.flist[n + 1]
      BY <1>2, <1>6, <3>1 DEF SourceInv, Walked
    <3>3. n < Len(Source.flist) /\ n + 1 \in 1..Len(Source.flist)
      BY <1>2, <1>4, <1>6, <3>2, SourceIs DEF Around
    <3>4. Entry = Source.flist[n + 1] /\ "fp" \in DOMAIN Entry
      BY <1>2, <1>4, <1>6, <3>1, <3>2, <3>3, SourceIs DEF AllNamed
    <3>5. n + 1 \notin Kept
      BY <1>1, <3>4 DEF Kept, GetFileValue
    <3>6. /\ Len(u.flist) = Len(t.flist) - 1 /\ \A i \in 1..file_flag : u.flist[i] = t.flist[i]
          /\ \A i \in (file_flag + 1)..(Len(t.flist) - 1) : u.flist[i] = t.flist[i + 1]
      <4>1. file_flag + 1 \in 1..Len(t.flist) /\ (file_flag + 1) - 1 = file_flag
        BY <1>2, <1>6
      <4> QED
        BY <1>8, <4>1, Removed
    <3>8. PICK L, M, c : L = t.flist /\ M = u.flist /\ c = file_flag
      OBVIOUS
    <3>7. /\ n + 1 \in 0..Len(Source.flist) /\ Around(M, n + 1, c)
          /\ n + 1 < Len(Source.flist) => M[c + 1] = Source.flist[(n + 1) + 1]
      <4>1. Around(L, n, c) /\ c < Len(L)
        BY <1>2, <1>6, <3>2, <3>8
      <4>2. Without(M, L, c)
        BY <3>6, <3>8 DEF Without
      <4> QED
        BY <1>4, <3>5, <4>1, <4>2, AroundDropped
    <3>9. Around(M, n + 1, c)' /\ heap'[jsontmp'].flist = M /\ file_flag' = c
      BY <1>1, <2>4, <3>7, <3>8, AroundStays
    <3>10. n + 1 < Len(Source.flist) => M[c + 1] = Source.flist[(n + 1) + 1]
      BY <3>7, <3>8
    <3>11. 1..Len(sent') = {}
      <4>1. 1..Len(<<>>) = {}
        OBVIOUS
      <4> QED
        BY <1>1, <1>3, <4>1
    <3>12. \E k \in 0..Len(Source.flist) :
              /\ Around(M, k, c)'
              /\ k < Len(Source.flist) => M[c + 1] = Source.flist[k + 1]
      BY <3>7, <3>9, <3>10
    <3> QED
      BY <1>1, <1>2, <3>1, <3>9, <3>11, <3>12 DEF Walked, Updating, Here
  <2> QED
    BY <1>4, <1>5, <2>4, <2>6 DEF SourceInv
<1>10. CASE failed' \in {"malloc", "load"} /\ heap' = Free(heap, {jsontmp}) /\ jsontmp' \in {NULL, jsondest}
  <2>1. jsontmp' \notin DOMAIN heap'
    <3>1. DOMAIN heap' = DOMAIN heap \ {jsontmp}
      BY <1>10, FreeText
    <3> QED
      BY <1>3, <1>10, <3>1
  <2>2. WholeTexts'
    BY <1>1, <1>2, <1>10, <2>1, FreedWhole DEF SourceInv, Updating
  <2>3. failed' # "none"
    BY <1>10
  <2> QED
    BY <1>4, <1>5, <2>2, <2>3, FailedWalks DEF SourceInv
<1> QED
  BY <1>9, <1>10 DEF Drop, Fault, NoFault

\* The path or the list cannot be read: the entry is taken out, or that of another is used.
LEMMA UnreadSource == ASSUME SourceInv, TextsInv', Unread PROVE SourceInv'
<1>1. /\ More /\ failed' = "load" /\ filefull_fname' = filefull_fname
      /\ UNCHANGED <<inputs, return_json, json_src, file_flag, sent, crashed>>
  BY DEF Unread, Fault
<1>2. pc = "walk" /\ jsontmp \in DOMAIN heap /\ file_flag \in Nat
  BY <1>1, MoreIs
<1>3. Inputs /\ Inputs'
  BY <1>1, SourceKept DEF SourceInv
<1>4. Walked'
  BY <1>1, FailedWalks
<1>5. CASE /\ Usable(filefull_fname) /\ tika_message' = Said(filefull_fname) /\ pc' = "au"
           /\ UNCHANGED <<heap, jsontmp>>
  <2>1. filefull_fname \in Files
    BY <1>5 DEF SourceInv, Cursor, Usable
  <2>2. tika_message' \in [au : Values, ft : Values, ep : Values]
    BY <1>3, <1>5, <2>1, SaidIs DEF SourceInv, Cursor
  <2>3. Cursor'
    BY <1>1, <1>2, <1>5, <2>1, <2>2, JsonTextsAssumption DEF Cursor, Updating, NULL
  <2>4. WholeTexts'
    BY <1>1, <1>5, FreedWhole DEF SourceInv, Updating
  <2> QED
    BY <1>3, <1>4, <2>3, <2>4 DEF SourceInv
<1>6. CASE /\ heap' = Free(Put(heap, RemoveFlist(heap[jsontmp], file_flag)), {jsontmp})
           /\ jsontmp' = Fresh(heap) /\ UNCHANGED <<pc, tika_message>>
  <2>1. WholeTexts'
    BY <1>1, <1>2, <1>6, TakenOut
  <2>2. Cursor'
    BY <1>1, <1>2, <1>6 DEF SourceInv, Cursor, Updating
  <2> QED
    BY <1>3, <1>4, <2>1, <2>2 DEF SourceInv
<1> QED
  BY <1>5, <1>6 DEF Unread, Goto

\* The entry at the cursor is the next of the source while nothing fails.
LEMMA NextEntry ==
    ASSUME SourceInv, More, failed = "none", AllNamed
    PROVE  \E n \in 0..Len(Source.flist) :
              /\ Around(heap[jsontmp].flist, n, file_flag) /\ n + 1 \in 1..Len(Source.flist)
              /\ Entry = Source.flist[n + 1] /\ GetFileValue = Source.flist[n + 1].fp
              /\ Keyed \subseteq DOMAIN Source.flist[n + 1]
              /\ n + 1 \in Kept <=> Usable(GetFileValue)
<1>1. /\ pc = "walk" /\ file_flag \in Nat /\ file_flag < Len(heap[jsontmp].flist)
      /\ Entry = Here(heap[jsontmp].flist)
  BY MoreIs
<1>2. PICK n \in 0..Len(Source.flist) :
         /\ Around(heap[jsontmp].flist, n, file_flag)
         /\ n < Len(Source.flist) => Here(heap[jsontmp].flist) = Source.flist[n + 1]
  BY <1>1 DEF SourceInv, Walked
<1>3. Inputs /\ Len(Source.flist) \in Nat /\ DOMAIN Source.flist = 1..Len(Source.flist)
  BY SourceIs DEF SourceInv
<1>4. n < Len(Source.flist) /\ n + 1 \in 1..Len(Source.flist)
  BY <1>1, <1>2, <1>3 DEF Around
<1>5. Entry = Source.flist[n + 1] /\ "fp" \in DOMAIN Source.flist[n + 1]
  BY <1>1, <1>2, <1>3, <1>4 DEF AllNamed
<1>6. GetFileValue = Source.flist[n + 1].fp /\ Keyed \subseteq DOMAIN Source.flist[n + 1]
  BY <1>3, <1>4, <1>5, SourceIs DEF GetFileValue
<1>7. n + 1 \in Kept <=> Usable(GetFileValue)
  BY <1>3, <1>4, <1>5, <1>6 DEF Kept
<1> QED
  BY <1>2, <1>4, <1>5, <1>6, <1>7

\* The parser is asked about the file of the entry at the cursor.
LEMMA TikaFileParserSource == ASSUME SourceInv, TextsInv', TikaFileParser PROVE SourceInv'
<1>1. /\ More /\ Usable(GetFileValue) /\ filefull_fname' = GetFileValue /\ tika_message' = Said(GetFileValue)
      /\ pc' = "au" /\ UNCHANGED <<inputs, heap, pointers, file_flag, sent, lost, failed, crashed>>
      /\ return_json' = return_json /\ jsontmp' = jsontmp /\ json_src' = json_src
  BY DEF TikaFileParser, Goto, pointers
<1>2. pc = "walk" /\ jsontmp \in DOMAIN heap /\ file_flag \in Nat /\ GetFileValue \in Files \cup {NULL}
  BY <1>1, MoreIs
<1>3. Inputs /\ Inputs'
  BY <1>1, SourceKept DEF SourceInv
<1>4. GetFileValue \in Files
  BY <1>1, <1>2 DEF Usable
<1>5. tika_message' \in [au : Values, ft : Values, ep : Values]
  BY <1>1, <1>3, <1>4, SaidIs DEF SourceInv, Cursor
<1>6. Cursor'
  BY <1>1, <1>2, <1>4, <1>5, JsonTextsAssumption DEF Cursor, Updating, NULL
<1>7. WholeTexts'
  BY <1>1, FreedWhole DEF SourceInv, Updating
<1>8. Walked'
  <2> SUFFICES ASSUME failed' = "none", AllNamed' PROVE Walked'
    BY DEF Walked
  <2>1. failed = "none" /\ AllNamed /\ Source' = Source /\ Kept' = Kept
    BY <1>1, SourceKept
  <2>2. PICK n \in 0..Len(Source.flist) :
           /\ Around(heap[jsontmp].flist, n, file_flag) /\ n + 1 \in 1..Len(Source.flist)
           /\ Entry = Source.flist[n + 1] /\ GetFileValue = Source.flist[n + 1].fp
           /\ Keyed \subseteq DOMAIN Source.flist[n + 1]
           /\ n + 1 \in Kept <=> Usable(GetFileValue)
    BY <1>1, <2>1, NextEntry
  <2>3. PICK L, c, s : L = heap[jsontmp].flist /\ c = file_flag /\ s = Source.flist[n + 1]
    OBVIOUS
  <2>4. Around(L, n, c)'
    <3>1. Around(L, n, c)
      BY <2>2, <2>3
    <3> QED
      BY <1>1, <3>1, AroundStays
  <2>5. Says(s)'
    BY <1>1, <2>2, <2>3 DEF Says, Said, inputs
  <2>6. Partly(s, s)'
    BY <1>1, <2>2, <2>3 DEF Partly, Updating
  <2>7. L[c + 1] = s
    BY <2>2, <2>3 DEF Entry
  <2>8. At(L, n)'
    BY <1>1, <2>1, <2>2, <2>3, <2>4, <2>5, <2>6, <2>7 DEF At, Here
  <2>9. heap'[jsontmp'].flist = L
    BY <1>1, <2>3
  <2>10. 1..Len(sent') = {}
    <3>1. 1..Len(<<>>) = {} /\ sent = <<>>
      BY <1>2 DEF SourceInv, TextsInv, Told
    <3> QED
      BY <1>1, <3>1
  <2> QED
    BY <1>1, <2>1, <2>8, <2>9, <2>10 DEF Walked, Updating
<1> QED
  BY <1>3, <1>6, <1>7, <1>8 DEF SourceInv

\* Which key of which text is set at a place, to what, and which place is next.
Turn(p, key, value, next) ==
    \/ pc = "au" /\ p = jsontmp /\ key = "au" /\ value = tika_message.au /\ next = "ft"
    \/ pc = "ft" /\ p = json_src /\ key = "ft" /\ value = tika_message.ft /\ next = "ep"
    \/ pc = "ep" /\ p = json_src /\ key = "ep" /\ value = tika_message.ep /\ next = "ftp"

\* A key is set to what tika said of the file of the entry, and the others stay.
LEMMA PartlySet ==
    ASSUME UNCHANGED inputs, NEW p, NEW key, NEW value, NEW next, Turn(p, key, value, next), pc' = next,
           NEW e, NEW d, NEW s, Says(s), Partly(e, s), KeySet(e, d, key, value)
    PROVE  Partly(d, s)'
<1>1. tika' = tika /\ Keyed \subseteq Keys \ {key} /\ key \in {"au", "ft", "ep"}
  BY DEF Turn, inputs, Keyed, Keys
<1>2. Keyed \subseteq DOMAIN d /\ \A k \in Keyed : d[k] = s[k]
  BY <1>1 DEF Partly, KeySet
<1>3. ASSUME tika[s.fp].au \notin {None, BadUtf8} PROVE "au" \in DOMAIN d /\ d.au = tika[s.fp].au
  <2>1. CASE key = "au"
    BY <1>3, <2>1 DEF Turn, Says, KeySet
  <2>2. CASE key # "au"
    <3>1. pc \in Updating /\ "au" \in Keys \ {key}
      BY <2>2 DEF Turn, Updating, Keys
    <3> QED
      BY <1>3, <3>1 DEF Partly, KeySet
  <2> QED
    BY <2>1, <2>2
<1>4. ASSUME next \in {"ep", "ftp"}, tika[s.fp].ft # BadUtf8 PROVE "ft" \in DOMAIN d /\ d.ft = tika[s.fp].ft
  <2>1. CASE key = "ft"
    BY <1>4, <2>1 DEF Turn, Says, KeySet
  <2>2. CASE key # "ft"
    <3>1. pc \in {"ep", "ftp"} /\ "ft" \in Keys \ {key}
      BY <1>4, <2>2 DEF Turn, Keys
    <3> QED
      BY <1>4, <3>1 DEF Partly, KeySet
  <2> QED
    BY <2>1, <2>2
<1>5. ASSUME next = "ftp", tika[s.fp].ep # None PROVE "ep" \in DOMAIN d /\ d.ep = tika[s.fp].ep
  BY <1>5 DEF Turn, Says, KeySet
<1> QED
  BY <1>1, <1>2, <1>3, <1>4, <1>5 DEF Partly

\* While keys are set, the text that gets the next one is in the heap.
LEMMA TurnIs ==
    ASSUME SourceInv, NEW p, NEW key, NEW value, NEW next, Turn(p, key, value, next)
    PROVE  /\ p \in DOMAIN heap /\ heap[p] \in Texts(Whole) /\ heap[p] \in Texts(Entries)
           /\ key \in FourKeys \ {"ftp"} /\ value \in Values /\ next \in Updating /\ pc \in Updating \cup {"au"}
<1>1. p \in DOMAIN heap
  BY DEF Turn, SourceInv, Cursor, TextsInv, NewestText, Updating
<1>2. heap[p] \in Texts(Whole)
  BY <1>1 DEF Turn, SourceInv, WholeTexts
<1>3. heap[p] \in Texts(Entries)
  <2>1. PICK t : t = heap[p]
    OBVIOUS
  <2>2. t \in Texts(Whole) /\ Whole \subseteq Entries
    BY <1>2, <2>1 DEF Whole
  <2>3. t.flist \in Seq(Entries)
    BY <2>2 DEF Texts
  <2> QED
    BY <2>1, <2>2, <2>3 DEF Texts
<1>4. tika_message \in [au : Values, ft : Values, ep : Values]
  BY DEF SourceInv, Cursor
<1> QED
  BY <1>1, <1>2, <1>3, <1>4 DEF Turn, FourKeys, Updating

\* set_tika_message fails: its strings are gone, no text in use has changed.
LEMMA GaveUpSource ==
    ASSUME SourceInv, TextsInv', UNCHANGED inputs, pc' \in {"walk", "crashed"}, failed' # "none",
           heap' = heap \/ heap' = Free(heap, {json_src}), UNCHANGED <<return_json, jsontmp, sent>>,
           file_flag' \in {file_flag, file_flag + 1}, UNCHANGED <<filefull_fname, tika_message>>
    PROVE  SourceInv'
<1>1. Inputs'
  BY SourceKept DEF SourceInv
<1>2. Cursor'
  BY DEF SourceInv, Cursor, Updating
<1>3. WholeTexts'
  BY FreedWhole DEF SourceInv, Updating
<1> QED
  BY <1>1, <1>2, <1>3, FailedWalks DEF SourceInv

\* A key of the entry at the cursor is set in a new text.
LEMMA SetKeySource ==
    ASSUME SourceInv, TextsInv', NEW p, NEW key, NEW value, NEW next, Turn(p, key, value, next),
           SetKey(p, key, value, next)
    PROVE  SourceInv'
<1>1. /\ p \in DOMAIN heap /\ heap[p] \in Texts(Whole) /\ heap[p] \in Texts(Entries)
      /\ key \in FourKeys \ {"ftp"} /\ value \in Values /\ next \in Updating /\ pc \in Updating \cup {"au"}
  BY TurnIs
<1>2. UNCHANGED <<inputs, return_json, filefull_fname, tika_message, sent, crashed>>
  BY DEF SetKey
<1>3. Inputs /\ Inputs' /\ file_flag \in Nat /\ Source' = Source /\ Texts(Whole)' = Texts(Whole)
      /\ Texts(Entries)' = Texts(Entries)
  BY <1>2, SourceKept DEF SourceInv, Cursor
<1>4. /\ DOMAIN heap \subseteq Nat \ {0} /\ IsFiniteSet(DOMAIN heap) /\ sent = <<>>
      /\ return_json \in DOMAIN heap \ {jsontmp, jsondest, json_src}
  BY <1>1, Sets DEF SourceInv
<1>5. PICK t, u, h : t = heap[p] /\ u = Updated(t, key, value) /\ h = Free(heap, {json_src})
  OBVIOUS
<1>6. \/ /\ heap' = Put(h, u) /\ json_src' = Fresh(h) /\ pc' = next /\ failed' = failed
         /\ UNCHANGED <<jsontmp, file_flag>>
      \/ /\ failed' # "none" /\ heap' = Free(heap, {json_src}) /\ pc' = "walk" /\ jsontmp' = jsontmp
         /\ file_flag' = file_flag + 1
  BY <1>5 DEF SetKey, Fails, Fault, NoFault, Goto
<1>7. CASE /\ failed' # "none" /\ heap' = Free(heap, {json_src}) /\ pc' = "walk" /\ jsontmp' = jsontmp
           /\ file_flag' = file_flag + 1
  BY <1>2, <1>7, GaveUpSource
<1>8. CASE /\ heap' = Put(h, u) /\ json_src' = Fresh(h) /\ pc' = next /\ failed' = failed
           /\ UNCHANGED <<jsontmp, file_flag>>
  <2>1. /\ u \in Texts(Entries) /\ Len(u.flist) = Len(t.flist) /\ Len(t.flist) \in Nat
        /\ \A i \in 1..Len(t.flist) : i # file_flag + 1 => u.flist[i] = t.flist[i]
        /\ file_flag + 1 <= Len(t.flist) => KeySet(t.flist[file_flag + 1], u.flist[file_flag + 1], key, value)
    BY <1>1, <1>3, <1>5, UpdatedIs
  <2>2. /\ \A i \in 1..Len(t.flist) : t.flist[i] \in Whole
        /\ \A i \in 1..Len(u.flist) : u.flist[i] \in Entries
    BY <1>1, <1>5, <2>1 DEF Texts
  <2>3. /\ DOMAIN h = DOMAIN heap \ {json_src} /\ \A a \in DOMAIN h : h[a] = heap[a]
    <3>1. PICK g, as : g = heap /\ as = {json_src}
      OBVIOUS
    <3>2. DOMAIN Free(g, as) = DOMAIN g \ as /\ \A a \in DOMAIN g \ as : Free(g, as)[a] = g[a]
      BY FreeText
    <3> QED
      BY <1>5, <3>1, <3>2
  <2>4. DOMAIN h \subseteq Nat \ {0} /\ IsFiniteSet(DOMAIN h)
    BY <1>4, <1>5, FreeIs
  <2>5. /\ DOMAIN heap' = DOMAIN h \cup {Fresh(h)} /\ heap'[Fresh(h)] = u
        /\ \A a \in DOMAIN h : heap'[a] = h[a]
    <3>1. DOMAIN Put(h, u) = DOMAIN h \cup {Fresh(h)}
      BY <2>4, PutIs
    <3>2. Put(h, u)[Fresh(h)] = u /\ \A a \in DOMAIN h : Put(h, u)[a] = h[a]
      BY <2>4, PutText
    <3> QED
      BY <1>8, <3>1, <3>2
  <2>6. heap'[json_src'] = u /\ return_json \in DOMAIN heap /\ heap'[return_json] = heap[return_json]
    BY <1>4, <1>8, <2>3, <2>5
  <2>7. jsontmp' \in DOMAIN heap' => jsontmp \in DOMAIN heap /\ heap'[jsontmp'] = heap[jsontmp]
    <3>1. json_src' # jsontmp'
      BY <1>1, <1>8 DEF TextsInv, NewestText
    <3> QED
      BY <1>8, <2>3, <2>5, <3>1
  <2>8. Cursor'
    <3>1. pc' \notin {"make", "extract", "au"}
      BY <1>1, <1>8 DEF Updating
    <3> QED
      BY <1>1, <1>2, <1>8, <3>1 DEF SourceInv, Cursor
  <2>9. WholeTexts'
    <3>1. pc' \in {"ft", "ep"} => u \in Texts(Whole)
      <4> SUFFICES ASSUME pc' \in {"ft", "ep"} PROVE u \in Texts(Whole)
        OBVIOUS
      <4>1. key \in {"au", "ft"}
        BY <1>8 DEF Turn
      <4>2. ASSUME NEW i \in 1..Len(u.flist) PROVE u.flist[i] \in Whole
        <5>1. CASE i # file_flag + 1
          BY <2>1, <2>2, <4>2, <5>1
        <5>2. CASE i = file_flag + 1
          <6>1. KeySet(t.flist[i], u.flist[i], key, value) /\ t.flist[i] \in Whole
            BY <1>3, <2>1, <2>2, <4>2, <5>2
          <6> QED
            BY <4>1, <6>1, StaysWhole
        <5> QED
          BY <5>1, <5>2
      <4>3. u.flist \in Seq(Whole)
        <5>1. u.flist \in Seq(Entries)
          BY <2>1 DEF Texts
        <5> QED
          BY <4>2, <5>1, ElementOfSeq, SeqDef
      <4> QED
        BY <2>1, <4>3 DEF Texts
    <3>2. pc' = "ftp" => AllButLast(u)'
      <4> SUFFICES ASSUME pc' = "ftp" PROVE AllButLast(u)'
        OBVIOUS
      <4>1. key = "ep"
        BY <1>8 DEF Turn
      <4>2. ASSUME NEW i \in 1..Len(u.flist)
            PROVE  IF i = file_flag + 1 THEN "ep" \in DOMAIN u.flist[i] ELSE AllOrNone(u.flist[i])
        <5>1. CASE i # file_flag + 1
          BY <2>1, <2>2, <4>2, <5>1 DEF Whole
        <5>2. CASE i = file_flag + 1
          <6>1. KeySet(t.flist[i], u.flist[i], key, value)
            BY <1>3, <2>1, <4>2, <5>2
          <6> QED
            BY <4>1, <5>2, <6>1 DEF KeySet
        <5> QED
          BY <5>1, <5>2
      <4> QED
        BY <1>3, <1>8, <2>1, <4>2 DEF AllButLast
    <3>3. sent' \in Seq(Texts(Whole))
      BY <1>2 DEF SourceInv, WholeTexts
    <3>4. heap'[return_json'] \in Texts(Whole) /\ (jsontmp' \in DOMAIN heap' => heap'[jsontmp'] \in Texts(Whole))
      BY <1>2, <1>8, <2>6, <2>7 DEF SourceInv, WholeTexts
    <3>5. pc' = "ftp" => AllButLast(heap[json_src])'
      BY <2>6, <3>2
    <3> QED
      BY <1>3, <2>6, <3>1, <3>3, <3>4, <3>5 DEF WholeTexts
  <2>10. Walked'
    <3> SUFFICES ASSUME failed' = "none", AllNamed' PROVE Walked'
      BY DEF Walked
    <3>1. failed = "none" /\ AllNamed /\ Kept' = Kept
      BY <1>2, <1>8, SourceKept
    <3>2. PICK n \in 0..Len(Source.flist) : At(t.flist, n)
      BY <1>5, <3>1 DEF Turn, SourceInv, Walked, Updating
    <3>3. PICK L, M, c, s : L = t.flist /\ M = u.flist /\ c = file_flag /\ s = Source.flist[n + 1]
      OBVIOUS
    <3>4. Around(L, n, c) /\ n + 1 \in Kept /\ filefull_fname = s.fp /\ Says(s) /\ Partly(L[c + 1], s)
      BY <3>2, <3>3 DEF At, Here
    <3>5. c + 1 <= Len(L)
      <4>1. n + 1 <= Len(Source.flist) /\ Len(Source.flist) \in Nat
        BY <1>3, <3>4, RankIs, SourceIs
      <4> QED
        BY <1>3, <3>3, <3>4, <4>1 DEF Around
    <3>6. KeySet(L[c + 1], M[c + 1], key, value)
      BY <2>1, <3>3, <3>5
    <3>7. Around(M, n, c)'
      <4>1. Len(M) = Len(L) /\ \A i \in 1..Len(L) : i # c + 1 => M[i] = L[i]
        BY <2>1, <3>3
      <4>2. Around(M, n, c)
        BY <1>3, <3>4, <4>1, AroundSame
      <4> QED
        BY <1>2, <4>2, AroundStays
    <3>8. Partly(M[c + 1], s)'
      BY <1>2, <1>8, <3>4, <3>6, PartlySet
    <3>9. Says(s)'
      BY <1>2, <3>4 DEF Says, inputs
    <3>10. At(M, n)'
      BY <1>2, <1>3, <1>8, <3>1, <3>3, <3>4, <3>7, <3>8, <3>9 DEF At, Here
    <3>11. heap'[json_src'].flist = M
      BY <2>6, <3>3
    <3>12. 1..Len(sent') = {}
      <4>1. 1..Len(<<>>) = {}
        OBVIOUS
      <4> QED
        BY <1>2, <1>4, <4>1
    <3>13. pc' \in Updating /\ pc' \notin {"extract", "walk", "au", "ready", "return", "done"}
      BY <1>1, <1>8 DEF Updating
    <3> QED
      BY <1>3, <3>10, <3>11, <3>12, <3>13 DEF Walked
  <2> QED
    BY <1>3, <2>8, <2>9, <2>10 DEF SourceInv
<1> QED
  BY <1>6, <1>7, <1>8

\* The last key is set: the entry belongs to its file, and the cursor moves on.
LEMMA SetContentSource == ASSUME SourceInv, TextsInv', SetContent PROVE SourceInv'
<1>1. pc = "ftp" /\ UNCHANGED <<inputs, return_json, filefull_fname, tika_message, sent>>
  BY DEF SetContent
<1>2. /\ Inputs /\ Inputs' /\ Source' = Source /\ Texts(Whole)' = Texts(Whole)
      /\ file_flag \in Nat /\ filefull_fname \in Files /\ AllButLast(heap[json_src])
  BY <1>1, SourceKept DEF SourceInv, Cursor, Updating, WholeTexts
<1>3. /\ DOMAIN heap \subseteq Nat \ {0} /\ IsFiniteSet(DOMAIN heap) /\ sent = <<>>
      /\ return_json \in DOMAIN heap \ {jsontmp, jsondest, json_src}
  BY <1>1, Sets DEF SourceInv, Updating
<1>4. PICK t, u, h, v, as : /\ t = heap[json_src] /\ v = filefull_fname /\ u = Updated(t, "ftp", v)
                            /\ as = {json_src, jsontmp} /\ h = Free(heap, as)
  OBVIOUS
<1>5. \/ /\ heap' = Put(h, u) /\ jsontmp' = Fresh(h) /\ pc' = "walk" /\ file_flag' = file_flag + 1
         /\ failed' = failed
      \/ /\ failed' # "none" /\ (heap' = heap \/ heap' = Free(heap, {json_src}))
         /\ pc' \in {"walk", "crashed"} /\ jsontmp' = jsontmp /\ file_flag' \in {file_flag, file_flag + 1}
  BY <1>4 DEF SetContent, Fails, Fault, NoFault, Goto
<1>6. CASE /\ failed' # "none" /\ (heap' = heap \/ heap' = Free(heap, {json_src}))
           /\ pc' \in {"walk", "crashed"} /\ jsontmp' = jsontmp /\ file_flag' \in {file_flag, file_flag + 1}
  BY <1>1, <1>6, GaveUpSource
<1>7. CASE /\ heap' = Put(h, u) /\ jsontmp' = Fresh(h) /\ pc' = "walk" /\ file_flag' = file_flag + 1
           /\ failed' = failed
  <2>1. /\ v \in Files /\ v \in Values /\ v # BadUtf8 /\ v # NULL /\ "ftp" \in FourKeys
    BY <1>2, <1>4, JsonTextsAssumption DEF Values, BadUtf8, NULL, FourKeys
  <2>2. /\ t \in Texts(Entries)
        /\ \A i \in 1..Len(t.flist) :
              IF i = file_flag + 1 THEN "ep" \in DOMAIN t.flist[i] ELSE AllOrNone(t.flist[i])
    BY <1>2, <1>4 DEF AllButLast
  <2>3. /\ u \in Texts(Entries) /\ Len(u.flist) = Len(t.flist) /\ Len(t.flist) \in Nat
        /\ \A i \in 1..Len(t.flist) : i # file_flag + 1 => u.flist[i] = t.flist[i]
        /\ file_flag + 1 <= Len(t.flist) => KeySet(t.flist[file_flag + 1], u.flist[file_flag + 1], "ftp", v)
    BY <1>2, <1>4, <2>1, <2>2, UpdatedIs
  <2>4. u \in Texts(Whole)
    <3>1. u.flist \in Seq(Entries) /\ \A i \in 1..Len(u.flist) : u.flist[i] \in Entries
      BY <2>3 DEF Texts
    <3>2. ASSUME NEW i \in 1..Len(u.flist) PROVE u.flist[i] \in Whole
      <4>1. CASE i # file_flag + 1
        BY <2>2, <2>3, <3>1, <3>2, <4>1 DEF Whole
      <4>2. CASE i = file_flag + 1
        <5>1. KeySet(t.flist[i], u.flist[i], "ftp", v) /\ "ep" \in DOMAIN t.flist[i]
          BY <1>2, <2>2, <2>3, <3>2, <4>2
        <5> QED
          BY <2>1, <5>1, BecomesWhole
      <4> QED
        BY <4>1, <4>2
    <3>3. u.flist \in Seq(Whole)
      BY <3>1, <3>2, ElementOfSeq, SeqDef
    <3> QED
      BY <2>3, <3>3 DEF Texts
  <2>5. /\ DOMAIN h = DOMAIN heap \ {json_src, jsontmp} /\ \A a \in DOMAIN h : h[a] = heap[a]
    <3>1. DOMAIN Free(heap, as) = DOMAIN heap \ as /\ \A a \in DOMAIN heap \ as : Free(heap, as)[a] = heap[a]
      BY FreeText
    <3> QED
      BY <1>4, <3>1
  <2>6. DOMAIN h \subseteq Nat \ {0} /\ IsFiniteSet(DOMAIN h)
    BY <1>3, <1>4, FreeIs
  <2>7. /\ DOMAIN heap' = DOMAIN h \cup {Fresh(h)} /\ heap'[Fresh(h)] = u
        /\ \A a \in DOMAIN h : heap'[a] = h[a]
    <3>1. DOMAIN Put(h, u) = DOMAIN h \cup {Fresh(h)}
      BY <2>6, PutIs
    <3>2. Put(h, u)[Fresh(h)] = u /\ \A a \in DOMAIN h : Put(h, u)[a] = h[a]
      BY <2>6, PutText
    <3> QED
      BY <1>7, <3>1, <3>2
  <2>8. /\ heap'[jsontmp'] = u /\ jsontmp' \in DOMAIN heap'
        /\ return_json \in DOMAIN heap /\ heap'[return_json] = heap[return_json]
    BY <1>3, <1>7, <2>5, <2>7
  <2>9. WholeTexts'
    BY <1>1, <1>7, <2>4, <2>8, CopyWhole DEF SourceInv, Updating
  <2>10. Cursor'
    BY <1>1, <1>2, <1>7 DEF SourceInv, Cursor, Updating
  <2>11. Walked'
    <3> SUFFICES ASSUME failed' = "none", AllNamed' PROVE Walked'
      BY DEF Walked
    <3>1. failed = "none" /\ AllNamed /\ Kept' = Kept
      BY <1>1, <1>7, SourceKept
    <3>2. PICK n \in 0..Len(Source.flist) : At(t.flist, n)
      BY <1>1, <1>4, <3>1 DEF SourceInv, Walked, Updating
    <3>3. PICK L, M, c, s : L = t.flist /\ M = u.flist /\ c = file_flag /\ s = Source.flist[n + 1]
      OBVIOUS
    <3>4. Around(L, n, c) /\ n + 1 \in Kept /\ v = s.fp /\ Partly(L[c + 1], s)
      BY <1>4, <3>2, <3>3 DEF At, Here
    <3>5. c + 1 <= Len(L)
      <4>1. n + 1 <= Len(Source.flist) /\ Len(Source.flist) \in Nat
        BY <1>2, <3>4, RankIs, SourceIs
      <4> QED
        BY <1>2, <3>3, <3>4, <4>1 DEF Around
    <3>6. KeySet(L[c + 1], M[c + 1], "ftp", v)
      BY <2>3, <3>3, <3>5
    <3>7. Around(M, n, c)
      <4>1. Len(M) = Len(L) /\ \A i \in 1..Len(L) : i # c + 1 => M[i] = L[i]
        BY <2>3, <3>3
      <4> QED
        BY <1>2, <3>4, <4>1, AroundSame
    <3>8. Changed(M[c + 1], s)
      <4>1. PICK e, d : e = L[c + 1] /\ d = M[c + 1]
        OBVIOUS
      <4>2. \A k \in Keys \ {"ftp"} : k \in DOMAIN e => d[k] = e[k]
        BY <3>6, <4>1 DEF KeySet
      <4>3. /\ Keyed \subseteq DOMAIN e /\ \A k \in Keyed : e[k] = s[k]
            /\ tika[s.fp].au \notin {None, BadUtf8} => "au" \in DOMAIN e /\ e.au = tika[s.fp].au
            /\ tika[s.fp].ft # BadUtf8 => "ft" \in DOMAIN e /\ e.ft = tika[s.fp].ft
            /\ tika[s.fp].ep # None => "ep" \in DOMAIN e /\ e.ep = tika[s.fp].ep
        BY <1>1, <3>4, <4>1 DEF Partly, Updating
      <4>4. \A k \in {"fn", "fp", "fs"} : d[k] = s[k]
        BY <4>2, <4>3 DEF Keyed, Keys
      <4>5. d.fp = s.fp /\ d.ftp = d.fp
        <5>1. d.ftp = v
          BY <2>1, <3>6, <4>1 DEF KeySet
        <5> QED
          BY <3>4, <4>4, <5>1
      <4>6. /\ tika[s.fp].au \notin {None, BadUtf8} => d.au = tika[s.fp].au
            /\ tika[s.fp].ft # BadUtf8 => d.ft = tika[s.fp].ft
            /\ tika[s.fp].ep # None => d.ep = tika[s.fp].ep
        BY <4>2, <4>3 DEF Keys
      <4> QED
        BY <4>1, <4>4, <4>5, <4>6 DEF Changed
    <3>9. /\ n + 1 \in 0..Len(Source.flist) /\ Around(M, n + 1, c + 1)
          /\ n + 1 < Len(Source.flist) => M[(c + 1) + 1] = Source.flist[(n + 1) + 1]
      BY <1>2, <3>3, <3>4, <3>7, <3>8, AroundAdvanced
    <3>10. Around(M, n + 1, c + 1)' /\ heap'[jsontmp'].flist = M /\ file_flag' = c + 1
      BY <1>1, <1>7, <2>8, <3>3, <3>9, AroundStays
    <3>11. 1..Len(sent') = {}
      <4>1. 1..Len(<<>>) = {}
        OBVIOUS
      <4> QED
        BY <1>1, <1>3, <4>1
    <3>12. \E k \in 0..Len(Source.flist) :
              /\ Around(M, k, c + 1)'
              /\ k < Len(Source.flist) => M[(c + 1) + 1] = Source.flist[k + 1]
      BY <3>9, <3>10
    <3> QED
      BY <1>2, <1>7, <3>10, <3>11, <3>12 DEF Walked, Updating, Here
  <2> QED
    BY <1>2, <2>9, <2>10, <2>11 DEF SourceInv
<1> QED
  BY <1>5, <1>6, <1>7

\* The text is sent, unless it is an upload by ftp whose file cannot be used.
LEMMA SendSource == ASSUME SourceInv, TextsInv', Send PROVE SourceInv'
<1> DEFINE quiet == jsondest = NULL \/ (GetFileNum(jsondest) = 0 /\ heap[jsondest].prt = "ftp")
<1>1. /\ pc = "ready" /\ pc' = "return" /\ ~Bad(jsondest)
      /\ sent' = IF quiet THEN sent ELSE Append(sent, heap[jsondest])
      /\ UNCHANGED <<inputs, heap, pointers, walkVars, lost, failed, crashed>>
      /\ return_json' = return_json /\ jsontmp' = jsontmp
  BY DEF Send, Goto, pointers
<1>2. sent = <<>> /\ jsondest \in {jsontmp, NULL}
  BY <1>1 DEF SourceInv, TextsInv, Told, CopyLives, Copied
<1>3. Inputs /\ Inputs' /\ Texts(Whole)' = Texts(Whole)
  BY <1>1, SourceKept DEF SourceInv
<1>4. Cursor'
  BY <1>1 DEF SourceInv, Cursor, walkVars, Updating
<1>5. PICK t : t = heap[jsondest]
  OBVIOUS
<1>6. ~quiet => jsondest = jsontmp /\ jsontmp \in DOMAIN heap /\ t \in Texts(Whole)
  BY <1>1, <1>2, <1>5 DEF Bad, SourceInv, WholeTexts
<1>7. sent' = IF quiet THEN <<>> ELSE <<t>>
  <2>1. Append(<<>>, t) = <<t>>
    OBVIOUS
  <2> QED
    BY <1>1, <1>2, <1>5, <2>1
<1> HIDE DEF quiet
<1>8. sent' \in Seq(Texts(Whole))
  <2>1. PICK S : S = Texts(Whole)
    OBVIOUS
  <2>2. ~quiet => t \in S
    BY <1>6, <2>1
  <2>3. <<>> \in Seq(S) /\ (t \in S => <<t>> \in Seq(S))
    OBVIOUS
  <2> QED
    BY <1>7, <2>1, <2>2, <2>3
<1>9. WholeTexts'
  BY <1>1, <1>3, <1>8 DEF SourceInv, WholeTexts, Updating
<1>10. Walked'
  <2> SUFFICES ASSUME failed' = "none", AllNamed'
               PROVE  (sent' # <<>> <=> Sends') /\ (\A i \in 1..Len(sent) : Finished(sent[i].flist))'
    BY <1>1 DEF Walked, Updating
  <2>1. failed = "none" /\ AllNamed /\ (Sends <=> Sends')
    BY <1>1, SourceKept
  <2>2. jsondest = jsontmp /\ jsondest \in DOMAIN heap /\ jsondest # NULL
    BY <1>1, <2>1 DEF SourceInv, TextsInv, Strings, Exact, Copied, NULL
  <2>3. Finished(t.flist) /\ t \in Texts(Whole)
    BY <1>1, <1>5, <2>1, <2>2 DEF SourceInv, Walked, WholeTexts
  <2>4. quiet <=> ~Sends
    <3>1. t.prt = Source.prt /\ (t.prt = "ftp" <=> node.kind = "ftp")
      BY <1>3, <2>3, ProtocolIs DEF Texts
    <3>2. GetFileNum(jsondest) = Cardinality(Kept)
      BY <1>5, <2>2, <2>3 DEF GetFileNum, Finished
    <3> QED
      BY <1>3, <1>5, <2>2, <3>1, <3>2, KeptIs DEF quiet, Sends
  <2>5. PICK s : s = sent'
    OBVIOUS
  <2>6. s = (IF quiet THEN <<>> ELSE <<t>>)
    BY <1>7, <2>5
  <2>7. Finished(t.flist)'
    BY <1>1, <2>3, AroundStays
  <2>8. <<t>> # <<>> /\ 1..Len(<<>>) = {} /\ 1..Len(<<t>>) = {1} /\ <<t>>[1] = t
    OBVIOUS
  <2>9. \A i \in 1..Len(s) : Finished(s[i].flist)'
    <3>1. CASE quiet
      BY <2>6, <2>8, <3>1
    <3>2. CASE ~quiet
      <4>1. TAKE i \in 1..Len(s)
      <4>2. s[i] = t
        BY <2>6, <2>8, <3>2, <4>1
      <4> QED
        BY <2>7, <4>2
    <3> QED
      BY <3>1, <3>2
  <2>10. s # <<>> <=> Sends'
    BY <2>1, <2>4, <2>6, <2>8
  <2> QED
    BY <2>5, <2>9, <2>10
<1> QED
  BY <1>3, <1>4, <1>9, <1>10 DEF SourceInv

-----------------------------------------------------------------------------
(* Theorems: what is sent *)

\* At first there is no text.
LEMMA SourceInit == Init => SourceInv
<1> SUFFICES ASSUME Init PROVE SourceInv
  OBVIOUS
<1>1. /\ pc = "make" /\ heap = <<>> /\ return_json = NULL /\ jsontmp = NULL /\ sent = <<>>
      /\ file_flag = 0 /\ filefull_fname = NULL /\ tika_message = [au |-> NULL, ft |-> NULL, ep |-> NULL]
  BY DEF Init
<1>2. Inputs
  <2>1. <<>> \in Seq(Files \cup {NULL}) /\ MailLists \subseteq Seq(Files \cup {NULL})
    BY JsonTextsAssumption
  <2>2. node \in [kind : {"ftp", "http", "mail"}, named : BOOLEAN, attr : BOOLEAN, list : Seq(Files \cup {NULL})]
    BY <2>1 DEF Init
  <2>3. disk \in [Files -> Sizes] /\ tika \in [Files -> TikaOutputs]
    BY DEF Init
  <2> QED
    BY <2>2, <2>3 DEF Inputs
<1>3. Cursor
  BY <1>1 DEF Cursor, Updating, Values, NULL
<1>4. DOMAIN heap = {} /\ 1..Len(sent) = {} /\ \A S : sent \in Seq(S)
  <2>1. 1..Len(<<>>) = {} /\ \A S : <<>> \in Seq(S)
    OBVIOUS
  <2> QED
    BY <1>1, <2>1
<1>5. WholeTexts
  BY <1>1, <1>4 DEF WholeTexts
<1>6. Walked
  BY <1>1, <1>4 DEF Walked, Updating
<1> QED
  BY <1>2, <1>3, <1>5, <1>6, TextsInit DEF SourceInv

\* Every step keeps the texts those of the source.
LEMMA SourceNext == SourceInv /\ [Next]_vars => SourceInv'
<1> SUFFICES ASSUME SourceInv, [Next]_vars PROVE SourceInv'
  OBVIOUS
<1>1. TextsInv'
  BY TextsNext DEF SourceInv
<1>2. CASE UNCHANGED vars
  <2>1. UNCHANGED <<inputs, pc, heap, return_json, jsontmp, json_src, file_flag, filefull_fname, tika_message,
                    sent, failed>>
    BY <1>2 DEF vars, pointers, walkVars
  <2>2. /\ Source' = Source /\ Texts(Whole)' = Texts(Whole) /\ Texts(Entries)' = Texts(Entries)
        /\ Inputs' /\ (AllNamed <=> AllNamed') /\ (Sends <=> Sends') /\ Kept' = Kept
    BY <2>1, SourceKept DEF SourceInv
  <2>3. Cursor' /\ WholeTexts'
    BY <2>1, <2>2 DEF SourceInv, Cursor, WholeTexts, AllButLast
  <2>4. Walked'
    <3>1. \A L, n, flag : Around(L, n, flag) <=> Around(L, n, flag)'
      BY <2>1, AroundStays
    <3>2. \A L : Finished(L) <=> Finished(L)'
      BY <2>1, AroundStays
    <3>3. \A s : Says(s) <=> Says(s)'
      BY <2>1 DEF Says, inputs
    <3>4. \A e, s : Partly(e, s) <=> Partly(e, s)'
      BY <2>1 DEF Partly, inputs
    <3>5. \A L, n : At(L, n) <=> At(L, n)'
      BY <2>1, <2>2, <3>1, <3>3, <3>4 DEF At, Here
    <3>6. Walked
      BY DEF SourceInv
    <3>7. node' = node /\ disk' = disk
      BY <2>1 DEF inputs
    <3> QED
      BY <2>1, <2>2, <3>1, <3>2, <3>5, <3>6, <3>7 DEF Walked, Here
  <2> QED
    BY <1>1, <2>2, <2>3, <2>4 DEF SourceInv
<1>3. CASE SendJson \/ HttpUploadJson \/ MailText
  BY <1>1, <1>3, MakeSource
<1>4. CASE Return \/ Copy \/ WalkDone \/ Dangling
  BY <1>1, <1>4, ReturnSource, CopySource, WalkDoneSource, DanglingSource
<1>5. CASE Drop \/ Unread \/ TikaFileParser
  BY <1>1, <1>5, DropSource, UnreadSource, TikaFileParserSource
<1>6. CASE SetAuthor
  BY <1>1, <1>6, SetKeySource DEF SetAuthor, Turn
<1>7. CASE SetType
  BY <1>1, <1>7, SetKeySource DEF SetType, Turn
<1>8. CASE SetEncrypted
  BY <1>1, <1>8, SetKeySource DEF SetEncrypted, Turn
<1>9. CASE SetContent \/ Send
  BY <1>1, <1>9, SetContentSource, SendSource
<1> QED
  BY <1>2, <1>3, <1>4, <1>5, <1>6, <1>7, <1>8, <1>9 DEF Next

\* Around the cursor of a walk are the entries of the source: before it those that are kept, each
\* with the keys of its own file, behind it those not seen yet; and whatever fails, no text in use
\* but the newest has an entry changed in part.
THEOREM SourceCorrect == Spec => []SourceInv
BY SourceInit, SourceNext, PTL DEF Spec

\* A text that was sent is the source as the walk leaves it.
LEMMA SourceSent == SourceInv => SentIsSource
<1> SUFFICES ASSUME SourceInv PROVE SentIsSource
  OBVIOUS
<1>1. sent \in Seq(Texts(Whole)) /\ DOMAIN sent = 1..Len(sent) /\ \A i \in DOMAIN sent : sent[i] \in Texts(Whole)
  <2>1. PICK S : S = Texts(Whole)
    OBVIOUS
  <2>2. sent \in Seq(S)
    BY <2>1 DEF SourceInv, WholeTexts
  <2>3. DOMAIN sent = 1..Len(sent) /\ \A i \in DOMAIN sent : sent[i] \in S
    BY <2>2
  <2> QED
    BY <2>1, <2>2, <2>3
<1>2. Answered
  BY DEF Answered, SourceInv, Walked, Ended, Sends
<1>3. AllKeysOrNone
  <2> SUFFICES ASSUME NEW i \in DOMAIN sent, NEW j \in DOMAIN sent[i].flist
               PROVE  AllOrNone(sent[i].flist[j])
    BY DEF AllKeysOrNone, AllOrNone
  <2>1. sent[i].flist \in Seq(Whole)
    BY <1>1 DEF Texts
  <2>2. sent[i].flist[j] \in Whole
    BY <2>1
  <2> QED
    BY <2>2 DEF Whole
<1>4. \A i \in DOMAIN sent : sent[i].prt = Source.prt /\ sent[i].rest = Source.rest
  BY <1>1 DEF Texts
<1>5. ASSUME AllNamed, failed = "none"
      PROVE  \A i \in DOMAIN sent :
                /\ Len(sent[i].flist) = Cardinality(Kept)
                /\ \A k \in Kept : Changed(sent[i].flist[Rank(k)], Source.flist[k])
  BY <1>1, <1>5 DEF SourceInv, Walked, Finished
<1> QED
  BY <1>2, <1>3, <1>4, <1>5 DEF SentIsSource

\* What is sent is the source but for the entries whose files cannot be used, in the same order,
\* and each entry kept has the keys of its own file, for every list, whatever tika says.
THEOREM SentIsTheSource == Spec => []SentIsSource
BY SourceCorrect, SourceSent, PTL

=============================================================================
