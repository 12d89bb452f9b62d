------------------------- MODULE ChatUpload_proofs -------------------------
(***************************************************************************)
(* Proofs about ChatUpload.  The first part is about the operators: sums,  *)
(* offsets, sessions and notes.  Then ChatTypes, a stronger TypeOK, is     *)
(* shown to be inductive, one lemma for every step.  On it rest            *)
(*   OrderOK     an upload that nobody disturbed has had its POSTs one by  *)
(*               one, and is alone with its note and its session           *)
(*   SessionsOK  whose sessions there are, and which are in the table      *)
(*   CountOK     a note of http_feition has a "1" for marked parts that    *)
(*               were taken, for each of them once at most                 *)
(*   WholeOK     where an upload that nobody disturbed stands, between two *)
(*               POSTs and at every place of a worker: what its note, its  *)
(*               session and its file of data hold, and that its uuid is   *)
(*               known to nobody else                                      *)
(* and the theorems follow from them.                                      *)
(***************************************************************************)
EXTENDS ChatUpload, SessionTable_proofs

-----------------------------------------------------------------------------
(* Sums *)

\* f adds up the numbers of s, one by one.
Adds(s, f) ==
    /\ f \in [0..Len(s) -> Nat] /\ f[0] = 0
    /\ \A n \in 1..Len(s) : f[n] = f[n - 1] + s[n]

\* Such a function exists.
LEMMA AddsExists ==
    ASSUME NEW s \in Seq(Nat) PROVE \E f : Adds(s, f)
<1>1. Len(s) \in Nat /\ \A n \in 1..Len(s) : s[n] \in Nat
  OBVIOUS
<1>2. PICK S : S = {n \in 0..Len(s) : \E f \in [0..n -> Nat] :
                       f[0] = 0 /\ \A m \in 1..n : f[m] = f[m - 1] + s[m]}
  OBVIOUS
<1>3. 0 \in S
  <2>1. PICK f : f = [n \in 0..0 |-> 0]
    OBVIOUS
  <2>2. f \in [0..0 -> Nat] /\ f[0] = 0 /\ \A m \in 1..0 : f[m] = f[m - 1] + s[m]
    BY <2>1
  <2> QED
    BY <1>1, <1>2, <2>2
<1>4. ASSUME NEW n \in 1..Len(s), n - 1 \in S PROVE n \in S
  <2>1. PICK f \in [0..(n - 1) -> Nat] : f[0] = 0 /\ \A m \in 1..(n - 1) : f[m] = f[m - 1] + s[m]
    BY <1>2, <1>4
  <2>2. PICK g : g = [m \in 0..n |-> IF m = n THEN f[n - 1] + s[n] ELSE f[m]]
    OBVIOUS
  <2>3. f[n - 1] \in Nat /\ s[n] \in Nat /\ n \in Nat /\ n >= 1
    BY <1>1, <1>4
  <2>4. g \in [0..n -> Nat]
    <3>1. \A m \in 0..n : m # n => m \in 0..(n - 1)
      BY <2>3
    <3> QED
      BY <2>1, <2>2, <2>3, <3>1
  <2>5. g[0] = 0 /\ g[n] = f[n - 1] + s[n] /\ \A m \in 0..(n - 1) : g[m] = f[m]
    BY <2>1, <2>2, <2>3
  <2>6. ASSUME NEW m \in 1..n PROVE g[m] = g[m - 1] + s[m]
    <3>1. CASE m = n
      BY <2>3, <2>5, <3>1
    <3>2. CASE m # n
      <4>1. m \in 1..(n - 1) /\ m - 1 \in 0..(n - 1) /\ m \in 0..(n - 1)
        BY <2>3, <3>2
      <4> QED
        BY <2>1, <2>5, <4>1
    <3> QED
      BY <3>1, <3>2
  <2>7. n \in 0..Len(s)
    BY <1>1
  <2> QED
    BY <1>2, <2>4, <2>5, <2>6, <2>7
<1>5. \A n \in 0..Len(s) : n \in S
  BY <1>1, <1>3, <1>4, UpTo
<1>6. Len(s) \in S
  BY <1>1, <1>5
<1> QED
  BY <1>2, <1>6 DEF Adds

\* Sum is the last value of a function that adds up.
LEMMA SumIs ==
    ASSUME NEW s \in Seq(Nat), NEW f, Adds(s, f)
    PROVE  Sum(s) = f[Len(s)] /\ Sum(s) \in Nat
<1>1. Len(s) \in Nat /\ f \in [0..Len(s) -> Nat] /\ f[0] = 0 /\ \A n \in 1..Len(s) : f[n] = f[n - 1] + s[n]
  BY DEF Adds
<1>2. PICK g : g = CHOOSE x : x = [n \in 0..Len(s) |-> IF n = 0 THEN 0 ELSE x[n - 1] + s[n]]
  OBVIOUS
<1>3. Sum(s) = g[Len(s)]
  BY <1>2 DEF Sum
<1>4. f = [n \in 0..Len(s) |-> IF n = 0 THEN 0 ELSE f[n - 1] + s[n]]
  <2>1. \A n \in 0..Len(s) : f[n] = IF n = 0 THEN 0 ELSE f[n - 1] + s[n]
    BY <1>1
  <2> QED
    BY <1>1, <2>1
<1>5. g = [n \in 0..Len(s) |-> IF n = 0 THEN 0 ELSE g[n - 1] + s[n]]
  BY <1>2, <1>4
<1>6. PICK S : S = {n \in 0..Len(s) : g[n] = f[n]}
  OBVIOUS
<1>7. 0 \in S
  BY <1>1, <1>5, <1>6
<1>8. ASSUME NEW n \in 1..Len(s), n - 1 \in S PROVE n \in S
  <2>1. g[n] = g[n - 1] + s[n]
    BY <1>1, <1>5
  <2>2. g[n - 1] = f[n - 1] /\ n \in 0..Len(s)
    BY <1>1, <1>6, <1>8
  <2> QED
    BY <1>1, <1>6, <2>1, <2>2
<1>9. \A n \in 0..Len(s) : n \in S
  BY <1>1, <1>7, <1>8, UpTo
<1> QED
  BY <1>1, <1>3, <1>6, <1>9

\* A sum is a number.
LEMMA SumNat ==
    ASSUME NEW s \in Seq(Nat) PROVE Sum(s) \in Nat
  BY AddsExists, SumIs

\* Nothing adds up to nothing.
LEMMA SumEmpty == Sum(<<>>) = 0
<1>1. <<>> \in Seq(Nat) /\ Len(<<>>) = 0
  OBVIOUS
<1>2. PICK f : Adds(<<>>, f)
  BY <1>1, AddsExists
<1> QED
  BY <1>1, <1>2, SumIs DEF Adds

\* One more number.
LEMMA SumAppend ==
    ASSUME NEW s \in Seq(Nat), NEW x \in Nat PROVE Sum(Append(s, x)) = Sum(s) + x
<1>1. PICK r : r = Append(s, x)
  OBVIOUS
<1>2. /\ r \in Seq(Nat) /\ Len(r) = Len(s) + 1 /\ Len(s) \in Nat /\ r[Len(s) + 1] = x
      /\ \A n \in 1..Len(s) : r[n] = s[n]
  BY <1>1
<1>3. PICK f : Adds(r, f)
  BY <1>2, AddsExists
<1>4. PICK g : g = [n \in 0..Len(s) |-> f[n]]
  OBVIOUS
<1>5. Adds(s, g)
  <2>1. /\ f \in [0..(Len(s) + 1) -> Nat] /\ f[0] = 0
        /\ \A n \in 1..(Len(s) + 1) : f[n] = f[n - 1] + r[n]
    BY <1>2, <1>3 DEF Adds
  <2>2. g \in [0..Len(s) -> Nat] /\ g[0] = 0
    BY <1>2, <1>4, <2>1
  <2>3. ASSUME NEW n \in 1..Len(s) PROVE g[n] = g[n - 1] + s[n]
    <3>1. n \in 0..Len(s) /\ n - 1 \in 0..Len(s) /\ n \in 1..(Len(s) + 1)
      BY <1>2
    <3> QED
      BY <1>2, <1>4, <2>1, <3>1
  <2> QED
    BY <2>2, <2>3 DEF Adds
<1>6. Sum(r) = f[Len(s) + 1] /\ Sum(s) = g[Len(s)]
  BY <1>2, <1>3, <1>5, SumIs
<1>7. f[Len(s) + 1] = f[(Len(s) + 1) - 1] + r[Len(s) + 1]
  BY <1>2, <1>3, SMTT(60) DEF Adds
<1>8. g[Len(s)] = f[Len(s)] /\ (Len(s) + 1) - 1 = Len(s)
  BY <1>2, <1>4
<1> QED
  BY <1>1, <1>2, <1>6, <1>7, <1>8

-----------------------------------------------------------------------------
(* Uploads *)

Kinds == Single \cup Noted

\* What a plan says of an upload.
LEMMA UploadIs ==
    ASSUME uploads \in Plans, NEW u \in Ids
    PROVE  /\ uploads[u].kind \in Kinds /\ uploads[u].conn \in Keys
           /\ uploads[u].parts \in Seq(Nat \ {0}) /\ uploads[u].parts \in Seq(Nat)
           /\ Count(u) \in Nat \ {0} /\ Count(u) = Len(uploads[u].parts)
           /\ \A i \in 1..Count(u) : uploads[u].parts[i] \in Nat \ {0}
           /\ uploads[u].marked \subseteq 1..Count(u)
           /\ uploads[u].kind \in Single => Count(u) = 1
           /\ uploads[u].kind = "Fei" => Count(u) \in uploads[u].marked
           /\ uploads[u].kind = "Q14" => uploads[u].block = 2 /\ uploads[u].parts[1] = 1
           /\ uploads[u].kind = "GOS" =>
                 uploads[u].block \in {2, 4} /\ uploads[u].parts[1] <= uploads[u].block
           /\ uploads[u].kind \in {"Q14", "GOS"} =>
                 \A i \in 1..(Count(u) - 1) :
                     uploads[u].parts[i] = uploads[u].block \/ (i = 1 /\ uploads[u].kind = "Q14")
<1>1. PICK plan \in Plans : plan = uploads
  OBVIOUS
<1>2. u \in DOMAIN plan
  BY <1>1 DEF Ids
<1>3. /\ plan[u].kind \in Single \cup Noted
      /\ plan[u].conn \in Keys
      /\ plan[u].parts \in Seq(Nat \ {0}) /\ plan[u].parts # <<>>
      /\ plan[u].marked \subseteq 1..Len(plan[u].parts)
      /\ plan[u].kind \in Single => Len(plan[u].parts) = 1
      /\ plan[u].kind = "Fei" => Len(plan[u].parts) \in plan[u].marked
      /\ plan[u].kind = "Q14" => plan[u].block = 2 /\ plan[u].parts[1] = 1
      /\ plan[u].kind = "GOS" =>
            plan[u].block \in {2, 4} /\ plan[u].parts[1] <= plan[u].block
      /\ plan[u].kind \in {"Q14", "GOS"} =>
            \A i \in 1..(Len(plan[u].parts) - 1) :
                plan[u].parts[i] = plan[u].block \/ (i = 1 /\ plan[u].kind = "Q14")
  BY <1>2, ChatUploadAssumption DEF ChatUploadAssumption
<1>4. PICK s : s = plan[u].parts
  OBVIOUS
<1>5. s \in Seq(Nat \ {0}) /\ s # <<>>
  BY <1>3, <1>4
<1>6. s \in Seq(Nat) /\ Len(s) \in Nat \ {0} /\ \A i \in 1..Len(s) : s[i] \in Nat \ {0}
  BY <1>5
<1>7. Count(u) = Len(s)
  BY <1>1, <1>4 DEF Count
<1>8. uploads[u].parts \in Seq(Nat) /\ Count(u) \in Nat \ {0} /\ Count(u) = Len(uploads[u].parts)
      /\ \A i \in 1..Count(u) : uploads[u].parts[i] \in Nat \ {0}
  BY <1>1, <1>4, <1>6, <1>7
<1> QED
  BY <1>1, <1>3, <1>8 DEF Kinds

\* A longer beginning of a sequence.
LEMMA SubSeqAppend ==
    ASSUME NEW s \in Seq(Nat), NEW i \in 1..Len(s)
    PROVE  /\ SubSeq(s, 1, i) = Append(SubSeq(s, 1, i - 1), s[i])
           /\ SubSeq(s, 1, i - 1) \in Seq(Nat) /\ SubSeq(s, 1, i) \in Seq(Nat)
<1>1. Len(s) \in Nat /\ i \in Nat /\ 1 <= i /\ i <= Len(s) /\ \A k \in 1..Len(s) : s[k] \in Nat
  OBVIOUS
<1>2. SubSeq(s, 1, i - 1) \in Seq(Nat) /\ Len(SubSeq(s, 1, i - 1)) = i - 1
      /\ \A k \in 1..(i - 1) : SubSeq(s, 1, i - 1)[k] = s[k]
  BY <1>1
<1>3. SubSeq(s, 1, i) \in Seq(Nat) /\ Len(SubSeq(s, 1, i)) = i
      /\ \A k \in 1..i : SubSeq(s, 1, i)[k] = s[k]
  BY <1>1
<1>4. PICK a, b : a = SubSeq(s, 1, i - 1) /\ b = SubSeq(s, 1, i)
  OBVIOUS
<1>5. /\ a \in Seq(Nat) /\ Len(a) = i - 1 /\ b \in Seq(Nat) /\ Len(b) = i
      /\ \A k \in 1..(i - 1) : a[k] = s[k]
      /\ \A k \in 1..i : b[k] = s[k]
  BY <1>2, <1>3, <1>4
<1>6. /\ Append(a, s[i]) \in Seq(Nat) /\ Len(Append(a, s[i])) = i
      /\ \A k \in 1..i : Append(a, s[i])[k] = s[k]
  BY <1>1, <1>5
<1>7. b = Append(a, s[i])
  BY <1>5, <1>6, SeqEqual
<1> QED
  BY <1>4, <1>5, <1>7

\* The offsets of the parts.
LEMMA OffsetIs ==
    ASSUME uploads \in Plans, NEW u \in Ids
    PROVE  /\ Offset(u, 1) = 0 /\ Size(u) = Offset(u, Count(u) + 1) /\ Size(u) \in Nat
           /\ \A i \in 1..Count(u) :
                 /\ Offset(u, i) \in Nat
                 /\ Offset(u, i + 1) = Offset(u, i) + uploads[u].parts[i]
<1>1. PICK s : s = uploads[u].parts
  OBVIOUS
<1>2. s \in Seq(Nat) /\ Count(u) = Len(s) /\ Len(s) \in Nat
  BY <1>1, UploadIs
<1>3. Offset(u, 1) = 0
  <2>1. SubSeq(s, 1, 1 - 1) = <<>>
    BY <1>2
  <2> QED
    BY <1>1, <2>1, SumEmpty DEF Offset
<1>4. ASSUME NEW i \in 1..Count(u)
      PROVE  Offset(u, i) \in Nat /\ Offset(u, i + 1) = Offset(u, i) + uploads[u].parts[i]
  <2>1. i \in 1..Len(s) /\ s[i] \in Nat /\ (i + 1) - 1 = i
    BY <1>2
  <2>2. /\ SubSeq(s, 1, i) = Append(SubSeq(s, 1, i - 1), s[i])
        /\ SubSeq(s, 1, i - 1) \in Seq(Nat)
    BY <1>2, <2>1, SubSeqAppend
  <2>3. Sum(SubSeq(s, 1, i - 1)) \in Nat /\ Sum(SubSeq(s, 1, i)) = Sum(SubSeq(s, 1, i - 1)) + s[i]
    BY <2>1, <2>2, SumNat, SumAppend
  <2> QED
    BY <1>1, <2>1, <2>3 DEF Offset
<1>5. Size(u) = Offset(u, Count(u) + 1)
  <2>1. SubSeq(s, 1, (Len(s) + 1) - 1) = s
    <3>1. (Len(s) + 1) - 1 = Len(s)
      BY <1>2
    <3>2. SubSeq(s, 1, Len(s)) \in Seq(Nat) /\ Len(SubSeq(s, 1, Len(s))) = Len(s)
          /\ \A k \in 1..Len(s) : SubSeq(s, 1, Len(s))[k] = s[k]
      BY <1>2
    <3>3. SubSeq(s, 1, Len(s)) = s
      BY <1>2, <3>2, SeqEqual
    <3> QED
      BY <3>1, <3>3
  <2> QED
    BY <1>1, <1>2, <2>1 DEF Size, Offset
<1>6. Size(u) \in Nat
  BY <1>1, <1>2, SumNat DEF Size
<1> QED
  BY <1>3, <1>4, <1>5, <1>6

-----------------------------------------------------------------------------
(* Types *)

Titles    == {0} \cup {uploads[u].name : u \in Ids}
NoteNames == {uploads[u].note : u \in Ids}

Locals == [uid : Nat, num : Nat, fn : Titles, fs : Nat, flen : Nat, fd : Nat, bucket : Nat]
Item   == [uid : Nat, num : Nat, fn : Titles, fs : Nat, len : {1, 470}]
Record == [of : Ids, uid : Nat, block : Nat, fn : Titles, fs : Nat]
Report == [upload : Ids, uid : Nat, fn : Titles, fs : Nat, counted : BOOLEAN]

\* Where a worker stands that has a part of a file.
PartPlaces == {"look", "session", "begin", "fill", "reopen", "count", "write", "rewrite", "reread",
               "tell", "remove", "whole", "blog"}
Places     == PartPlaces \cup {"idle", "init", "insert", "finish"}

PlanOK ==
    /\ uploads \in Plans
    /\ posted \in [Ids -> SUBSET Nat] /\ taken \in [Ids -> SUBSET Nat]
    /\ \A u \in Ids : taken[u] \subseteq posted[u] /\ posted[u] \subseteq Posts(u)

\* What a worker at a place has in hand.
StageFor(w, place, g) ==
    /\ place \in {"init", "insert"} => Kind(w) = "Fei" /\ Number(w) = 0
    /\ place = "finish" => Kind(w) = "Fei" /\ Number(w) = Count(Upload(w)) + 1
    /\ place \in PartPlaces => Number(w) \in 1..Count(Upload(w))
    /\ place \in {"look", "begin", "fill", "rewrite", "reread", "remove"} => Kind(w) \in Noted
    /\ place \in {"session", "count"} => Kind(w) = "Fei"
    /\ place = "reopen" => Kind(w) \in {"Fei", "Fei5"}
    /\ place = "write" => Kind(w) \in Noted \cup {"Yahoo"}
    /\ place = "whole" => Kind(w) = "Yahoo"
    /\ place = "blog" => Kind(w) = "Blog"
    /\ place \in {"init", "insert", "finish", "look", "session", "whole", "blog"} => g = Nothing
    /\ place \in {"begin", "fill", "write", "reopen"} => g.flen = 0
    /\ place \in {"fill", "count"} => g.fd # 0
    /\ place \in {"fill", "write"} => g.uid # 0
    /\ place = "begin" /\ Kind(w) = "Fei" => g.bucket # NULL

StageOK(w) ==
    /\ ~Busy(w) => post[w] = <<0, 0>> /\ got[w] = Nothing
    /\ Busy(w) => Upload(w) \in Ids /\ Number(w) \in taken[Upload(w)]
    /\ StageFor(w, pc[w], got[w])

WorkOK ==
    /\ pc \in [Workers -> Places]
    /\ post \in [Workers -> (Ids \cup {0}) \X Nat]
    /\ got \in [Workers -> Locals]
    /\ \A w \in Workers : StageOK(w)

FileOK ==
    /\ notes \in Seq(Seq(Item))
    /\ note \in [NoteNames -> 0..Len(notes)]
    /\ uuids \in Nat
    /\ DOMAIN data \subseteq 1..uuids

SessionOK ==
    /\ TableOK(tbl)
    /\ sessions \in Seq(Record)
    /\ freed \subseteq DOMAIN sessions
    /\ In(tbl) = DOMAIN sessions \ freed
    /\ \A b \in In(tbl) : tbl.key[b] = uploads[sessions[b].of].conn

\* Notes, buckets and uuids that somebody has in hand are there.
HeldOK ==
    /\ \A w \in Workers : /\ got[w].fd <= Len(notes) /\ got[w].uid <= uuids
                          /\ got[w].bucket <= Len(sessions)
    /\ \A n \in DOMAIN notes : \A k \in DOMAIN notes[n] : notes[n][k].uid <= uuids
    /\ \A b \in DOMAIN sessions : sessions[b].uid \in 1..uuids

HistOK ==
    /\ announced \in Seq(Report)
    /\ disturbed \subseteq Ids
    /\ faults \in Nat

ChatTypes == PlanOK /\ WorkOK /\ FileOK /\ SessionOK /\ HeldOK /\ HistOK

\* The type invariant of ChatUpload says no more than this.
LEMMA TypesAreOK == ChatTypes => TypeOK
<1> SUFFICES ASSUME ChatTypes PROVE TypeOK
  OBVIOUS
<1>1. \A f \in DOMAIN note : note[f] \in 0..Len(notes)
  BY DEF ChatTypes, FileOK
<1>2. \A u \in Ids : taken[u] \subseteq posted[u] /\ posted[u] \subseteq Posts(u)
  BY DEF ChatTypes, PlanOK
<1>3. DOMAIN data \subseteq 1..uuids /\ disturbed \subseteq Ids
  BY DEF ChatTypes, FileOK, HistOK
<1>4. freed \subseteq DOMAIN sessions /\ In(tbl) \subseteq DOMAIN sessions
  BY DEF ChatTypes, SessionOK
<1> QED
  BY <1>1, <1>2, <1>3, <1>4 DEF TypeOK

\* Locals with nothing in them.
LEMMA NothingIs ==
    /\ Nothing \in Locals
    /\ Nothing.uid = 0 /\ Nothing.num = 0 /\ Nothing.fn = 0 /\ Nothing.fs = 0
    /\ Nothing.flen = 0 /\ Nothing.fd = 0 /\ Nothing.bucket = 0
  BY DEF Nothing, Locals, Titles, NULL

\* What GoWith does to the one worker and to the others.
LEMMA GoWithIs ==
    ASSUME WorkOK, NEW w \in Workers, NEW place \in Places, NEW g \in Locals,
           uploads' = uploads, GoWith(w, place, g)
    PROVE  /\ pc' \in [Workers -> Places]
           /\ post' \in [Workers -> (Ids' \cup {0}) \X Nat]
           /\ got' \in [Workers -> Locals']
           /\ pc'[w] = place
           /\ post'[w] = IF place = "idle" THEN <<0, 0>> ELSE post[w]
           /\ got'[w] = IF place = "idle" THEN Nothing ELSE g
           /\ \A v \in Workers \ {w} : pc'[v] = pc[v] /\ post'[v] = post[v] /\ got'[v] = got[v]
<1>1. /\ pc' = [pc EXCEPT ![w] = place]
      /\ post' = [post EXCEPT ![w] = IF place = "idle" THEN <<0, 0>> ELSE post[w]]
      /\ got' = [got EXCEPT ![w] = IF place = "idle" THEN Nothing ELSE g]
  BY DEF GoWith
<1>2. /\ pc \in [Workers -> Places] /\ post \in [Workers -> (Ids \cup {0}) \X Nat]
      /\ got \in [Workers -> Locals]
  BY DEF WorkOK
<1>3. Locals' = Locals /\ Ids' = Ids
  BY DEF Locals, Titles, Ids
<1>4. Nothing \in Locals
  BY NothingIs
<1>5. <<0, 0>> \in (Ids \cup {0}) \X Nat
  OBVIOUS
<1>6. got' \in [Workers -> Locals]
  BY <1>1, <1>2, <1>4
<1>7. post' \in [Workers -> (Ids \cup {0}) \X Nat]
  BY <1>1, <1>2, <1>5
<1> QED
  BY <1>1, <1>2, <1>3, <1>6, <1>7

\* The stage of a worker that does not move.
LEMMA StageStays ==
    ASSUME NEW v \in Workers, StageOK(v), uploads' = uploads,
           pc'[v] = pc[v], post'[v] = post[v], got'[v] = got[v],
           \A u \in Ids : taken[u] \subseteq taken'[u]
    PROVE  StageOK(v)'
<1>1. /\ Upload(v)' = Upload(v) /\ Number(v)' = Number(v) /\ Busy(v)' = Busy(v)
      /\ (Upload(v) \in Ids)' = (Upload(v) \in Ids)
  BY DEF Upload, Number, Busy, Ids
<1>2. StageFor(v, pc[v], got[v])' = StageFor(v, pc[v], got[v])
  BY <1>1 DEF StageFor, Kind, Count, Upload, Number
<1>3. StageFor(v, pc[v], got[v])
  BY DEF StageOK
<1> QED
  BY <1>1, <1>2, <1>3 DEF StageOK

\* The stage of the one that does.
LEMMA StageMoves ==
    ASSUME WorkOK, NEW w \in Workers, NEW place \in Places, NEW g \in Locals,
           Busy(w), uploads' = uploads, taken' = taken, GoWith(w, place, g), StageFor(w, place, g)
    PROVE  StageOK(w)'
<1>1. /\ pc'[w] = place
      /\ post'[w] = IF place = "idle" THEN <<0, 0>> ELSE post[w]
      /\ got'[w] = IF place = "idle" THEN Nothing ELSE g
  BY GoWithIs
<1>2. CASE place = "idle"
  BY <1>1, <1>2 DEF StageOK, StageFor, Busy, PartPlaces
<1>3. CASE place # "idle"
  <2>1. /\ Upload(w)' = Upload(w) /\ Number(w)' = Number(w) /\ Busy(w)'
        /\ Kind(w)' = Kind(w) /\ Count(Upload(w))' = Count(Upload(w))
    BY <1>1, <1>3 DEF Upload, Number, Busy, Kind, Count
  <2>2. Upload(w) \in Ids /\ Number(w) \in taken[Upload(w)]
    BY DEF WorkOK, StageOK
  <2>3. StageFor(w, pc[w], got[w])'
    BY <1>1, <1>3, <2>1 DEF StageFor
  <2> QED
    BY <1>3, <2>1, <2>2, <2>3 DEF StageOK, Ids
<1> QED
  BY <1>2, <1>3

-----------------------------------------------------------------------------
(* Types are kept *)

\* The plan is well typed as long as nobody sends.
LEMMA PlanStays == ASSUME PlanOK, UNCHANGED planVars PROVE PlanOK'
  BY DEF PlanOK, planVars, Ids, Posts, Count

\* Notes and files of data are, as long as nobody writes.
LEMMA FileStays == ASSUME FileOK, UNCHANGED <<uploads, fileVars>> PROVE FileOK'
<1>1. Item' = Item /\ NoteNames' = NoteNames
  BY DEF Item, NoteNames, Titles, Ids
<1> QED
  BY <1>1 DEF FileOK, fileVars

\* So are the sessions, as long as nobody inserts or frees one.
LEMMA SessionStays == ASSUME SessionOK, UNCHANGED <<uploads, sessionVars>> PROVE SessionOK'
<1>1. Record' = Record
  BY DEF Record, Titles, Ids
<1> QED
  BY <1>1 DEF SessionOK, sessionVars

\* And what has been announced.
LEMMA HistStays == ASSUME HistOK, UNCHANGED <<uploads, histVars>> PROVE HistOK'
<1>1. Report' = Report /\ Ids' = Ids
  BY DEF Report, Titles, Ids
<1> QED
  BY <1>1 DEF HistOK, histVars

\* A failure.
LEMMA FailureTypes ==
    ASSUME HistOK, NEW kind, NEW u \in Ids, Failure(kind, u), uploads' = uploads, announced' = announced
    PROVE  HistOK'
<1>1. Report' = Report /\ Ids' = Ids
  BY DEF Report, Titles, Ids
<1> QED
  BY <1>1 DEF HistOK, Failure

\* One worker goes on.
LEMMA WorkMoves ==
    ASSUME WorkOK, NEW w \in Workers, NEW place \in Places, NEW g \in Locals,
           UNCHANGED planVars, Busy(w), GoWith(w, place, g), StageFor(w, place, g)
    PROVE  WorkOK'
<1>1. /\ pc' \in [Workers -> Places]
      /\ post' \in [Workers -> (Ids' \cup {0}) \X Nat]
      /\ got' \in [Workers -> Locals']
      /\ \A v \in Workers \ {w} : pc'[v] = pc[v] /\ post'[v] = post[v] /\ got'[v] = got[v]
  BY GoWithIs DEF planVars
<1>2. ASSUME NEW v \in Workers PROVE StageOK(v)'
  <2>1. CASE v = w
    BY <2>1, StageMoves DEF planVars
  <2>2. CASE v # w
    BY <1>1, <2>2, StageStays DEF WorkOK, planVars
  <2> QED
    BY <2>1, <2>2
<1> QED
  BY <1>1, <1>2 DEF WorkOK

\* What it holds is there.
LEMMA HeldMoves ==
    ASSUME WorkOK, HeldOK, FileOK, SessionOK,
           NEW w \in Workers, NEW place \in Places, NEW g \in Locals,
           uploads' = uploads, GoWith(w, place, g),
           Len(notes') \in Nat, Len(notes) <= Len(notes'),
           uuids' \in Nat, uuids <= uuids',
           Len(sessions') \in Nat, Len(sessions) <= Len(sessions'),
           g.fd <= Len(notes'), g.uid <= uuids', g.bucket <= Len(sessions'),
           \A n \in DOMAIN notes' : \A k \in DOMAIN notes'[n] : notes'[n][k].uid <= uuids',
           \A b \in DOMAIN sessions' : sessions'[b].uid \in 1..uuids'
    PROVE  HeldOK'
<1>1. /\ got'[w] = IF place = "idle" THEN Nothing ELSE g
      /\ \A v \in Workers \ {w} : got'[v] = got[v]
  BY GoWithIs
<1>2. ASSUME NEW v \in Workers
      PROVE got'[v].fd <= Len(notes') /\ got'[v].uid <= uuids' /\ got'[v].bucket <= Len(sessions')
  <2>1. CASE v = w
    BY <1>1, <2>1, NothingIs
  <2>2. CASE v # w
    <3>1. got'[v] = got[v] /\ got[v].fd <= Len(notes) /\ got[v].uid <= uuids /\ got[v].bucket <= Len(sessions)
      BY <1>1, <2>2 DEF HeldOK
    <3>2. got[v] \in Locals
      BY DEF WorkOK
    <3>3. got[v].fd \in Nat /\ got[v].uid \in Nat /\ got[v].bucket \in Nat /\ uuids \in Nat
          /\ Len(notes) \in Nat /\ Len(sessions) \in Nat
      <4>1. got[v].fd \in Nat /\ got[v].uid \in Nat /\ got[v].bucket \in Nat
        BY <3>2 DEF Locals
      <4>2. uuids \in Nat /\ Len(notes) \in Nat
        BY DEF FileOK
      <4>3. Len(sessions) \in Nat
        BY DEF SessionOK
      <4> QED
        BY <4>1, <4>2, <4>3
    <3>4. PICK a, b, c, d, e, f : /\ a = got[v].fd /\ b = got[v].uid /\ c = got[v].bucket
                                  /\ d = Len(notes) /\ e = Len(sessions) /\ f = uuids
      OBVIOUS
    <3>5. a <= d /\ d <= Len(notes') /\ b <= f /\ f <= uuids' /\ c <= e /\ e <= Len(sessions')
          /\ a \in Nat /\ b \in Nat /\ c \in Nat /\ d \in Nat /\ e \in Nat /\ f \in Nat
      BY <3>1, <3>3, <3>4
    <3>6. a <= Len(notes') /\ b <= uuids' /\ c <= Len(sessions')
      BY <3>5
    <3> QED
      BY <3>1, <3>4, <3>6
  <2> QED
    BY <2>1, <2>2
<1> QED
  BY <1>2 DEF HeldOK

\* The same, when nothing but the worker changes.
LEMMA HeldStays ==
    ASSUME WorkOK, HeldOK, FileOK, SessionOK,
           NEW w \in Workers, NEW place \in Places, NEW g \in Locals,
           GoWith(w, place, g), UNCHANGED <<uploads, notes, uuids, sessions>>,
           g.fd <= Len(notes), g.uid <= uuids, g.bucket <= Len(sessions)
    PROVE  HeldOK'
<1>1. Len(notes) \in Nat /\ uuids \in Nat /\ Len(sessions) \in Nat
  BY DEF FileOK, SessionOK
<1>2. /\ \A n \in DOMAIN notes : \A k \in DOMAIN notes[n] : notes[n][k].uid <= uuids
      /\ \A b \in DOMAIN sessions : sessions[b].uid \in 1..uuids
  BY DEF HeldOK
<1>3. Len(notes') = Len(notes) /\ uuids' = uuids /\ Len(sessions') = Len(sessions)
      /\ notes' = notes /\ sessions' = sessions
  OBVIOUS
<1>4. /\ Len(notes') \in Nat /\ Len(notes) <= Len(notes')
      /\ uuids' \in Nat /\ uuids <= uuids'
      /\ Len(sessions') \in Nat /\ Len(sessions) <= Len(sessions')
      /\ g.fd <= Len(notes') /\ g.uid <= uuids' /\ g.bucket <= Len(sessions')
  BY <1>1, <1>3
<1>5. /\ \A n \in DOMAIN notes' : \A k \in DOMAIN notes'[n] : notes'[n][k].uid <= uuids'
      /\ \A b \in DOMAIN sessions' : sessions'[b].uid \in 1..uuids'
  BY <1>2, <1>3
<1> QED
  BY <1>4, <1>5, HeldMoves

\* What a worker that is busy has.
LEMMA BusyIs ==
    ASSUME PlanOK, WorkOK, NEW w \in Workers, Busy(w)
    PROVE  /\ Upload(w) \in Ids /\ Number(w) \in taken[Upload(w)] /\ Number(w) \in Posts(Upload(w))
           /\ Number(w) \in Nat /\ Kind(w) \in Kinds /\ Conn(w) \in Keys /\ Name(w) \in NoteNames
           /\ got[w] \in Locals /\ post[w] = <<Upload(w), Number(w)>>
           /\ Count(Upload(w)) \in Nat \ {0}
<1>1. StageOK(w) /\ got[w] \in Locals /\ post[w] \in (Ids \cup {0}) \X Nat
  BY DEF WorkOK
<1>2. Upload(w) \in Ids /\ Number(w) \in taken[Upload(w)]
  BY <1>1 DEF StageOK
<1>3. taken[Upload(w)] \subseteq Posts(Upload(w))
  BY <1>2 DEF PlanOK
<1>4. post[w] = <<Upload(w), Number(w)>> /\ Number(w) \in Nat
  BY <1>1 DEF Upload, Number
<1>5. Kind(w) \in Kinds /\ Conn(w) \in Keys /\ Count(Upload(w)) \in Nat \ {0}
  BY <1>2, UploadIs DEF PlanOK, Kind, Conn
<1> QED
  BY <1>1, <1>2, <1>3, <1>4, <1>5 DEF Name, NoteNames

\* A step of one worker that keeps what it shares with the others well typed.
LEMMA MoveTypes ==
    ASSUME ChatTypes, NEW w \in Workers, NEW place \in Places, NEW g \in Locals,
           UNCHANGED planVars, Busy(w), GoWith(w, place, g), StageFor(w, place, g),
           FileOK', SessionOK', HistOK',
           Len(notes) <= Len(notes'), uuids <= uuids', Len(sessions) <= Len(sessions'),
           g.fd <= Len(notes'), g.uid <= uuids', g.bucket <= Len(sessions'),
           \A n \in DOMAIN notes' : \A k \in DOMAIN notes'[n] : notes'[n][k].uid <= uuids',
           \A b \in DOMAIN sessions' : sessions'[b].uid \in 1..uuids'
    PROVE  ChatTypes'
<1>1. PlanOK /\ WorkOK /\ FileOK /\ SessionOK /\ HeldOK /\ HistOK /\ uploads' = uploads
  BY DEF ChatTypes, planVars
<1>2. Len(notes') \in Nat /\ uuids' \in Nat /\ Len(sessions') \in Nat
  BY DEF FileOK, SessionOK
<1>3. HeldOK'
  BY <1>1, <1>2, HeldMoves
<1> QED
  BY <1>1, <1>3, PlanStays, WorkMoves DEF ChatTypes

\* A step that leaves files and sessions alone.
LEMMA MoveOnlyTypes ==
    ASSUME ChatTypes, NEW w \in Workers, NEW place \in Places, NEW g \in Locals,
           UNCHANGED <<planVars, fileVars, sessionVars>>, HistOK',
           Busy(w), GoWith(w, place, g), StageFor(w, place, g),
           g.fd <= Len(notes), g.uid <= uuids, g.bucket <= Len(sessions)
    PROVE  ChatTypes'
<1>1. PlanOK /\ WorkOK /\ FileOK /\ SessionOK /\ HeldOK /\ HistOK /\ uploads' = uploads
  BY DEF ChatTypes, planVars
<1>2. HeldOK'
  BY <1>1, HeldStays DEF fileVars, sessionVars
<1> QED
  BY <1>1, <1>2, PlanStays, WorkMoves, FileStays, SessionStays DEF ChatTypes

\* What the types say of a worker that is busy.
LEMMA HandIs ==
    ASSUME ChatTypes, NEW w \in Workers, Busy(w)
    PROVE  /\ Upload(w) \in Ids /\ Number(w) \in taken[Upload(w)] /\ Number(w) \in Posts(Upload(w))
           /\ Number(w) \in Nat /\ Kind(w) \in Kinds /\ Conn(w) \in Keys /\ Name(w) \in NoteNames
           /\ Count(Upload(w)) \in Nat \ {0} /\ StageFor(w, pc[w], got[w])
           /\ got[w] \in Locals
           /\ got[w].uid \in Nat /\ got[w].num \in Nat /\ got[w].fn \in Titles /\ got[w].fs \in Nat
           /\ got[w].flen \in Nat /\ got[w].fd \in Nat /\ got[w].bucket \in Nat
           /\ got[w].fd <= Len(notes) /\ got[w].uid <= uuids /\ got[w].bucket <= Len(sessions)
           /\ Len(notes) \in Nat /\ uuids \in Nat /\ Len(sessions) \in Nat
           /\ note[Name(w)] \in 0..Len(notes)
<1>1. PlanOK /\ WorkOK /\ FileOK /\ SessionOK /\ HeldOK
  BY DEF ChatTypes
<1>2. /\ Upload(w) \in Ids /\ Number(w) \in taken[Upload(w)] /\ Number(w) \in Posts(Upload(w))
      /\ Number(w) \in Nat /\ Kind(w) \in Kinds /\ Conn(w) \in Keys /\ Name(w) \in NoteNames
      /\ Count(Upload(w)) \in Nat \ {0} /\ got[w] \in Locals
  BY <1>1, BusyIs
<1>3. got[w].fd <= Len(notes) /\ got[w].uid <= uuids /\ got[w].bucket <= Len(sessions)
  BY <1>1 DEF HeldOK
<1>4. Len(notes) \in Nat /\ uuids \in Nat /\ Len(sessions) \in Nat /\ note[Name(w)] \in 0..Len(notes)
  BY <1>1, <1>2 DEF FileOK, SessionOK
<1>5. StageFor(w, pc[w], got[w])
  BY <1>1 DEF WorkOK, StageOK
<1> QED
  BY <1>2, <1>3, <1>4, <1>5 DEF Locals

\* The "1" of a block.
LEMMA OneIs ==
    One \in Item /\ One.uid = 0 /\ One.num = 0 /\ One.fn = 0 /\ One.fs = 0 /\ One.len = 1
  BY DEF One, Item, Titles

\* What a note holds, and what is read of it.
LEMMA ReadIs ==
    ASSUME FileOK, HeldOK, NEW items \in Seq(Item), \A k \in DOMAIN items : items[k].uid <= uuids
    PROVE  Read(items) \in Item /\ Read(items).uid <= uuids
<1>1. CASE items # <<>> /\ items[1].len = 470
  <2>1. 1 \in DOMAIN items /\ items[1] \in Item
    BY <1>1
  <2> QED
    BY <1>1, <2>1 DEF Read
<1>2. CASE ~(items # <<>> /\ items[1].len = 470)
  BY <1>2, OneIs DEF Read, FileOK
<1> QED
  BY <1>1, <1>2

\* The notes.
LEMMA NoteIs ==
    ASSUME FileOK, HeldOK, NEW n \in 1..Len(notes)
    PROVE  notes[n] \in Seq(Item) /\ \A k \in DOMAIN notes[n] : notes[n][k].uid <= uuids
<1>1. n \in DOMAIN notes
  BY DEF FileOK
<1> QED
  BY <1>1 DEF FileOK, HeldOK

\* The note that a worker reads.
LEMMA ItemsIs ==
    ASSUME FileOK, HeldOK, NEW w \in Workers, Name(w) \in NoteNames
    PROVE  /\ Items(w) \in Seq(Item)
           /\ Read(Items(w)) \in Item /\ Read(Items(w)).uid <= uuids
<1>1. note[Name(w)] \in 0..Len(notes) /\ Len(notes) \in Nat /\ uuids \in Nat
  BY DEF FileOK
<1>2. CASE note[Name(w)] = 0
  <2>1. Items(w) = <<>> /\ <<>> \in Seq(Item) /\ DOMAIN <<>> = {}
    BY <1>2 DEF Items
  <2> QED
    BY <2>1, ReadIs
<1>3. CASE note[Name(w)] # 0
  <2>1. note[Name(w)] \in 1..Len(notes) /\ Items(w) = notes[note[Name(w)]]
    BY <1>1, <1>3 DEF Items
  <2> QED
    BY <2>1, NoteIs, ReadIs
<1> QED
  BY <1>2, <1>3

\* Types are kept when a worker looks for its note.
LEMMA LookTypes == ASSUME ChatTypes, NEW w \in Workers, Look(w) PROVE ChatTypes'
<1>1. /\ UNCHANGED <<planVars, fileVars, sessionVars, histVars>> /\ pc[w] = "look" /\ Busy(w)
      /\ UNCHANGED <<uploads, histVars>> /\ FileOK /\ HeldOK /\ HistOK
  BY DEF ChatTypes, Look, Busy, planVars
<1>2. /\ got[w] = Nothing /\ Kind(w) \in Noted /\ Name(w) \in NoteNames /\ got[w] \in Locals
      /\ Number(w) \in 1..Count(Upload(w)) /\ Upload(w) \in Ids
      /\ Len(notes) \in Nat /\ uuids \in Nat /\ Len(sessions) \in Nat
  BY <1>1, HandIs DEF StageFor, PartPlaces
<1>3. CASE note[Name(w)] = 0
  <2>1. PICK place : place = IF Kind(w) = "Fei" THEN "session" ELSE "begin"
    OBVIOUS
  <2>2. GoWith(w, place, got[w]) /\ place \in Places
    BY <1>3, <2>1 DEF Look, Goto, Places, PartPlaces
  <2>3. StageFor(w, place, got[w])
    BY <1>2, <2>1, NothingIs DEF StageFor, PartPlaces
  <2> QED
    BY <1>1, <1>2, <2>2, <2>3, NothingIs, HistStays, MoveOnlyTypes
<1>4. CASE note[Name(w)] # 0
  <2>1. PICK h : h = Read(Items(w))
    OBVIOUS
  <2>2. h \in Item /\ h.uid <= uuids
    BY <1>1, <1>2, <2>1, ItemsIs
  <2>3. PICK place, g : /\ place = IF Kind(w) \in {"Fei", "Fei5"} THEN "reopen" ELSE "rewrite"
                        /\ g = [got[w] EXCEPT !.uid = h.uid, !.num = h.num]
    OBVIOUS
  <2>4. GoWith(w, place, g) /\ place \in Places
    BY <1>4, <2>1, <2>3 DEF Look, Places, PartPlaces
  <2>5. g \in Locals /\ g.uid = h.uid /\ g.fd = 0 /\ g.bucket = 0 /\ g.flen = 0
    BY <1>2, <2>2, <2>3, NothingIs DEF Locals, Item
  <2>6. StageFor(w, place, g)
    BY <1>2, <2>3, <2>5 DEF StageFor, PartPlaces
  <2> QED
    BY <1>1, <1>2, <2>2, <2>4, <2>5, <2>6, HistStays, MoveOnlyTypes
<1> QED
  BY <1>3, <1>4

\* The same for find_hash.
LEMMA FindSessionTypes == ASSUME ChatTypes, NEW w \in Workers, FindSession(w) PROVE ChatTypes'
<1>1. /\ UNCHANGED <<planVars, fileVars, sessionVars, histVars>> /\ pc[w] = "session" /\ Busy(w)
      /\ UNCHANGED <<uploads, histVars>> /\ SessionOK /\ HistOK
  BY DEF ChatTypes, FindSession, Busy, planVars
<1>2. /\ got[w] = Nothing /\ Kind(w) = "Fei" /\ Conn(w) \in Keys /\ got[w] \in Locals
      /\ Number(w) \in 1..Count(Upload(w)) /\ Len(notes) \in Nat /\ uuids \in Nat /\ Len(sessions) \in Nat
  BY <1>1, HandIs DEF StageFor, PartPlaces
<1>3. PICK b : b = FindHash(tbl, Conn(w))
  OBVIOUS
<1>4. b \in 0..Len(sessions)
  BY <1>1, <1>2, <1>3, FindIs DEF SessionOK, NULL
<1>5. PICK place, g : /\ place = IF b = NULL THEN "idle" ELSE "begin"
                      /\ g = [got[w] EXCEPT !.bucket = b]
  OBVIOUS
<1>6. GoWith(w, place, g) /\ place \in Places
  BY <1>3, <1>5 DEF FindSession, Places, PartPlaces
<1>7. g \in Locals /\ g.bucket = b /\ g.fd = 0 /\ g.uid = 0 /\ g.flen = 0
  BY <1>2, <1>4, <1>5, NothingIs DEF Locals
<1>8. StageFor(w, place, g)
  BY <1>2, <1>5, <1>7 DEF StageFor, PartPlaces, NULL, Noted
<1> QED
  BY <1>1, <1>2, <1>4, <1>6, <1>7, <1>8, HistStays, MoveOnlyTypes

\* No name at all is among the names.
LEMMA TitlesIs == 0 \in Titles
  BY DEF Titles

\* Locals of which some fields are written.
Noting(g, uid, num, fd)          == [g EXCEPT !.uid = uid, !.num = num, !.fd = fd]
Telling(g, uid, num, fn, fs, fd) == [g EXCEPT !.uid = uid, !.num = num, !.fn = fn, !.fs = fs, !.fd = fd]

\* The locals of a worker that has made a note.
LEMMA NotingIs ==
    ASSUME NEW g, NEW uid, NEW num, NEW fd,
           g \in Locals, uid \in Nat, num \in Nat, fd \in Nat
    PROVE  /\ Noting(g, uid, num, fd) \in Locals
           /\ Noting(g, uid, num, fd).uid = uid /\ Noting(g, uid, num, fd).num = num
           /\ Noting(g, uid, num, fd).fn = g.fn /\ Noting(g, uid, num, fd).fs = g.fs
           /\ Noting(g, uid, num, fd).flen = g.flen /\ Noting(g, uid, num, fd).fd = fd
           /\ Noting(g, uid, num, fd).bucket = g.bucket
<1>1. PICK a : a = [g EXCEPT !.uid = uid]
  OBVIOUS
<1>2. PICK b : b = [a EXCEPT !.num = num]
  OBVIOUS
<1>3. PICK c : c = [b EXCEPT !.fd = fd]
  OBVIOUS
<1>4. /\ a \in Locals /\ a.uid = uid /\ a.num = g.num /\ a.fn = g.fn /\ a.fs = g.fs
      /\ a.flen = g.flen /\ a.fd = g.fd /\ a.bucket = g.bucket
  BY <1>1 DEF Locals
<1>5. /\ b \in Locals /\ b.uid = uid /\ b.num = num /\ b.fn = g.fn /\ b.fs = g.fs
      /\ b.flen = g.flen /\ b.fd = g.fd /\ b.bucket = g.bucket
  BY <1>2, <1>4 DEF Locals
<1>6. /\ c \in Locals /\ c.uid = uid /\ c.num = num /\ c.fn = g.fn /\ c.fs = g.fs
      /\ c.flen = g.flen /\ c.fd = fd /\ c.bucket = g.bucket
  BY <1>3, <1>5 DEF Locals
<1>7. Noting(g, uid, num, fd) = c
  BY <1>1, <1>2, <1>3 DEF Noting
<1> QED
  BY <1>6, <1>7

\* And of one that has read the session.
LEMMA TellingIs ==
    ASSUME NEW g, NEW uid, NEW num, NEW fn, NEW fs, NEW fd, NEW h,
           g \in Locals, uid \in Nat, num \in Nat, fn \in Titles, fs \in Nat, fd \in Nat,
           h = Telling(g, uid, num, fn, fs, fd)
    PROVE  /\ h \in Locals /\ h.uid = uid /\ h.num = num /\ h.fn = fn /\ h.fs = fs
           /\ h.flen = g.flen /\ h.fd = fd /\ h.bucket = g.bucket
<1>1. PICK a : a = [g EXCEPT !.uid = uid]
  OBVIOUS
<1>2. PICK b : b = [a EXCEPT !.num = num]
  OBVIOUS
<1>3. PICK c : c = [b EXCEPT !.fn = fn]
  OBVIOUS
<1>4. PICK d : d = [c EXCEPT !.fs = fs]
  OBVIOUS
<1>5. PICK e : e = [d EXCEPT !.fd = fd]
  OBVIOUS
<1>6. /\ a \in Locals /\ a.uid = uid /\ a.num = g.num /\ a.fn = g.fn /\ a.fs = g.fs
      /\ a.flen = g.flen /\ a.fd = g.fd /\ a.bucket = g.bucket
  BY <1>1 DEF Locals
<1>7. /\ b \in Locals /\ b.uid = uid /\ b.num = num /\ b.fn = g.fn /\ b.fs = g.fs
      /\ b.flen = g.flen /\ b.fd = g.fd /\ b.bucket = g.bucket
  BY <1>2, <1>6 DEF Locals
<1>8. /\ c \in Locals /\ c.uid = uid /\ c.num = num /\ c.fn = fn /\ c.fs = g.fs
      /\ c.flen = g.flen /\ c.fd = g.fd /\ c.bucket = g.bucket
  BY <1>3, <1>7 DEF Locals
<1>9. /\ d \in Locals /\ d.uid = uid /\ d.num = num /\ d.fn = fn /\ d.fs = fs
      /\ d.flen = g.flen /\ d.fd = g.fd /\ d.bucket = g.bucket
  BY <1>4, <1>8 DEF Locals
<1>10. /\ e \in Locals /\ e.uid = uid /\ e.num = num /\ e.fn = fn /\ e.fs = fs
      /\ e.flen = g.flen /\ e.fd = fd /\ e.bucket = g.bucket
  BY <1>5, <1>9 DEF Locals
<1>11. h = e
  BY <1>1, <1>2, <1>3, <1>4, <1>5 DEF Telling
<1> QED
  BY <1>10, <1>11

\* A note that is opened.
LEMMA OpenIs ==
    ASSUME FileOK, HeldOK, NEW w \in Workers, NEW emptied \in BOOLEAN, Name(w) \in NoteNames,
           OpenNote(w, emptied)
    PROVE  /\ notes' \in Seq(Seq(Item)) /\ Len(notes) <= Len(notes')
           /\ Opened(Name(w)) \in 1..Len(notes') /\ Opened(Name(w)) \in Nat \ {0}
           /\ note' = [note EXCEPT ![Name(w)] = Opened(Name(w))]
           /\ note' \in [NoteNames -> 0..Len(notes')]
           /\ \A n \in DOMAIN notes' : \A k \in DOMAIN notes'[n] : notes'[n][k].uid <= uuids
           /\ notes'[Opened(Name(w))] = IF note[Name(w)] = 0 \/ emptied THEN <<>> ELSE notes[note[Name(w)]]
           /\ \A n \in 1..Len(notes) : n # Opened(Name(w)) => notes'[n] = notes[n]
           /\ Len(notes') = IF note[Name(w)] = 0 THEN Len(notes) + 1 ELSE Len(notes)
<1>1. PICK f, N : f = Name(w) /\ N = Len(notes)
  OBVIOUS
<1>2. /\ notes \in Seq(Seq(Item)) /\ N \in Nat /\ note[f] \in 0..N /\ f \in NoteNames
      /\ \A n \in 1..N : notes[n] \in Seq(Item) /\ \A k \in DOMAIN notes[n] : notes[n][k].uid <= uuids
      /\ note \in [NoteNames -> 0..N] /\ <<>> \in Seq(Item) /\ DOMAIN <<>> = {}
  BY <1>1, NoteIs DEF FileOK
<1>3. CASE note[f] = 0
  <2>1. Opened(f) = N + 1 /\ notes' = Append(notes, <<>>) /\ note' = [note EXCEPT ![f] = N + 1]
    BY <1>1, <1>3 DEF Opened, OpenNote
  <2>2. /\ notes' \in Seq(Seq(Item)) /\ Len(notes') = N + 1 /\ notes'[N + 1] = <<>>
        /\ \A n \in 1..N : notes'[n] = notes[n]
    <3>1. notes \in Seq(Seq(Item)) /\ <<>> \in Seq(Item) /\ N = Len(notes) /\ N \in Nat
      BY <1>1, <1>2
    <3> QED
      BY <2>1, <3>1
  <2>3. note' \in [NoteNames -> 0..(N + 1)]
    <3>1. N + 1 \in 0..(N + 1) /\ 0..N \subseteq 0..(N + 1)
      BY <1>2
    <3>2. note \in [NoteNames -> 0..(N + 1)]
      BY <1>2, <3>1
    <3> QED
      BY <2>1, <3>1, <3>2
  <2>4. \A n \in DOMAIN notes' : \A k \in DOMAIN notes'[n] : notes'[n][k].uid <= uuids
    <3> TAKE n \in DOMAIN notes'
    <3>1. n \in 1..N \/ n = N + 1
      BY <1>2, <2>2
    <3> QED
      BY <1>2, <2>2, <3>1
  <2> QED
    BY <1>1, <1>2, <1>3, <2>1, <2>2, <2>3, <2>4
<1>4. CASE note[f] # 0
  <2>1. Opened(f) = note[f] /\ note' = [note EXCEPT ![f] = note[f]] /\ note[f] \in 1..N
        /\ notes' = IF emptied THEN [notes EXCEPT ![note[f]] = <<>>] ELSE notes
    BY <1>1, <1>2, <1>4 DEF Opened, OpenNote
  <2>2. /\ notes' \in Seq(Seq(Item)) /\ Len(notes') = N
        /\ notes'[note[f]] = IF emptied THEN <<>> ELSE notes[note[f]]
        /\ \A n \in 1..N : n # note[f] => notes'[n] = notes[n]
    BY <1>1, <1>2, <2>1
  <2>3. note' \in [NoteNames -> 0..N]
    BY <1>2, <2>1
  <2>4. \A n \in DOMAIN notes' : \A k \in DOMAIN notes'[n] : notes'[n][k].uid <= uuids
    <3> TAKE n \in DOMAIN notes'
    <3>1. n \in 1..N
      BY <2>2
    <3>2. CASE n # note[f]
      BY <1>2, <2>2, <3>1, <3>2
    <3>3. CASE n = note[f]
      BY <1>2, <2>2, <3>1, <3>3
    <3> QED
      BY <3>2, <3>3
  <2> QED
    BY <1>1, <1>2, <1>4, <2>1, <2>2, <2>3, <2>4
<1> QED
  BY <1>3, <1>4

\* Files are well typed when a note is opened.
LEMMA OpenTypes ==
    ASSUME FileOK, HeldOK, NEW w \in Workers, NEW emptied \in BOOLEAN, Name(w) \in NoteNames,
           OpenNote(w, emptied), uploads' = uploads, data' = data, uuids' \in Nat, uuids <= uuids'
    PROVE  /\ FileOK'
           /\ \A n \in DOMAIN notes' : \A k \in DOMAIN notes'[n] : notes'[n][k].uid <= uuids'
<1>1. Item' = Item /\ NoteNames' = NoteNames
  BY DEF Item, NoteNames, Titles, Ids
<1>2. /\ notes' \in Seq(Seq(Item)) /\ note' \in [NoteNames -> 0..Len(notes')]
      /\ \A n \in DOMAIN notes' : \A k \in DOMAIN notes'[n] : notes'[n][k].uid <= uuids
  BY OpenIs
<1>3. uuids \in Nat /\ DOMAIN data \subseteq 1..uuids
  BY DEF FileOK
<1>4. FileOK'
  BY <1>1, <1>2, <1>3 DEF FileOK
<1>5. ASSUME NEW n \in DOMAIN notes', NEW k \in DOMAIN notes'[n] PROVE notes'[n][k].uid <= uuids'
  <2>1. notes'[n][k] \in Item /\ notes'[n][k].uid <= uuids
    BY <1>2
  <2>2. PICK a : a = notes'[n][k].uid
    OBVIOUS
  <2>3. a \in Nat /\ a <= uuids
    BY <2>1, <2>2 DEF Item
  <2> QED
    BY <1>3, <2>2, <2>3
<1> QED
  BY <1>4, <1>5

\* What is read of a session, and what of it is certain.
LEMMA ContentsIs ==
    ASSUME SessionOK, NEW b \in 1..Len(sessions), NEW s \in Contents(b)
    PROVE  /\ s \in Record /\ s.of = sessions[b].of /\ s.uid = sessions[b].uid
           /\ s.fn = sessions[b].fn /\ s.fs = sessions[b].fs
           /\ b \notin freed => s = sessions[b]
           /\ sessions[b] \in Record
<1>1. sessions[b] \in Record
  BY DEF SessionOK
<1>2. s = sessions[b] \/ (b \in freed /\ s = [sessions[b] EXCEPT !.block = 0])
  BY DEF Contents
<1> QED
  BY <1>1, <1>2 DEF Record

\* Types are kept when a note is opened for writing.
LEMMA BeginTypes == ASSUME ChatTypes, NEW w \in Workers, Begin(w) PROVE ChatTypes'
<1>1. /\ UNCHANGED <<planVars, data, sessionVars, histVars>> /\ pc[w] = "begin" /\ Busy(w)
      /\ UNCHANGED <<uploads, histVars>> /\ UNCHANGED <<uploads, sessionVars>> /\ planVars' = planVars
      /\ UNCHANGED <<tbl, sessions, freed>> /\ uploads' = uploads /\ data' = data
      /\ SessionOK /\ HistOK /\ FileOK /\ HeldOK
  BY DEF ChatTypes, Begin, Busy, planVars, sessionVars
<1>2. /\ got[w] \in Locals /\ got[w].bucket \in Nat /\ got[w].bucket <= Len(sessions) /\ got[w].flen = 0
      /\ (Kind(w) = "Fei" => got[w].bucket # 0) /\ Kind(w) \in Noted
      /\ Number(w) \in 1..Count(Upload(w)) /\ Len(notes) \in Nat /\ uuids \in Nat /\ Len(sessions) \in Nat
      /\ Name(w) \in NoteNames
  BY <1>1, HandIs DEF StageFor, PartPlaces, NULL
<1>3. PICK emptied \in BOOLEAN : emptied = (Kind(w) # "Fei") /\ OpenNote(w, emptied)
  BY DEF Begin
<1>4. /\ notes' \in Seq(Seq(Item)) /\ Len(notes) <= Len(notes')
      /\ Opened(Name(w)) \in 1..Len(notes') /\ Opened(Name(w)) \in Nat \ {0}
  BY <1>1, <1>2, <1>3, OpenIs
<1>5. PICK g : /\ GoWith(w, "fill", g) /\ g \in Locals
               /\ g.fd = Opened(Name(w)) /\ g.bucket = got[w].bucket /\ g.flen = 0
               /\ g.uid # 0 /\ g.uid <= uuids' /\ uuids' \in Nat /\ uuids <= uuids'
  <2>1. CASE Kind(w) = "Fei"
    <3>1. PICK s \in Contents(got[w].bucket) :
            GoWith(w, "fill", [got[w] EXCEPT !.uid = s.uid, !.num = s.block + 1, !.fn = s.fn,
                                             !.fs = s.fs, !.fd = Opened(Name(w))])
      BY <2>1 DEF Begin
    <3>2. uuids' = uuids
      BY <2>1 DEF Begin
    <3>3. got[w].bucket \in 1..Len(sessions)
      BY <1>2, <2>1
    <3>4. s \in Record /\ s.uid = sessions[got[w].bucket].uid
      BY <1>1, <3>3, ContentsIs
    <3>5. sessions[got[w].bucket].uid \in 1..uuids
      BY <1>1, <3>3 DEF HeldOK, SessionOK
    <3>6. PICK g : g = [got[w] EXCEPT !.uid = s.uid, !.num = s.block + 1, !.fn = s.fn,
                                             !.fs = s.fs, !.fd = Opened(Name(w))]
      OBVIOUS
    <3>7. /\ g \in Locals /\ g.fd = Opened(Name(w)) /\ g.bucket = got[w].bucket /\ g.flen = 0 /\ g.uid = s.uid
      <4>1. s.uid \in Nat /\ s.block + 1 \in Nat /\ s.fn \in Titles /\ s.fs \in Nat /\ Opened(Name(w)) \in Nat
        BY <1>4, <3>4 DEF Record
      <4>2. PICK n, fd, uid, fn, fs :
               /\ n = s.block + 1 /\ fd = Opened(Name(w)) /\ uid = s.uid /\ fn = s.fn /\ fs = s.fs
               /\ n \in Nat /\ fd \in Nat /\ uid \in Nat /\ fn \in Titles /\ fs \in Nat
        BY <4>1
      <4>3. PICK old : old = got[w]
        OBVIOUS
      <4>4. g = Telling(old, uid, n, fn, fs, fd)
        BY <3>6, <4>2, <4>3 DEF Telling
      <4>5. old \in Locals /\ old.flen = 0 /\ old.bucket = got[w].bucket
        BY <1>2, <4>3
      <4>6. g \in Locals /\ g.uid = uid /\ g.flen = old.flen /\ g.fd = fd /\ g.bucket = old.bucket
        BY <4>2, <4>4, <4>5, TellingIs
      <4> QED
        BY <4>2, <4>5, <4>6
    <3>8. GoWith(w, "fill", g)
      BY <3>1, <3>6
    <3>9. g.uid # 0 /\ g.uid <= uuids' /\ uuids' \in Nat /\ uuids <= uuids'
      BY <1>2, <3>2, <3>4, <3>5, <3>7
    <3> QED
      BY <3>7, <3>8, <3>9
  <2>2. CASE Kind(w) # "Fei"
    <3>1. PICK g : g = [got[w] EXCEPT !.uid = uuids', !.num = KindOfBlock(w), !.fd = Opened(Name(w))]
      OBVIOUS
    <3>2. uuids' = uuids + 1 /\ GoWith(w, "fill", g)
      BY <2>2, <3>1 DEF Begin
    <3>3. KindOfBlock(w) \in Nat
      BY DEF KindOfBlock
    <3>4. /\ g \in Locals /\ g.fd = Opened(Name(w)) /\ g.bucket = got[w].bucket /\ g.flen = 0 /\ g.uid = uuids'
      <4>1. PICK n, fd, uid :
               /\ n = KindOfBlock(w) /\ fd = Opened(Name(w)) /\ uid = uuids'
               /\ n \in Nat /\ fd \in Nat /\ uid \in Nat
        BY <1>2, <1>4, <3>2, <3>3
      <4>2. PICK old : old = got[w]
        OBVIOUS
      <4>3. g = Noting(old, uid, n, fd)
        BY <3>1, <4>1, <4>2 DEF Noting
      <4>4. old \in Locals /\ old.flen = 0 /\ old.bucket = got[w].bucket
        BY <1>2, <4>2
      <4>5. g \in Locals /\ g.uid = uid /\ g.fd = fd /\ g.flen = old.flen /\ g.bucket = old.bucket
        BY <4>1, <4>3, <4>4, NotingIs
      <4> QED
        BY <4>1, <4>4, <4>5
    <3>5. g.uid # 0 /\ g.uid <= uuids' /\ uuids' \in Nat /\ uuids <= uuids'
      BY <1>2, <3>2, <3>4
    <3> QED
      BY <3>2, <3>4, <3>5
  <2> QED
    BY <2>1, <2>2
<1>6. FileOK' /\ \A n \in DOMAIN notes' : \A k \in DOMAIN notes'[n] : notes'[n][k].uid <= uuids'
  BY <1>1, <1>2, <1>3, <1>5, OpenTypes
<1>7. SessionOK' /\ HistOK'
  BY <1>1, SessionStays, HistStays
<1>8. \A b \in DOMAIN sessions' : sessions'[b].uid \in 1..uuids'
  <2>1. \A b \in DOMAIN sessions : sessions[b].uid \in 1..uuids
    BY <1>1 DEF HeldOK
  <2> QED
    BY <1>1, <1>2, <1>5, <2>1
<1>9. StageFor(w, "fill", g)
  BY <1>2, <1>4, <1>5 DEF StageFor, PartPlaces
<1>10. "fill" \in Places /\ Len(sessions) <= Len(sessions') /\ g.bucket <= Len(sessions')
       /\ g.fd <= Len(notes')
  <2>1. sessions' = sessions /\ Len(sessions) <= Len(sessions)
    BY <1>1, <1>2
  <2>2. Opened(Name(w)) <= Len(notes')
    BY <1>4
  <2> QED
    BY <1>2, <1>5, <2>1, <2>2 DEF Places, PartPlaces
<1> QED
  BY <1>1, <1>4, <1>5, <1>6, <1>7, <1>8, <1>9, <1>10, MoveTypes

\* Files are well typed when one note changes.
LEMMA PutTypes ==
    ASSUME FileOK, HeldOK, NEW n \in 1..Len(notes), NEW items, items \in Seq(Item),
           \A k \in DOMAIN items : items[k].uid <= uuids,
           notes' = [notes EXCEPT ![n] = items], UNCHANGED <<uploads, note, data, uuids>>
    PROVE  /\ FileOK' /\ Len(notes') = Len(notes)
           /\ \A m \in DOMAIN notes' : \A k \in DOMAIN notes'[m] : notes'[m][k].uid <= uuids'
<1>1. Item' = Item /\ NoteNames' = NoteNames
  BY DEF Item, NoteNames, Titles, Ids
<1>2. notes \in Seq(Seq(Item)) /\ note \in [NoteNames -> 0..Len(notes)] /\ uuids \in Nat /\ DOMAIN data \subseteq 1..uuids
  BY DEF FileOK
<1>3. notes' \in Seq(Seq(Item)) /\ Len(notes') = Len(notes) /\ DOMAIN notes' = DOMAIN notes
      /\ notes'[n] = items /\ \A m \in DOMAIN notes : m # n => notes'[m] = notes[m]
  BY <1>2
<1>4. FileOK'
  BY <1>1, <1>2, <1>3 DEF FileOK
<1>5. ASSUME NEW m \in DOMAIN notes' PROVE \A k \in DOMAIN notes'[m] : notes'[m][k].uid <= uuids'
  BY <1>3 DEF HeldOK
<1> QED
  BY <1>3, <1>4, <1>5

\* A note with one item more.
LEMMA MoreTypes ==
    ASSUME FileOK, HeldOK, NEW items, items \in Seq(Item),
           \A k \in DOMAIN items : items[k].uid <= uuids,
           NEW h, h \in Item, h.uid <= uuids
    PROVE  /\ Append(items, h) \in Seq(Item)
           /\ \A k \in DOMAIN Append(items, h) : Append(items, h)[k].uid <= uuids
<1>1. PICK r : r = Append(items, h)
  OBVIOUS
<1>2. r \in Seq(Item) /\ Len(r) = Len(items) + 1 /\ r[Len(items) + 1] = h /\ Len(items) \in Nat
      /\ DOMAIN r = 1..Len(r) /\ DOMAIN items = 1..Len(items)
      /\ \A k \in 1..Len(items) : r[k] = items[k]
  BY <1>1
<1>3. ASSUME NEW k \in DOMAIN r PROVE r[k].uid <= uuids
  <2>1. k \in DOMAIN items \/ k = Len(items) + 1
    BY <1>2
  <2> QED
    BY <1>2, <2>1
<1> QED
  BY <1>1, <1>2, <1>3

\* The header of a note.
LEMMA HeaderIs ==
    ASSUME NEW uid, NEW num, NEW fn, NEW fs, uid \in Nat, num \in Nat, fn \in Titles, fs \in Nat
    PROVE  /\ Header(uid, num, fn, fs) \in Item /\ Header(uid, num, fn, fs).uid = uid
           /\ Header(uid, num, fn, fs).num = num /\ Header(uid, num, fn, fs).fn = fn
           /\ Header(uid, num, fn, fs).fs = fs /\ Header(uid, num, fn, fs).len = 470
  BY DEF Header, Item

\* What is written at the place of a note.
Filled(w, items) ==
    LET h == Header(got[w].uid, got[w].num, got[w].fn, got[w].fs)
    IN  IF Kind(w) = "Fei" THEN Append(items, h) ELSE <<h>>

\* What the closing of a new note writes.
LEMMA FillIs ==
    ASSUME ChatTypes, NEW w \in Workers, Fill(w)
    PROVE  /\ got[w].fd \in 1..Len(notes) /\ notes[got[w].fd] \in Seq(Item)
           /\ notes' = [notes EXCEPT ![got[w].fd] = Filled(w, notes[got[w].fd])]
           /\ Filled(w, notes[got[w].fd]) \in Seq(Item)
           /\ \A k \in DOMAIN Filled(w, notes[got[w].fd]) : Filled(w, notes[got[w].fd])[k].uid <= uuids
           /\ Header(got[w].uid, got[w].num, got[w].fn, got[w].fs) \in Item
<1>1. pc[w] = "fill" /\ Busy(w) /\ FileOK /\ HeldOK
  BY DEF ChatTypes, Fill, Busy
<1>2. /\ got[w].uid \in Nat /\ got[w].num \in Nat /\ got[w].fn \in Titles /\ got[w].fs \in Nat
      /\ got[w].fd \in 1..Len(notes) /\ got[w].uid <= uuids
  BY <1>1, HandIs DEF StageFor
<1>3. PICK n : n = got[w].fd
  OBVIOUS
<1>4. notes[n] \in Seq(Item) /\ \A k \in DOMAIN notes[n] : notes[n][k].uid <= uuids
  BY <1>1, <1>2, <1>3, NoteIs
<1>5. PICK h : h = Header(got[w].uid, got[w].num, got[w].fn, got[w].fs)
  OBVIOUS
<1>6. h \in Item /\ h.uid <= uuids
  BY <1>2, <1>5, HeaderIs
<1>7. PICK items : items = notes[n]
  OBVIOUS
<1>8. Filled(w, items) = IF Kind(w) = "Fei" THEN Append(items, h) ELSE <<h>>
  BY <1>5 DEF Filled
<1>9. notes' = [notes EXCEPT ![n] = IF Kind(w) = "Fei" THEN Append(notes[n], h) ELSE <<h>>]
  BY <1>3, <1>5 DEF Fill
<1>10. notes' = [notes EXCEPT ![n] = Filled(w, items)]
  BY <1>7, <1>8, <1>9
<1>11. Filled(w, items) \in Seq(Item) /\ \A k \in DOMAIN Filled(w, items) : Filled(w, items)[k].uid <= uuids
  <2>1. CASE Kind(w) = "Fei"
    BY <1>1, <1>4, <1>6, <1>7, <1>8, <2>1, MoreTypes
  <2>2. CASE Kind(w) # "Fei"
    <3>1. <<h>> \in Seq(Item) /\ DOMAIN <<h>> = 1..1 /\ <<h>>[1] = h
      BY <1>6
    <3> QED
      BY <1>6, <1>8, <2>2, <3>1
  <2> QED
    BY <2>1, <2>2
<1> QED
  BY <1>2, <1>3, <1>4, <1>5, <1>6, <1>7, <1>10, <1>11

\* Types are kept by it.
LEMMA FillTypes == ASSUME ChatTypes, NEW w \in Workers, Fill(w) PROVE ChatTypes'
<1>1. /\ planVars' = planVars /\ UNCHANGED <<uploads, note, data, uuids>> /\ pc[w] = "fill" /\ Busy(w)
      /\ UNCHANGED <<uploads, histVars>> /\ UNCHANGED <<uploads, sessionVars>>
      /\ UNCHANGED <<tbl, sessions, freed>> /\ GoWith(w, "write", got[w])
      /\ SessionOK /\ HistOK /\ FileOK /\ HeldOK
  BY DEF ChatTypes, Fill, Busy, planVars, sessionVars, Goto
<1>2. /\ got[w] \in Locals /\ got[w].flen = 0 /\ got[w].uid # 0
      /\ got[w].uid <= uuids /\ got[w].fd <= Len(notes) /\ got[w].bucket <= Len(sessions)
      /\ Kind(w) \in Noted
      /\ Number(w) \in 1..Count(Upload(w)) /\ Len(notes) \in Nat /\ uuids \in Nat /\ Len(sessions) \in Nat
  BY <1>1, HandIs DEF StageFor, PartPlaces
<1>3. /\ FileOK' /\ Len(notes') = Len(notes)
      /\ \A m \in DOMAIN notes' : \A k \in DOMAIN notes'[m] : notes'[m][k].uid <= uuids'
  BY <1>1, FillIs, PutTypes
<1>4. SessionOK' /\ HistOK'
  BY <1>1, SessionStays, HistStays
<1>5. \A b \in DOMAIN sessions' : sessions'[b].uid \in 1..uuids'
  BY <1>1 DEF HeldOK
<1>6. StageFor(w, "write", got[w]) /\ "write" \in Places
  BY <1>2 DEF StageFor, PartPlaces, Places
<1>7. Len(notes) <= Len(notes') /\ uuids <= uuids' /\ Len(sessions) <= Len(sessions')
      /\ got[w].fd <= Len(notes') /\ got[w].uid <= uuids' /\ got[w].bucket <= Len(sessions')
  BY <1>1, <1>2, <1>3
<1> QED
  BY <1>1, <1>2, <1>3, <1>4, <1>5, <1>6, <1>7, MoveTypes

\* The length of a note.
LEMMA LengthNat == ASSUME NEW items, items \in Seq(Item) PROVE LengthOf(items) \in Nat
<1>1. PICK s : s = [k \in DOMAIN items |-> items[k].len]
  OBVIOUS
<1>2. DOMAIN items = 1..Len(items) /\ Len(items) \in Nat /\ \A k \in 1..Len(items) : items[k] \in Item
  OBVIOUS
<1>3. \A h \in Item : h.len \in Nat
  BY DEF Item
<1>4. s \in Seq(Nat)
  BY <1>1, <1>2, <1>3
<1> QED
  BY <1>1, <1>4, SumNat DEF LengthOf

\* They are when an old note is opened.
LEMMA ReopenTypes == ASSUME ChatTypes, NEW w \in Workers, Reopen(w) PROVE ChatTypes'
<1>1. /\ planVars' = planVars /\ pc[w] = "reopen" /\ Busy(w)
      /\ uploads' = uploads /\ data' = data /\ uuids' = uuids
      /\ UNCHANGED <<uploads, histVars>> /\ UNCHANGED <<uploads, sessionVars>>
      /\ UNCHANGED <<tbl, sessions, freed>> /\ UNCHANGED sessionVars
      /\ SessionOK /\ HistOK /\ FileOK /\ HeldOK
  BY DEF ChatTypes, Reopen, Busy, planVars, sessionVars
<1>2. /\ got[w] \in Locals /\ got[w].flen = 0
      /\ got[w].uid <= uuids /\ got[w].fd <= Len(notes) /\ got[w].bucket <= Len(sessions)
      /\ Kind(w) \in {"Fei", "Fei5"} /\ Name(w) \in NoteNames
      /\ Number(w) \in 1..Count(Upload(w)) /\ Len(notes) \in Nat /\ uuids \in Nat /\ Len(sessions) \in Nat
  BY <1>1, HandIs DEF StageFor, PartPlaces
<1>3. CASE Kind(w) = "Fei"
  <2>1. PICK emptied \in BOOLEAN :
           emptied = FALSE /\ OpenNote(w, emptied) /\ GoWith(w, "count", Reopened(w))
    BY <1>3 DEF Reopen
  <2>2. /\ Len(notes) <= Len(notes') /\ Opened(Name(w)) \in 1..Len(notes')
        /\ Opened(Name(w)) \in Nat \ {0} /\ Len(notes') \in Nat
    BY <1>1, <1>2, <2>1, OpenIs
  <2>3. FileOK' /\ \A n \in DOMAIN notes' : \A k \in DOMAIN notes'[n] : notes'[n][k].uid <= uuids'
    BY <1>1, <1>2, <2>1, OpenTypes
  <2>4. SessionOK' /\ HistOK'
    BY <1>1, SessionStays, HistStays
  <2>5. \A b \in DOMAIN sessions' : sessions'[b].uid \in 1..uuids'
    BY <1>1 DEF HeldOK
  <2>6. PICK g, flen, fd : /\ g = Reopened(w) /\ fd = Opened(Name(w))
                           /\ flen = IF Marked(w) THEN LengthOf(Items(w)) + 1 ELSE 0
    OBVIOUS
  <2>7. flen \in Nat
    BY <1>1, <1>2, <2>6, ItemsIs, LengthNat
  <2>8. g \in Locals /\ g.uid = got[w].uid /\ g.bucket = got[w].bucket /\ g.fd = fd
    <3>1. g = [got[w] EXCEPT !.fd = fd, !.flen = flen]
      BY <2>6 DEF Reopened
    <3> QED
      BY <1>2, <2>2, <2>6, <2>7, <3>1 DEF Locals
  <2>9. StageFor(w, "count", g) /\ "count" \in Places
    BY <1>2, <1>3, <2>2, <2>6, <2>8 DEF StageFor, PartPlaces, Places
  <2>10. uuids <= uuids' /\ Len(sessions) <= Len(sessions')
        /\ g.fd <= Len(notes') /\ g.uid <= uuids' /\ g.bucket <= Len(sessions')
    BY <1>1, <1>2, <2>2, <2>6, <2>8
  <2> QED
    BY <1>1, <1>2, <2>1, <2>2, <2>3, <2>4, <2>5, <2>6, <2>8, <2>9, <2>10, MoveTypes
<1>4. CASE Kind(w) = "Fei5"
  <2>1. UNCHANGED <<planVars, fileVars, sessionVars>> /\ HistOK'
    BY <1>1, <1>4, HistStays DEF Reopen, fileVars
  <2>2. CASE note[Name(w)] = 0
    <3>1. GoWith(w, "idle", got[w])
      BY <1>4, <2>2 DEF Reopen, Leave, Goto
    <3>2. StageFor(w, "idle", got[w]) /\ "idle" \in Places
      BY DEF StageFor, PartPlaces, Places
    <3> QED
      BY <1>1, <1>2, <2>1, <3>1, <3>2, MoveOnlyTypes
  <2>3. CASE note[Name(w)] # 0
    <3>1. PICK h, x, g : h = Read(Items(w)) /\ x = h.uid /\ g = [got[w] EXCEPT !.uid = x]
      OBVIOUS
    <3>2. h \in Item /\ x <= uuids
      BY <1>1, <1>2, <3>1, ItemsIs
    <3>3. GoWith(w, "rewrite", g)
      BY <1>4, <2>3, <3>1 DEF Reopen
    <3>4. x \in Nat
      BY <3>1, <3>2 DEF Item
    <3>5. g \in Locals /\ g.uid = x /\ g.fd = got[w].fd /\ g.bucket = got[w].bucket
      BY <1>2, <3>1, <3>4 DEF Locals
    <3>6. StageFor(w, "rewrite", g) /\ "rewrite" \in Places
      BY <1>2 DEF StageFor, PartPlaces, Places, Noted
    <3> QED
      BY <1>1, <1>2, <2>1, <3>2, <3>3, <3>5, <3>6, MoveOnlyTypes
  <2> QED
    BY <2>2, <2>3
<1> QED
  BY <1>2, <1>3, <1>4

\* The note of a block that ends.
Counted(w, items) == IF Marked(w) THEN Append(items, One) ELSE items

\* What the counting of a block writes.
LEMMA CountIs ==
    ASSUME ChatTypes, NEW w \in Workers, CountBlock(w)
    PROVE  /\ got[w].fd \in 1..Len(notes) /\ notes[got[w].fd] \in Seq(Item)
           /\ notes' = [notes EXCEPT ![got[w].fd] = Counted(w, notes[got[w].fd])]
           /\ notes'[got[w].fd] = Counted(w, notes[got[w].fd])
           /\ Counted(w, notes[got[w].fd]) \in Seq(Item)
           /\ \A k \in DOMAIN Counted(w, notes[got[w].fd]) : Counted(w, notes[got[w].fd])[k].uid <= uuids
<1>1. pc[w] = "count" /\ Busy(w) /\ FileOK /\ HeldOK /\ uuids \in Nat /\ notes \in Seq(Seq(Item))
  BY DEF ChatTypes, CountBlock, Busy, FileOK
<1>2. got[w].fd \in 1..Len(notes)
  BY <1>1, HandIs DEF StageFor
<1>3. PICK n, items : n = got[w].fd /\ items = notes[n]
  OBVIOUS
<1>4. items \in Seq(Item) /\ \A k \in DOMAIN items : items[k].uid <= uuids
  BY <1>1, <1>2, <1>3, NoteIs
<1>5. notes' = [notes EXCEPT ![n] = Counted(w, items)]
  BY <1>3 DEF CountBlock, Counted
<1>6. Counted(w, items) \in Seq(Item) /\ \A k \in DOMAIN Counted(w, items) : Counted(w, items)[k].uid <= uuids
  BY <1>1, <1>4, OneIs, MoreTypes DEF Counted
<1>7. notes'[n] = Counted(w, items)
  BY <1>1, <1>2, <1>3, <1>5
<1> QED
  BY <1>2, <1>3, <1>4, <1>5, <1>6, <1>7

\* Types are kept by it.
LEMMA CountBlockTypes == ASSUME ChatTypes, NEW w \in Workers, CountBlock(w) PROVE ChatTypes'
<1>1. /\ planVars' = planVars /\ UNCHANGED <<uploads, note, data, uuids>> /\ pc[w] = "count" /\ Busy(w)
      /\ UNCHANGED <<uploads, histVars>> /\ UNCHANGED <<uploads, sessionVars>>
      /\ UNCHANGED <<tbl, sessions, freed>>
      /\ SessionOK /\ HistOK /\ FileOK /\ HeldOK
  BY DEF ChatTypes, CountBlock, Busy, planVars, sessionVars
<1>2. /\ got[w] \in Locals
      /\ got[w].uid <= uuids /\ got[w].fd <= Len(notes) /\ got[w].bucket <= Len(sessions)
      /\ Kind(w) = "Fei"
      /\ Number(w) \in 1..Count(Upload(w)) /\ Len(notes) \in Nat /\ uuids \in Nat /\ Len(sessions) \in Nat
  BY <1>1, HandIs DEF StageFor, PartPlaces
<1>3. /\ FileOK' /\ Len(notes') = Len(notes)
      /\ \A m \in DOMAIN notes' : \A k \in DOMAIN notes'[m] : notes'[m][k].uid <= uuids'
  BY <1>1, CountIs, PutTypes
<1>4. SessionOK' /\ HistOK'
  BY <1>1, SessionStays, HistStays
<1>5. \A b \in DOMAIN sessions' : sessions'[b].uid \in 1..uuids'
  BY <1>1 DEF HeldOK
<1>6. PICK h, g : h = Read(notes'[got[w].fd]) /\ g = [got[w] EXCEPT !.uid = h.uid, !.num = h.num]
  OBVIOUS
<1>7. h \in Item /\ h.uid <= uuids
  <2>1. PICK items : items = notes'[got[w].fd]
    OBVIOUS
  <2>2. items \in Seq(Item) /\ \A k \in DOMAIN items : items[k].uid <= uuids
    BY <2>1, CountIs
  <2> QED
    BY <1>1, <1>6, <2>1, <2>2, ReadIs
<1>8. g \in Locals /\ g.uid = h.uid /\ g.fd = got[w].fd /\ g.bucket = got[w].bucket
  <2>1. h.uid \in Nat /\ h.num \in Nat /\ g = [got[w] EXCEPT !.uid = h.uid, !.num = h.num]
    BY <1>6, <1>7 DEF Item
  <2>2. got[w] \in Locals
    BY <1>2
  <2> QED
    BY <2>1, <2>2 DEF Locals
<1>9. GoWith(w, "rewrite", g)
  BY <1>6 DEF CountBlock
<1>10. StageFor(w, "rewrite", g) /\ "rewrite" \in Places
  BY <1>2 DEF StageFor, PartPlaces, Places, Noted
<1>11. Len(notes) <= Len(notes') /\ uuids <= uuids' /\ Len(sessions) <= Len(sessions')
      /\ g.fd <= Len(notes') /\ g.uid <= uuids' /\ g.bucket <= Len(sessions')
  BY <1>1, <1>2, <1>3, <1>7, <1>8
<1> QED
  BY <1>1, <1>3, <1>4, <1>5, <1>8, <1>9, <1>10, <1>11, MoveTypes

\* What a step keeps when only data changes.
LEMMA DataTypes ==
    ASSUME FileOK, HeldOK, UNCHANGED <<uploads, note, notes>>, uuids' \in Nat, uuids <= uuids',
           DOMAIN data' \subseteq 1..uuids'
    PROVE  /\ FileOK' /\ Len(notes) <= Len(notes')
           /\ \A n \in DOMAIN notes' : \A k \in DOMAIN notes'[n] : notes'[n][k].uid <= uuids'
<1>1. Item' = Item /\ NoteNames' = NoteNames
  BY DEF Item, NoteNames, Titles, Ids
<1>2. notes \in Seq(Seq(Item)) /\ Len(notes) \in Nat /\ uuids \in Nat
  BY DEF FileOK
<1>3. FileOK'
  BY <1>1 DEF FileOK
<1>4. ASSUME NEW n \in DOMAIN notes, NEW k \in DOMAIN notes[n] PROVE notes[n][k].uid <= uuids'
  <2>1. notes[n][k] \in Item /\ notes[n][k].uid <= uuids
    BY <1>2 DEF HeldOK
  <2>2. PICK a : a = notes[n][k].uid
    OBVIOUS
  <2>3. a \in Nat /\ a <= uuids
    BY <2>1, <2>2 DEF Item
  <2> QED
    BY <1>2, <2>2, <2>3
<1> QED
  BY <1>2, <1>3, <1>4

\* The same for what is known of the sessions.
LEMMA SessionsHeld ==
    ASSUME FileOK, HeldOK, SessionOK, sessions' = sessions, uuids' \in Nat, uuids <= uuids'
    PROVE  /\ Len(sessions) <= Len(sessions')
           /\ \A b \in DOMAIN sessions' : sessions'[b].uid \in 1..uuids'
<1>1. sessions \in Seq(Record) /\ Len(sessions) \in Nat /\ uuids \in Nat
  BY DEF SessionOK, FileOK
<1>2. \A b \in DOMAIN sessions : sessions[b].uid \in 1..uuids
  BY DEF HeldOK
<1> QED
  BY <1>1, <1>2

\* What a part tells of its file.
LEMMA FirstInfIs ==
    ASSUME ChatTypes, NEW w \in Workers, Busy(w), pc[w] = "write"
    PROVE  /\ FirstInf(w) \in Locals
           /\ FirstInf(w).uid = got[w].uid /\ FirstInf(w).num = got[w].num
           /\ FirstInf(w).flen = got[w].flen /\ FirstInf(w).fd = got[w].fd
           /\ FirstInf(w).bucket = got[w].bucket
           /\ FirstInf(w).fn = IF Kind(w) = "Fei" THEN got[w].fn ELSE uploads[Upload(w)].name
           /\ FirstInf(w).fs = IF Kind(w) = "Fei" THEN got[w].fs
                               ELSE IF Kind(w) \in {"GOS", "Yahoo"} THEN Length(w) ELSE Size(Upload(w))
<1>1. got[w] \in Locals /\ Upload(w) \in Ids /\ Number(w) \in 1..Count(Upload(w)) /\ uploads \in Plans
  BY HandIs DEF StageFor, PartPlaces, ChatTypes, PlanOK
<1>2. Length(w) \in Nat /\ Size(Upload(w)) \in Nat /\ uploads[Upload(w)].name \in Titles
  BY <1>1, UploadIs, OffsetIs DEF Length, Titles
<1>3. CASE Kind(w) = "Fei"
  BY <1>1, <1>3 DEF FirstInf
<1>4. CASE Kind(w) # "Fei"
  <2>1. PICK fn, fs : /\ fn = uploads[Upload(w)].name
                      /\ fs = IF Kind(w) \in {"GOS", "Yahoo"} THEN Length(w) ELSE Size(Upload(w))
    OBVIOUS
  <2>2. FirstInf(w) = [got[w] EXCEPT !.fn = fn, !.fs = fs]
    BY <1>4, <2>1 DEF FirstInf
  <2>3. fn \in Titles /\ fs \in Nat
    BY <1>2, <2>1
  <2>4. PICK g : g = FirstInf(w)
    OBVIOUS
  <2>5. /\ g \in Locals /\ g.uid = got[w].uid /\ g.num = got[w].num /\ g.flen = got[w].flen
        /\ g.fd = got[w].fd /\ g.bucket = got[w].bucket /\ g.fn = fn /\ g.fs = fs
    BY <1>1, <2>2, <2>3, <2>4 DEF Locals
  <2> QED
    BY <1>4, <2>1, <2>4, <2>5
<1> QED
  BY <1>3, <1>4

\* Types are kept when a first part is written.
LEMMA WriteFirstTypes == ASSUME ChatTypes, NEW w \in Workers, WriteFirst(w) PROVE ChatTypes'
<1>1. /\ planVars' = planVars /\ UNCHANGED <<uploads, note, notes>> /\ pc[w] = "write" /\ Busy(w)
      /\ uploads' = uploads /\ uuids' = uuids /\ announced' = announced
      /\ UNCHANGED <<uploads, sessionVars>> /\ sessions' = sessions
      /\ SessionOK /\ HistOK /\ FileOK /\ HeldOK
  BY DEF ChatTypes, WriteFirst, Busy, planVars, sessionVars
<1>2. /\ got[w].uid <= uuids /\ got[w].fd <= Len(notes) /\ got[w].bucket <= Len(sessions)
      /\ Upload(w) \in Ids /\ got[w].uid \in Nat /\ got[w].uid # 0
      /\ Number(w) \in 1..Count(Upload(w)) /\ Len(notes) \in Nat /\ uuids \in Nat /\ Len(sessions) \in Nat
  BY <1>1, HandIs DEF StageFor, PartPlaces
<1>3. PICK place \in {"tell", "idle"} : GoWith(w, place, FirstInf(w))
  BY DEF WriteFirst
<1>4. DOMAIN data' \subseteq 1..uuids'
  <2>1. DOMAIN data \subseteq 1..uuids /\ got[w].uid \in 1..uuids
    BY <1>1, <1>2 DEF FileOK
  <2>2. data' = FirstData(w) \/ data' = data
    BY DEF WriteFirst
  <2>3. DOMAIN FirstData(w) = DOMAIN data \cup {got[w].uid}
    BY DEF FirstData, With
  <2> QED
    BY <1>1, <2>1, <2>2, <2>3
<1>5. HistOK'
  <2>1. CASE UNCHANGED <<faults, disturbed>>
    BY <1>1, <2>1, HistStays DEF histVars
  <2>2. CASE Failure("body", Upload(w))
    BY <1>1, <1>2, <2>2, FailureTypes
  <2> QED
    BY <2>1, <2>2 DEF WriteFirst
<1>6. SessionOK'
  BY <1>1, SessionStays
<1>7. StageFor(w, place, FirstInf(w)) /\ place \in Places
  BY <1>2 DEF StageFor, PartPlaces, Places
<1>8. uuids <= uuids' /\ uuids' \in Nat
  BY <1>1, <1>2
<1>9. FirstInf(w) \in Locals /\ FirstInf(w).fd <= Len(notes') /\ FirstInf(w).uid <= uuids'
      /\ FirstInf(w).bucket <= Len(sessions')
  BY <1>1, <1>2, FirstInfIs
<1>10. /\ FileOK' /\ Len(notes) <= Len(notes')
       /\ \A n \in DOMAIN notes' : \A k \in DOMAIN notes'[n] : notes'[n][k].uid <= uuids'
  BY <1>1, <1>4, <1>8, DataTypes
<1>11. /\ Len(sessions) <= Len(sessions')
       /\ \A b \in DOMAIN sessions' : sessions'[b].uid \in 1..uuids'
  BY <1>1, <1>8, SessionsHeld
<1> QED
  BY <1>1, <1>3, <1>5, <1>6, <1>7, <1>8, <1>9, <1>10, <1>11, MoveTypes

\* When another part is written.
LEMMA WriteNextTypes == ASSUME ChatTypes, NEW w \in Workers, WriteNext(w) PROVE ChatTypes'
<1>1. /\ planVars' = planVars /\ UNCHANGED <<uploads, note, notes>> /\ pc[w] = "rewrite" /\ Busy(w)
      /\ uploads' = uploads /\ uuids' = uuids /\ announced' = announced
      /\ UNCHANGED <<uploads, sessionVars>> /\ sessions' = sessions
      /\ SessionOK /\ HistOK /\ FileOK /\ HeldOK
  BY DEF ChatTypes, WriteNext, Busy, planVars, sessionVars
<1>2. /\ got[w].uid <= uuids /\ got[w].fd <= Len(notes) /\ got[w].bucket <= Len(sessions)
      /\ Upload(w) \in Ids /\ Kind(w) \in Noted /\ got[w] \in Locals
      /\ Number(w) \in 1..Count(Upload(w)) /\ Len(notes) \in Nat /\ uuids \in Nat /\ Len(sessions) \in Nat
  BY <1>1, HandIs DEF StageFor, PartPlaces
<1>3. PICK place \in {"reread", "idle"} : GoWith(w, place, got[w])
  BY DEF WriteNext, Goto
<1>4. DOMAIN data' \subseteq 1..uuids'
  <2>1. DOMAIN data \subseteq 1..uuids
    BY <1>1 DEF FileOK
  <2>2. data' = NextData(w) \/ data' = data
    BY DEF WriteNext
  <2>3. DOMAIN NextData(w) = DOMAIN data
    BY DEF NextData
  <2> QED
    BY <1>1, <2>1, <2>2, <2>3
<1>5. HistOK'
  <2>1. CASE UNCHANGED <<faults, disturbed>>
    BY <1>1, <2>1, HistStays DEF histVars
  <2>2. CASE Failure("body", Upload(w))
    BY <1>1, <1>2, <2>2, FailureTypes
  <2> QED
    BY <2>1, <2>2 DEF WriteNext
<1>6. SessionOK'
  BY <1>1, SessionStays
<1>7. StageFor(w, place, got[w]) /\ place \in Places
  BY <1>2 DEF StageFor, PartPlaces, Places
<1>8. uuids <= uuids' /\ uuids' \in Nat
  BY <1>1, <1>2
<1>9. got[w].fd <= Len(notes') /\ got[w].uid <= uuids' /\ got[w].bucket <= Len(sessions')
  BY <1>1, <1>2
<1>10. /\ FileOK' /\ Len(notes) <= Len(notes')
       /\ \A n \in DOMAIN notes' : \A k \in DOMAIN notes'[n] : notes'[n][k].uid <= uuids'
  BY <1>1, <1>4, <1>8, DataTypes
<1>11. /\ Len(sessions) <= Len(sessions')
       /\ \A b \in DOMAIN sessions' : sessions'[b].uid \in 1..uuids'
  BY <1>1, <1>8, SessionsHeld
<1> QED
  BY <1>1, <1>2, <1>3, <1>5, <1>6, <1>7, <1>8, <1>9, <1>10, <1>11, MoveTypes

\* When a POST is a file.
LEMMA WholeFileTypes == ASSUME ChatTypes, NEW w \in Workers, WholeFile(w) PROVE ChatTypes'
<1>1. /\ planVars' = planVars /\ UNCHANGED <<uploads, note, notes>> /\ pc[w] = "whole" /\ Busy(w)
      /\ uploads' = uploads /\ uuids' = uuids + 1 /\ UNCHANGED <<uploads, histVars>> /\ data' = data
      /\ UNCHANGED <<uploads, sessionVars>> /\ sessions' = sessions
      /\ SessionOK /\ HistOK /\ FileOK /\ HeldOK
  BY DEF ChatTypes, WholeFile, Busy, planVars, sessionVars
<1>2. /\ got[w] = Nothing /\ Kind(w) = "Yahoo" /\ got[w] \in Locals
      /\ Number(w) \in 1..Count(Upload(w)) /\ Len(notes) \in Nat /\ uuids \in Nat /\ Len(sessions) \in Nat
  BY <1>1, HandIs DEF StageFor, PartPlaces
<1>3. PICK g : g = [got[w] EXCEPT !.uid = uuids'] /\ GoWith(w, "write", g)
  BY DEF WholeFile
<1>4. uuids' \in Nat /\ uuids <= uuids' /\ uuids' # 0 /\ 0 <= Len(notes) /\ 0 <= Len(sessions)
  BY <1>1, <1>2
<1>5. g \in Locals /\ g.uid = uuids' /\ g.fd = 0 /\ g.bucket = 0 /\ g.flen = 0
  BY <1>2, <1>3, <1>4, NothingIs DEF Locals
<1>6. StageFor(w, "write", g) /\ "write" \in Places
  BY <1>2, <1>4, <1>5 DEF StageFor, PartPlaces, Places
<1>7. DOMAIN data' \subseteq 1..uuids'
  BY <1>1, <1>2, <1>4 DEF FileOK
<1>8. SessionOK' /\ HistOK'
  BY <1>1, SessionStays, HistStays
<1>9. /\ FileOK' /\ Len(notes) <= Len(notes')
       /\ \A n \in DOMAIN notes' : \A k \in DOMAIN notes'[n] : notes'[n][k].uid <= uuids'
  BY <1>1, <1>4, <1>7, DataTypes
<1>10. /\ Len(sessions) <= Len(sessions')
       /\ \A b \in DOMAIN sessions' : sessions'[b].uid \in 1..uuids'
  BY <1>1, <1>4, SessionsHeld
<1>11. g.fd <= Len(notes') /\ g.uid <= uuids' /\ g.bucket <= Len(sessions')
  BY <1>1, <1>2, <1>4, <1>5
<1> QED
  BY <1>1, <1>3, <1>4, <1>5, <1>6, <1>8, <1>9, <1>10, <1>11, MoveTypes

\* When a POST is a text.
LEMMA BlogTypes == ASSUME ChatTypes, NEW w \in Workers, Blog(w) PROVE ChatTypes'
<1>1. /\ planVars' = planVars /\ UNCHANGED <<uploads, note, notes>> /\ pc[w] = "blog" /\ Busy(w)
      /\ uploads' = uploads /\ uuids' = uuids + 1 /\ announced' = announced
      /\ UNCHANGED <<uploads, sessionVars>> /\ sessions' = sessions
      /\ SessionOK /\ HistOK /\ FileOK /\ HeldOK
  BY DEF ChatTypes, Blog, Busy, planVars, sessionVars
<1>2. /\ got[w] = Nothing /\ got[w] \in Locals /\ Upload(w) \in Ids
      /\ Number(w) \in 1..Count(Upload(w)) /\ Len(notes) \in Nat /\ uuids \in Nat /\ Len(sessions) \in Nat
  BY <1>1, HandIs DEF StageFor, PartPlaces
<1>3. uuids' \in Nat /\ uuids <= uuids' /\ uuids' # 0 /\ 0 <= Len(notes) /\ 0 <= Len(sessions)
  BY <1>1, <1>2
<1>4. PICK place, g : /\ place \in {"tell", "idle"} /\ GoWith(w, place, g)
                      /\ g = got[w] \/ g = [got[w] EXCEPT !.uid = uuids']
  BY DEF Blog, Leave, Goto
<1>5. g \in Locals /\ g.uid <= uuids' /\ g.fd = 0 /\ g.bucket = 0
  <2>1. CASE g = got[w]
    BY <1>2, <1>3, <2>1, NothingIs
  <2>2. CASE g = [got[w] EXCEPT !.uid = uuids']
    <3>1. g \in Locals /\ g.uid = uuids' /\ g.fd = got[w].fd /\ g.bucket = got[w].bucket
      BY <1>2, <1>3, <2>2 DEF Locals
    <3> QED
      BY <1>2, <1>3, <3>1, NothingIs
  <2> QED
    BY <1>4, <2>1, <2>2
<1>6. StageFor(w, place, g) /\ place \in Places
  BY <1>2, <1>4 DEF StageFor, PartPlaces, Places
<1>7. DOMAIN data' \subseteq 1..uuids'
  <2>1. DOMAIN data \subseteq 1..uuids /\ uuids' \in 1..uuids'
    BY <1>1, <1>3 DEF FileOK
  <2>2. data' = data \/ data' = With(data, uuids', Units(Upload(w), 1))
    BY DEF Blog
  <2>3. DOMAIN With(data, uuids', Units(Upload(w), 1)) = DOMAIN data \cup {uuids'}
    BY DEF With
  <2> QED
    BY <1>2, <1>3, <2>1, <2>2, <2>3
<1>8. SessionOK' /\ HistOK'
  <2>1. CASE UNCHANGED <<faults, disturbed>>
    BY <1>1, <2>1, HistStays, SessionStays DEF histVars
  <2>2. CASE Failure("body", Upload(w))
    BY <1>1, <1>2, <2>2, FailureTypes, SessionStays
  <2> QED
    BY <2>1, <2>2 DEF Blog
<1>9. /\ FileOK' /\ Len(notes) <= Len(notes')
       /\ \A n \in DOMAIN notes' : \A k \in DOMAIN notes'[n] : notes'[n][k].uid <= uuids'
  BY <1>1, <1>3, <1>7, DataTypes
<1>10. /\ Len(sessions) <= Len(sessions')
       /\ \A b \in DOMAIN sessions' : sessions'[b].uid \in 1..uuids'
  BY <1>1, <1>3, SessionsHeld
<1>11. g.fd <= Len(notes') /\ g.uid <= uuids' /\ g.bucket <= Len(sessions')
  BY <1>1, <1>2, <1>3, <1>5
<1> QED
  BY <1>1, <1>3, <1>4, <1>5, <1>6, <1>8, <1>9, <1>10, <1>11, MoveTypes

\* When the note is read once more.
LEMMA RereadTypes == ASSUME ChatTypes, NEW w \in Workers, Reread(w) PROVE ChatTypes'
<1>1. /\ UNCHANGED <<planVars, fileVars, sessionVars>> /\ pc[w] = "reread" /\ Busy(w)
      /\ UNCHANGED <<uploads, histVars>> /\ HistOK /\ FileOK /\ HeldOK /\ PlanOK
  BY DEF ChatTypes, Reread, Busy, planVars
<1>2. /\ got[w] \in Locals /\ Upload(w) \in Ids /\ Name(w) \in NoteNames /\ Kind(w) \in Noted
      /\ got[w].uid <= uuids /\ got[w].fd <= Len(notes) /\ got[w].bucket <= Len(sessions)
      /\ Number(w) \in 1..Count(Upload(w))
  BY <1>1, HandIs DEF StageFor, PartPlaces
<1>3. PICK h, fn, fs, g :
         /\ h = Read(Items(w))
         /\ fn = IF Kind(w) = "Fei" THEN h.fn ELSE uploads[Upload(w)].name
         /\ fs = IF Kind(w) = "Fei" THEN h.fs ELSE Size(Upload(w))
         /\ g = [got[w] EXCEPT !.fn = fn, !.fs = fs]
  OBVIOUS
<1>4. PICK place : place = IF note[Name(w)] = 0 /\ Kind(w) # "Fei5" THEN "idle" ELSE "tell"
  OBVIOUS
<1>5. GoWith(w, place, g)
  BY <1>3, <1>4 DEF Reread
<1>6. fn \in Titles /\ fs \in Nat
  <2>1. h \in Item
    BY <1>1, <1>2, <1>3, ItemsIs
  <2>2. Size(Upload(w)) \in Nat /\ uploads[Upload(w)].name \in Titles
    BY <1>1, <1>2, OffsetIs DEF PlanOK, Titles
  <2> QED
    BY <1>3, <2>1, <2>2 DEF Item
<1>7. g \in Locals /\ g.uid = got[w].uid /\ g.fd = got[w].fd /\ g.bucket = got[w].bucket
  <2>1. got[w] \in Locals /\ g = [got[w] EXCEPT !.fn = fn, !.fs = fs]
    BY <1>2, <1>3
  <2> QED
    BY <1>6, <2>1 DEF Locals
<1>8. StageFor(w, place, g) /\ place \in Places
  BY <1>2, <1>4 DEF StageFor, PartPlaces, Places
<1>9. HistOK'
  BY <1>1, HistStays
<1> QED
  BY <1>1, <1>2, <1>5, <1>7, <1>8, <1>9, MoveOnlyTypes

\* When a file is announced.
LEMMA TellTypes == ASSUME ChatTypes, NEW w \in Workers, Tell(w) PROVE ChatTypes'
<1>1. /\ UNCHANGED <<planVars, fileVars, sessionVars>> /\ pc[w] = "tell" /\ Busy(w)
      /\ uploads' = uploads /\ HistOK
  BY DEF ChatTypes, Tell, Busy, planVars
<1>2. /\ got[w] \in Locals /\ Upload(w) \in Ids /\ Kind(w) \in Kinds
      /\ got[w].uid \in Nat /\ got[w].fn \in Titles /\ got[w].fs \in Nat
      /\ got[w].uid <= uuids /\ got[w].fd <= Len(notes) /\ got[w].bucket <= Len(sessions)
      /\ Number(w) \in 1..Count(Upload(w))
  BY <1>1, HandIs DEF StageFor, PartPlaces
<1>3. PICK place : place = IF Kind(w) \in Single THEN "idle" ELSE "remove"
  OBVIOUS
<1>4. GoWith(w, place, got[w])
  BY <1>3 DEF Tell, Goto
<1>5. StageFor(w, place, got[w]) /\ place \in Places
  BY <1>2, <1>3 DEF StageFor, PartPlaces, Places, Kinds
<1>6. HistOK'
  <2>1. CASE Failure("memory", Upload(w)) /\ UNCHANGED announced
    BY <1>1, <1>2, <2>1, FailureTypes
  <2>2. ASSUME announced' = Append(announced, [upload |-> Upload(w), uid |-> got[w].uid,
                                               fn |-> got[w].fn, fs |-> got[w].fs,
                                               counted |-> got[w].flen # 0]),
               UNCHANGED <<faults, disturbed>>
        PROVE HistOK'
    <3>1. Report' = Report /\ Ids' = Ids
      BY <1>1 DEF Report, Titles, Ids
    <3>2. PICK r : r = [upload |-> Upload(w), uid |-> got[w].uid, fn |-> got[w].fn, fs |-> got[w].fs,
                        counted |-> got[w].flen # 0]
      OBVIOUS
    <3>3. r \in Report
      BY <1>2, <3>2 DEF Report
    <3>4. announced' = Append(announced, r) /\ announced \in Seq(Report)
      BY <1>1, <2>2, <3>2 DEF HistOK
    <3>5. announced' \in Seq(Report)
      BY <3>3, <3>4
    <3> QED
      BY <1>1, <2>2, <3>1, <3>5 DEF HistOK
  <2> QED
    BY <2>1, <2>2 DEF Tell
<1> QED
  BY <1>1, <1>2, <1>4, <1>5, <1>6, MoveOnlyTypes

\* When a note is removed.
LEMMA RemoveNoteTypes == ASSUME ChatTypes, NEW w \in Workers, RemoveNote(w) PROVE ChatTypes'
<1>1. /\ planVars' = planVars /\ UNCHANGED <<notes, data, uuids>> /\ pc[w] = "remove" /\ Busy(w)
      /\ uploads' = uploads /\ note' = [note EXCEPT ![Name(w)] = 0]
      /\ UNCHANGED <<uploads, histVars>> /\ UNCHANGED <<uploads, sessionVars>> /\ sessions' = sessions
      /\ SessionOK /\ HistOK /\ FileOK /\ HeldOK
  BY DEF ChatTypes, RemoveNote, Busy, planVars, sessionVars
<1>2. /\ got[w] \in Locals /\ Name(w) \in NoteNames
      /\ got[w].uid <= uuids /\ got[w].fd <= Len(notes) /\ got[w].bucket <= Len(sessions)
      /\ Len(notes) \in Nat /\ uuids \in Nat /\ Len(sessions) \in Nat
  BY <1>1, HandIs
<1>3. GoWith(w, "idle", got[w]) /\ StageFor(w, "idle", got[w]) /\ "idle" \in Places
  BY DEF RemoveNote, Leave, Goto, StageFor, PartPlaces, Places
<1>4. FileOK'
  <2>1. Item' = Item /\ NoteNames' = NoteNames
    BY <1>1 DEF Item, NoteNames, Titles, Ids
  <2> QED
    BY <1>1, <1>2, <2>1 DEF FileOK
<1>5. SessionOK' /\ HistOK'
  BY <1>1, SessionStays, HistStays
<1>6. /\ Len(notes) <= Len(notes') /\ uuids <= uuids' /\ uuids' \in Nat
      /\ got[w].fd <= Len(notes') /\ got[w].uid <= uuids' /\ got[w].bucket <= Len(sessions')
      /\ \A n \in DOMAIN notes' : \A k \in DOMAIN notes'[n] : notes'[n][k].uid <= uuids'
  BY <1>1, <1>2 DEF HeldOK
<1>7. /\ Len(sessions) <= Len(sessions')
      /\ \A b \in DOMAIN sessions' : sessions'[b].uid \in 1..uuids'
  BY <1>1, <1>6, SessionsHeld
<1> QED
  BY <1>1, <1>2, <1>3, <1>4, <1>5, <1>6, <1>7, MoveTypes

\* When the first request of Fei is read.
LEMMA InitSessionTypes == ASSUME ChatTypes, NEW w \in Workers, InitSession(w) PROVE ChatTypes'
<1>1. /\ UNCHANGED <<planVars, fileVars, sessionVars>> /\ pc[w] = "init" /\ Busy(w)
      /\ uploads' = uploads /\ announced' = announced /\ HistOK
  BY DEF ChatTypes, InitSession, Busy, planVars
<1>2. /\ got[w] \in Locals /\ got[w] = Nothing /\ Upload(w) \in Ids
      /\ got[w].uid <= uuids /\ got[w].fd <= Len(notes) /\ got[w].bucket <= Len(sessions)
      /\ Kind(w) = "Fei" /\ Number(w) = 0
  BY <1>1, HandIs DEF StageFor
<1>3. PICK place : place \in {"insert", "idle"} /\ GoWith(w, place, got[w])
  BY DEF InitSession, Goto, Leave
<1>4. StageFor(w, place, got[w]) /\ place \in Places
  BY <1>2, <1>3 DEF StageFor, PartPlaces, Places
<1>5. HistOK'
  <2>1. CASE UNCHANGED <<faults, disturbed>>
    BY <1>1, <2>1, HistStays DEF histVars
  <2>2. CASE Failure("body", Upload(w))
    BY <1>1, <1>2, <2>2, FailureTypes
  <2> QED
    BY <2>1, <2>2 DEF InitSession
<1> QED
  BY <1>1, <1>2, <1>3, <1>4, <1>5, MoveOnlyTypes

\* A session that is made.
NewSession(w) ==
    [of    |-> Upload(w), uid |-> uuids + 1,
     block |-> Cardinality(uploads[Upload(w)].marked) - 1,
     fn    |-> uploads[Upload(w)].name,
     fs    |-> Size(Upload(w))]

\* What insert_hash adds.
LEMMA InsertSessionIs ==
    ASSUME ChatTypes, NEW w \in Workers, InsertSession(w)
    PROVE  /\ NewSession(w) \in Record /\ sessions' = Append(sessions, NewSession(w))
           /\ Len(sessions') = Len(sessions) + 1 /\ Len(sessions) \in Nat
           /\ sessions' \in Seq(Record)
           /\ sessions'[Len(sessions) + 1] = NewSession(w)
           /\ sessions'[Len(sessions) + 1].of = Upload(w)
           /\ sessions'[Len(sessions) + 1].uid = uuids + 1
           /\ sessions'[Len(sessions) + 1].block = Cardinality(uploads[Upload(w)].marked) - 1
           /\ sessions'[Len(sessions) + 1].fn = uploads[Upload(w)].name
           /\ sessions'[Len(sessions) + 1].fs = Size(Upload(w))
           /\ \A b \in 1..Len(sessions) : sessions'[b] = sessions[b]
           /\ TableOK(tbl') /\ tbl'.key = With(tbl.key, Len(sessions) + 1, Conn(w))
           /\ In(tbl') = In(tbl) \cup {Len(sessions) + 1} /\ Len(sessions) + 1 \notin In(tbl)
           /\ freed' = freed /\ Len(sessions) + 1 \notin freed
           /\ Kind(w) = "Fei" /\ uploads[Upload(w)].marked # {}
           /\ Cardinality(uploads[Upload(w)].marked) \in Nat \ {0}
<1>1. pc[w] = "insert" /\ Busy(w) /\ PlanOK /\ SessionOK
  BY DEF ChatTypes, InsertSession, Busy
<1>2. Upload(w) \in Ids /\ Kind(w) = "Fei" /\ Conn(w) \in Keys /\ uuids \in Nat /\ Len(sessions) \in Nat
  BY <1>1, HandIs DEF StageFor
<1>3. Cardinality(uploads[Upload(w)].marked) \in Nat \ {0}
  <2>1. PICK M, C : M = uploads[Upload(w)].marked /\ C = Count(Upload(w))
    OBVIOUS
  <2>2. M \subseteq 1..C /\ C \in M /\ C \in Nat
    BY <1>1, <1>2, <2>1, UploadIs DEF PlanOK, Kind
  <2>3. IsFiniteSet(1..C)
    BY <2>2, FS_Interval
  <2>5. IsFiniteSet(M)
    BY <2>2, <2>3, FS_Subset
  <2>4. Cardinality(M) \in Nat /\ Cardinality(M) # 0
    BY <2>2, <2>5, FS_CardinalityType, FS_EmptySet
  <2> QED
    BY <2>1, <2>4
<1>4. NewSession(w) \in Record
  <2>1. Size(Upload(w)) \in Nat /\ uploads[Upload(w)].name \in Titles
    BY <1>1, <1>2, OffsetIs DEF PlanOK, Titles
  <2>2. PICK c, n, s : /\ c = Cardinality(uploads[Upload(w)].marked) - 1 /\ n = uploads[Upload(w)].name
                       /\ s = Size(Upload(w))
    OBVIOUS
  <2>3. c \in Nat /\ n \in Titles /\ s \in Nat
    BY <1>3, <2>1, <2>2
  <2>4. NewSession(w) = [of |-> Upload(w), uid |-> uuids + 1, block |-> c, fn |-> n, fs |-> s]
    BY <2>2 DEF NewSession
  <2> QED
    BY <1>2, <2>3, <2>4 DEF Record
<1>5. sessions' = Append(sessions, NewSession(w))
  BY DEF InsertSession, NewSession
<1>6. sessions \in Seq(Record) /\ TableOK(tbl) /\ freed \subseteq DOMAIN sessions /\ In(tbl) = DOMAIN sessions \ freed
  BY <1>1 DEF SessionOK
<1>7. PICK r : r = NewSession(w)
  OBVIOUS
<1>8. /\ sessions' \in Seq(Record) /\ Len(sessions') = Len(sessions) + 1 /\ sessions'[Len(sessions) + 1] = r
      /\ \A b \in 1..Len(sessions) : sessions'[b] = sessions[b]
      /\ DOMAIN sessions = 1..Len(sessions)
  <2> HIDE DEF NewSession
  <2> QED
    BY <1>2, <1>4, <1>5, <1>6, <1>7
<1>9. PICK b : b = Len(sessions) + 1
  OBVIOUS
<1>10. b \notin DOMAIN sessions /\ b \in Nat \ {0} /\ b \notin In(tbl) /\ b \notin freed
  BY <1>2, <1>6, <1>8, <1>9
<1>11. tbl' = InsertHash(tbl, b, Conn(w))
  BY <1>8, <1>9 DEF InsertSession
<1>12. TableOK(tbl') /\ tbl'.key = With(tbl.key, b, Conn(w))
  BY <1>2, <1>6, <1>10, <1>11, InsertOK
<1>13. In(tbl') = In(tbl) \cup {b}
  BY <1>12 DEF In, With
<1>14. freed' = freed
  BY DEF InsertSession
<1>15. uploads[Upload(w)].marked # {}
  BY <1>3, FS_EmptySet
<1>16. /\ r.of = Upload(w) /\ r.uid = uuids + 1 /\ r.fn = uploads[Upload(w)].name /\ r.fs = Size(Upload(w))
       /\ r.block = Cardinality(uploads[Upload(w)].marked) - 1
  BY <1>7 DEF NewSession
<1> QED
  BY <1>2, <1>3, <1>4, <1>5, <1>7, <1>8, <1>9, <1>10, <1>12, <1>13, <1>14, <1>15, <1>16

\* Types are kept by it.
LEMMA InsertSessionTypes == ASSUME ChatTypes, NEW w \in Workers, InsertSession(w) PROVE ChatTypes'
<1>1. /\ planVars' = planVars /\ UNCHANGED <<uploads, note, notes>> /\ pc[w] = "insert" /\ Busy(w)
      /\ uploads' = uploads /\ uuids' = uuids + 1 /\ data' = data
      /\ UNCHANGED <<uploads, histVars>> /\ SessionOK /\ HistOK /\ FileOK /\ HeldOK
  BY DEF ChatTypes, InsertSession, Busy, planVars
<1>2. /\ got[w] \in Locals /\ Upload(w) \in Ids /\ got[w] = Nothing /\ Conn(w) \in Keys
      /\ Len(notes) \in Nat /\ uuids \in Nat /\ Len(sessions) \in Nat
  BY <1>1, HandIs DEF StageFor
<1>3. GoWith(w, "idle", got[w]) /\ StageFor(w, "idle", got[w]) /\ "idle" \in Places
  BY DEF InsertSession, Leave, Goto, StageFor, PartPlaces, Places
<1>4. uuids' \in Nat /\ uuids <= uuids' /\ uuids' \in 1..uuids'
  BY <1>1, <1>2
<1>5. /\ FileOK' /\ Len(notes) <= Len(notes')
      /\ \A n \in DOMAIN notes' : \A k \in DOMAIN notes'[n] : notes'[n][k].uid <= uuids'
  <2>1. DOMAIN data' \subseteq 1..uuids'
    BY <1>1, <1>2, <1>4 DEF FileOK
  <2> QED
    BY <1>1, <1>4, <2>1, DataTypes
<1>6. HistOK'
  BY <1>1, HistStays
<1>7. SessionOK'
  <2>1. Record' = Record
    BY <1>1 DEF Record, Titles, Ids
  <2>2. PICK b : b = Len(sessions) + 1
    OBVIOUS
  <2>3. /\ sessions' \in Seq(Record) /\ Len(sessions') = b
        /\ sessions'[b].of = Upload(w) /\ \A c \in 1..Len(sessions) : sessions'[c] = sessions[c]
        /\ TableOK(tbl') /\ tbl'.key = With(tbl.key, b, Conn(w))
        /\ In(tbl') = In(tbl) \cup {b} /\ b \notin In(tbl) /\ freed' = freed /\ b \notin freed
    BY <2>2, InsertSessionIs
  <2>4. DOMAIN sessions' = DOMAIN sessions \cup {b} /\ DOMAIN sessions = 1..Len(sessions)
    BY <1>1, <1>2, <2>2, <2>3 DEF SessionOK
  <2>5. /\ freed \subseteq DOMAIN sessions /\ In(tbl) = DOMAIN sessions \ freed
        /\ \A c \in In(tbl) : tbl.key[c] = uploads[sessions[c].of].conn
    BY <1>1 DEF SessionOK
  <2>6. freed' \subseteq DOMAIN sessions' /\ In(tbl') = DOMAIN sessions' \ freed'
    BY <2>3, <2>4, <2>5
  <2>7. ASSUME NEW c \in In(tbl') PROVE tbl'.key[c] = uploads'[sessions'[c].of].conn
    <3>1. tbl'.key[c] = IF c = b THEN Conn(w) ELSE tbl.key[c]
      BY <2>3, <2>7 DEF With, In
    <3>2. CASE c = b
      BY <1>1, <2>3, <3>1, <3>2 DEF Conn
    <3>3. CASE c # b
      <4>1. c \in In(tbl) /\ c \in 1..Len(sessions)
        BY <2>3, <2>4, <2>5, <2>7, <3>3
      <4> QED
        BY <1>1, <2>3, <2>5, <3>1, <3>3, <4>1
    <3> QED
      BY <3>2, <3>3
  <2> QED
    BY <2>1, <2>3, <2>6, <2>7 DEF SessionOK
<1>8. Len(sessions) <= Len(sessions') /\ got[w].bucket <= Len(sessions')
      /\ got[w].fd <= Len(notes') /\ got[w].uid <= uuids'
  <2>1. Len(sessions') = Len(sessions) + 1
    BY InsertSessionIs
  <2>2. got[w].bucket = 0 /\ got[w].fd = 0 /\ got[w].uid = 0
    BY <1>2, NothingIs
  <2> QED
    BY <1>1, <1>2, <1>4, <2>1, <2>2
<1>9. ASSUME NEW b \in DOMAIN sessions' PROVE sessions'[b].uid \in 1..uuids'
  <2>1. /\ sessions' \in Seq(Record) /\ Len(sessions') = Len(sessions) + 1
        /\ sessions'[Len(sessions) + 1].uid = uuids + 1
        /\ \A c \in 1..Len(sessions) : sessions'[c] = sessions[c]
    BY InsertSessionIs
  <2>2. CASE b = Len(sessions) + 1
    BY <1>1, <1>4, <2>1, <2>2
  <2>3. CASE b # Len(sessions) + 1
    <3>1. b \in 1..Len(sessions) /\ b \in DOMAIN sessions
      BY <1>1, <1>2, <2>1, <2>3, <1>9 DEF SessionOK
    <3>2. sessions[b].uid \in 1..uuids
      BY <1>1, <3>1 DEF HeldOK
    <3> QED
      BY <1>1, <1>2, <2>1, <3>1, <3>2
  <2> QED
    BY <2>2, <2>3
<1> QED
  BY <1>1, <1>2, <1>3, <1>4, <1>5, <1>6, <1>7, <1>8, <1>9, MoveTypes

\* What remove_hash takes out, if there is a session.
LEMMA FinishIs ==
    ASSUME ChatTypes, NEW w \in Workers, FinishSession(w)
    PROVE  /\ Kind(w) = "Fei" /\ Conn(w) \in Keys /\ sessions' = sessions
           /\ \/ /\ \A b \in In(tbl) : tbl.key[b] # Conn(w)
                 /\ tbl' = tbl /\ freed' = freed
              \/ \E b \in In(tbl) :
                    /\ tbl.key[b] = Conn(w) /\ b \notin freed /\ b \in DOMAIN sessions /\ b # 0
                    /\ tbl' = RemoveHash(tbl, b) /\ freed' = freed \cup {b}
                    /\ TableOK(tbl') /\ tbl'.key = Without(tbl.key, b)
                    /\ In(tbl') = In(tbl) \ {b}
<1>1. pc[w] = "finish" /\ Busy(w) /\ SessionOK
  BY DEF ChatTypes, FinishSession, Busy
<1>2. Kind(w) = "Fei" /\ Conn(w) \in Keys /\ Len(sessions) \in Nat
  BY <1>1, HandIs DEF StageFor
<1>3. PICK b : /\ b = FindHash(tbl, Conn(w))
               /\ tbl' = IF b = NULL THEN tbl ELSE RemoveHash(tbl, b)
               /\ freed' = freed \cup ({b} \ {NULL}) /\ sessions' = sessions
  BY DEF FinishSession
<1>4. TableOK(tbl) /\ In(tbl) = DOMAIN sessions \ freed /\ DOMAIN sessions = 1..Len(sessions)
  BY <1>1 DEF SessionOK
<1>5. CASE b \in In(tbl) /\ tbl.key[b] = Conn(w)
  <2>1. b \in DOMAIN sessions /\ b \notin freed /\ b # 0 /\ b # NULL
    BY <1>2, <1>4, <1>5 DEF NULL
  <2>2. tbl' = RemoveHash(tbl, b) /\ freed' = freed \cup {b}
    BY <1>3, <2>1
  <2>3. TableOK(tbl') /\ tbl'.key = Without(tbl.key, b)
    BY <1>4, <1>5, <2>2, RemoveOK
  <2>4. In(tbl') = In(tbl) \ {b}
    BY <2>3 DEF In, Without
  <2> QED
    BY <1>2, <1>3, <1>5, <2>1, <2>2, <2>3, <2>4
<1>6. CASE b = NULL /\ \A c \in In(tbl) : tbl.key[c] # Conn(w)
  BY <1>2, <1>3, <1>6
<1> QED
  BY <1>2, <1>3, <1>4, <1>5, <1>6, FindIs

\* Types are kept by it.
LEMMA FinishSessionTypes == ASSUME ChatTypes, NEW w \in Workers, FinishSession(w) PROVE ChatTypes'
<1>1. /\ planVars' = planVars /\ UNCHANGED <<uploads, fileVars>> /\ pc[w] = "finish" /\ Busy(w)
      /\ uploads' = uploads /\ UNCHANGED <<notes, uuids>>
      /\ UNCHANGED <<uploads, histVars>> /\ SessionOK /\ HistOK /\ FileOK /\ HeldOK
  BY DEF ChatTypes, FinishSession, Busy, planVars, fileVars
<1>2. /\ got[w] \in Locals
      /\ got[w].fd <= Len(notes) /\ got[w].uid <= uuids /\ got[w].bucket <= Len(sessions)
      /\ Len(notes) \in Nat /\ uuids \in Nat /\ Len(sessions) \in Nat
  BY <1>1, HandIs
<1>3. GoWith(w, "idle", got[w]) /\ StageFor(w, "idle", got[w]) /\ "idle" \in Places
  BY DEF FinishSession, Leave, Goto, StageFor, PartPlaces, Places
<1>4. FileOK' /\ HistOK' /\ sessions' = sessions
  BY <1>1, FileStays, HistStays DEF FinishSession
<1>5. SessionOK'
  <2>1. Record' = Record
    BY <1>1 DEF Record, Titles, Ids
  <2>2. /\ freed \subseteq DOMAIN sessions /\ In(tbl) = DOMAIN sessions \ freed /\ TableOK(tbl)
        /\ \A c \in In(tbl) : tbl.key[c] = uploads[sessions[c].of].conn
    BY <1>1 DEF SessionOK
  <2>3. CASE tbl' = tbl /\ freed' = freed
    BY <1>1, <1>4, <2>1, <2>3 DEF SessionOK
  <2>4. ASSUME NEW b \in In(tbl), b \in DOMAIN sessions, freed' = freed \cup {b}, TableOK(tbl'),
               tbl'.key = Without(tbl.key, b), In(tbl') = In(tbl) \ {b}
        PROVE SessionOK'
    <3>1. \A c \in In(tbl') : tbl'.key[c] = tbl.key[c]
      BY <2>4 DEF Without, In
    <3>2. freed' \subseteq DOMAIN sessions' /\ In(tbl') = DOMAIN sessions' \ freed'
      BY <1>4, <2>2, <2>4
    <3>3. \A c \in In(tbl') : tbl'.key[c] = uploads'[sessions'[c].of].conn
      BY <1>1, <1>4, <2>2, <2>4, <3>1
    <3> QED
      BY <1>1, <1>4, <2>1, <2>4, <3>2, <3>3 DEF SessionOK
  <2> QED
    BY <2>3, <2>4, FinishIs
<1>6. HeldOK'
  <2>1. UNCHANGED <<uploads, notes, uuids, sessions>>
    BY <1>1, <1>4
  <2> QED
    BY <1>1, <1>2, <1>3, <2>1, HeldStays DEF ChatTypes
<1>7. WorkOK' /\ PlanOK'
  BY <1>1, <1>2, <1>3, WorkMoves, PlanStays DEF ChatTypes
<1> QED
  BY <1>4, <1>5, <1>6, <1>7 DEF ChatTypes

\* A POST that is sent.
LEMMA PostedTypes ==
    ASSUME PlanOK, NEW u \in Ids, NEW i \in NextPosts(u), uploads' = uploads,
           posted' = [posted EXCEPT ![u] = @ \cup {i}],
           \/ taken' = taken
           \/ taken' = [taken EXCEPT ![u] = @ \cup {i}]
    PROVE  /\ PlanOK' /\ i \in Posts(u) /\ i \notin posted[u] /\ i \notin taken[u] /\ i \in Nat
           /\ \A v \in Ids : taken[v] \subseteq taken'[v]
<1>1. i \in Posts(u) /\ i \notin posted[u]
  BY DEF NextPosts
<1>2. /\ posted \in [Ids -> SUBSET Nat] /\ taken \in [Ids -> SUBSET Nat] /\ uploads \in Plans
      /\ \A v \in Ids : taken[v] \subseteq posted[v] /\ posted[v] \subseteq Posts(v)
  BY DEF PlanOK
<1>3. i \in Nat
  <2>1. Count(u) \in Nat
    BY <1>2, UploadIs
  <2> QED
    BY <1>1, <2>1 DEF Posts
<1>4. posted' \in [Ids -> SUBSET Nat] /\ taken' \in [Ids -> SUBSET Nat]
  BY <1>2, <1>3
<1>5. \A v \in Ids : taken'[v] \subseteq posted'[v] /\ posted'[v] \subseteq Posts(v)
  BY <1>1, <1>2
<1>6. Ids' = Ids /\ \A v \in Ids : Posts(v)' = Posts(v)
  BY DEF Ids, Posts, Count
<1>7. \A v \in Ids : taken[v] \subseteq taken'[v]
  BY <1>2
<1> QED
  BY <1>1, <1>2, <1>3, <1>4, <1>5, <1>6, <1>7 DEF PlanOK

\* Types are kept when a POST is lost.
LEMMA LoseTypes == ASSUME ChatTypes, NEW u \in Ids, Lose(u) PROVE ChatTypes'
<1>1. PICK i \in NextPosts(u) : posted' = [posted EXCEPT ![u] = @ \cup {i}]
  BY DEF Lose
<1>2. /\ uploads' = uploads /\ taken' = taken /\ announced' = announced
      /\ UNCHANGED workVars /\ UNCHANGED <<uploads, fileVars>> /\ UNCHANGED <<uploads, sessionVars>>
      /\ UNCHANGED <<notes, uuids, sessions>>
      /\ PlanOK /\ WorkOK /\ FileOK /\ SessionOK /\ HeldOK /\ HistOK
      /\ pc' = pc /\ post' = post /\ got' = got
  BY DEF Lose, ChatTypes, fileVars, sessionVars, workVars
<1>3. PlanOK' /\ \A v \in Ids : taken[v] \subseteq taken'[v]
  BY <1>1, <1>2, PostedTypes
<1>4. WorkOK'
  <2>1. Locals' = Locals /\ Ids' = Ids
    BY <1>2 DEF Locals, Titles, Ids
  <2>2. \A v \in Workers : StageOK(v)'
    BY <1>2, <1>3, StageStays DEF WorkOK
  <2> QED
    BY <1>2, <2>1, <2>2 DEF WorkOK
<1>5. FileOK' /\ SessionOK'
  BY <1>2, FileStays, SessionStays
<1>6. HeldOK'
  BY <1>2 DEF HeldOK
<1>7. HistOK'
  BY <1>2, FailureTypes DEF Lose
<1> QED
  BY <1>3, <1>4, <1>5, <1>6, <1>7 DEF ChatTypes

\* What is taken.
LEMMA TakeIs ==
    ASSUME ChatTypes, NEW w \in Workers, Take(w)
    PROVE  /\ pc[w] = "idle" /\ got[w] = Nothing /\ post[w] = <<0, 0>>
           /\ uploads' = uploads /\ got' = got
           /\ UNCHANGED <<fileVars, sessionVars, announced, faults>>
           /\ \E u \in Ids : \E i \in NextPosts(u) :
                /\ posted' = [posted EXCEPT ![u] = @ \cup {i}]
                /\ taken' = [taken EXCEPT ![u] = @ \cup {i}]
                /\ i \in Posts(u) /\ i \notin posted[u] /\ i \notin taken[u] /\ i \in Nat
                /\ taken'[u] = taken[u] \cup {i}
                /\ \A v \in Ids : v # u => taken'[v] = taken[v]
                /\ Upload(w)' = u /\ Number(w)' = i /\ post'[w] = <<u, i>>
                /\ pc'[w] = Dispatch(u, i) /\ Busy(w)'
                /\ disturbed' = disturbed \cup Disturbed(u, i)
                /\ \A v \in Workers : v # w => pc'[v] = pc[v] /\ post'[v] = post[v]
<1>1. PICK u, i :
        /\ u \in Ids /\ i \in NextPosts(u)
        /\ posted' = [posted EXCEPT ![u] = @ \cup {i}]
        /\ taken' = [taken EXCEPT ![u] = @ \cup {i}]
        /\ post' = [post EXCEPT ![w] = <<u, i>>]
        /\ disturbed' = disturbed \cup Disturbed(u, i)
        /\ pc' = [pc EXCEPT ![w] = Dispatch(u, i)]
  BY DEF Take
<1>2. /\ ~Busy(w) /\ uploads' = uploads /\ got' = got
      /\ UNCHANGED <<fileVars, sessionVars, announced, faults>>
  BY DEF Take
<1>3. pc[w] = "idle" /\ got[w] = Nothing /\ post[w] = <<0, 0>>
  BY <1>2 DEF ChatTypes, WorkOK, StageOK, Busy
<1>4. /\ i \in Posts(u) /\ i \notin posted[u] /\ i \notin taken[u] /\ i \in Nat
      /\ taken \in [Ids -> SUBSET Nat] /\ pc \in [Workers -> Places] /\ post \in [Workers -> (Ids \cup {0}) \X Nat]
  BY <1>1, <1>2, PostedTypes DEF ChatTypes, PlanOK, WorkOK
<1>5. /\ post'[w] = <<u, i>> /\ pc'[w] = Dispatch(u, i) /\ taken'[u] = taken[u] \cup {i}
      /\ \A v \in Ids : v # u => taken'[v] = taken[v]
      /\ \A v \in Workers : v # w => pc'[v] = pc[v] /\ post'[v] = post[v]
  BY <1>1, <1>4
<1>6. Upload(w)' = u /\ Number(w)' = i
  BY <1>5 DEF Upload, Number
<1>7. Busy(w)'
  BY <1>5 DEF Busy, Dispatch
<1> QED
  BY <1>1, <1>2, <1>3, <1>4, <1>5, <1>6, <1>7

\* When one is taken.
LEMMA TakeTypes == ASSUME ChatTypes, NEW w \in Workers, Take(w) PROVE ChatTypes'
<1>1. /\ pc[w] = "idle" /\ got[w] = Nothing /\ uploads' = uploads /\ got' = got
      /\ UNCHANGED <<fileVars, sessionVars, announced, faults>>
  BY TakeIs
<1>2. PICK u, i :
        /\ u \in Ids /\ i \in NextPosts(u)
        /\ posted' = [posted EXCEPT ![u] = @ \cup {i}]
        /\ taken' = [taken EXCEPT ![u] = @ \cup {i}]
        /\ i \in Posts(u) /\ i \in Nat /\ taken'[u] = taken[u] \cup {i}
        /\ Upload(w)' = u /\ Number(w)' = i /\ post'[w] = <<u, i>>
        /\ pc'[w] = Dispatch(u, i) /\ Busy(w)'
        /\ disturbed' = disturbed \cup Disturbed(u, i)
        /\ \A v \in Workers : v # w => pc'[v] = pc[v] /\ post'[v] = post[v]
  BY TakeIs
<1>3. /\ UNCHANGED <<uploads, fileVars>> /\ UNCHANGED <<uploads, sessionVars>>
      /\ UNCHANGED <<notes, uuids, sessions>> /\ faults' = faults /\ announced' = announced
      /\ PlanOK /\ WorkOK /\ FileOK /\ SessionOK /\ HeldOK /\ HistOK
  BY <1>1 DEF ChatTypes, fileVars, sessionVars
<1>4. PlanOK' /\ \A v \in Ids : taken[v] \subseteq taken'[v]
  BY <1>1, <1>2, <1>3, PostedTypes
<1>5. Ids' = Ids /\ Locals' = Locals /\ Report' = Report
  BY <1>1 DEF Locals, Titles, Ids, Report
<1>6. uploads[u].kind \in Kinds /\ Count(u) \in Nat \ {0}
  BY <1>2, <1>3, UploadIs DEF PlanOK
<1>7. /\ Dispatch(u, i) \in Places
      /\ Dispatch(u, i) \in {"blog", "whole", "init", "finish", "look"}
  BY DEF Dispatch, Places, PartPlaces
<1>8. /\ i = 0 => uploads[u].kind = "Fei"
      /\ i = Count(u) + 1 => uploads[u].kind = "Fei"
      /\ i \notin {0, Count(u) + 1} => i \in 1..Count(u)
  BY <1>2, <1>6 DEF Posts
<1>9. /\ Dispatch(u, i) = "blog" => uploads[u].kind = "Blog"
      /\ Dispatch(u, i) = "whole" => uploads[u].kind = "Yahoo"
      /\ Dispatch(u, i) = "init" => uploads[u].kind = "Fei" /\ i = 0
      /\ Dispatch(u, i) = "finish" => uploads[u].kind = "Fei" /\ i = Count(u) + 1
      /\ Dispatch(u, i) = "look" => uploads[u].kind \in Noted
      /\ Dispatch(u, i) \in {"look", "blog", "whole"} => i \in 1..Count(u)
  BY <1>6, <1>8 DEF Dispatch, Kinds, Single, Noted
<1>10. StageOK(w)'
  <2>1. Kind(w)' = uploads[u].kind /\ Count(Upload(w))' = Count(u)
    BY <1>1, <1>2 DEF Kind, Count
  <2>2. StageFor(w, pc[w], got[w])'
    BY <1>1, <1>2, <1>7, <1>9, <2>1 DEF StageFor, PartPlaces, Nothing
  <2> QED
    BY <1>2, <1>5, <2>2 DEF StageOK
<1>11. WorkOK'
  <2>1. pc' \in [Workers -> Places] /\ post' \in [Workers -> (Ids' \cup {0}) \X Nat] /\ got' \in [Workers -> Locals']
    <3>1. pc' = [pc EXCEPT ![w] = Dispatch(u, i)]
      <4>1. PICK x, k : pc' = [pc EXCEPT ![w] = Dispatch(x, k)]
        BY DEF Take
      <4>2. pc'[w] = Dispatch(x, k)
        BY <1>3, <4>1 DEF WorkOK
      <4> QED
        BY <1>2, <4>1, <4>2
    <3>2. post' = [post EXCEPT ![w] = <<u, i>>]
      <4>1. PICK x, k : post' = [post EXCEPT ![w] = <<x, k>>]
        BY DEF Take
      <4>2. post'[w] = <<x, k>>
        BY <1>3, <4>1 DEF WorkOK
      <4> QED
        BY <1>2, <4>1, <4>2
    <3>3. <<u, i>> \in (Ids \cup {0}) \X Nat
      BY <1>2
    <3> QED
      BY <1>1, <1>3, <1>5, <1>7, <3>1, <3>2, <3>3 DEF WorkOK
  <2>2. ASSUME NEW v \in Workers PROVE StageOK(v)'
    <3>1. CASE v = w
      BY <1>10, <3>1
    <3>2. CASE v # w
      BY <1>1, <1>2, <1>3, <1>4, <3>2, StageStays DEF WorkOK
    <3> QED
      BY <3>1, <3>2
  <2> QED
    BY <2>1, <2>2 DEF WorkOK
<1>12. FileOK' /\ SessionOK'
  BY <1>3, FileStays, SessionStays
<1>13. HeldOK'
  BY <1>1, <1>3 DEF HeldOK
<1>14. HistOK'
  <2>1. Disturbed(u, i) \subseteq Ids
    BY <1>2 DEF Disturbed, Met
  <2> QED
    BY <1>2, <1>3, <1>5, <2>1 DEF HistOK
<1> QED
  BY <1>4, <1>11, <1>12, <1>13, <1>14 DEF ChatTypes

\* The types hold at first.
LEMMA InitTypes == Init => ChatTypes
<1> SUFFICES ASSUME Init PROVE ChatTypes
  OBVIOUS
<1>1. PlanOK
  BY DEF Init, PlanOK
<1>2. WorkOK
  <2>1. \A w \in Workers : pc[w] = "idle" /\ post[w] = <<0, 0>> /\ got[w] = Nothing
    BY DEF Init
  <2>2. \A w \in Workers : StageOK(w)
    BY <2>1 DEF StageOK, StageFor, Busy, PartPlaces
  <2>3. pc \in [Workers -> Places]
    BY DEF Init, Places
  <2>4. post \in [Workers -> (Ids \cup {0}) \X Nat]
    BY DEF Init
  <2>5. got \in [Workers -> Locals]
    BY NothingIs DEF Init
  <2> QED
    BY <2>2, <2>3, <2>4, <2>5 DEF WorkOK
<1>3. FileOK
  <2>1. notes = <<>> /\ notes \in Seq(Seq(Item)) /\ Len(notes) = 0 /\ uuids = 0 /\ DOMAIN data = {}
    BY DEF Init
  <2>2. note = [f \in NoteNames |-> 0]
    BY DEF Init, NoteNames
  <2> QED
    BY <2>1, <2>2 DEF FileOK
<1>4. SessionOK
  <2>1. sessions = <<>> /\ sessions \in Seq(Record) /\ DOMAIN sessions = {} /\ freed = {}
    BY DEF Init
  <2>2. TableOK(tbl) /\ In(tbl) = {}
    BY CreateOK DEF Init
  <2> QED
    BY <2>1, <2>2 DEF SessionOK
<1>5. HeldOK
  <2>1. \A w \in Workers : got[w].fd = 0 /\ got[w].uid = 0 /\ got[w].bucket = 0
    BY NothingIs DEF Init
  <2>2. notes = <<>> /\ DOMAIN notes = {} /\ sessions = <<>> /\ DOMAIN sessions = {} /\ uuids = 0
        /\ Len(notes) = 0 /\ Len(sessions) = 0
    BY DEF Init
  <2> QED
    BY <2>1, <2>2 DEF HeldOK
<1>6. HistOK
  BY DEF Init, HistOK
<1> QED
  BY <1>1, <1>2, <1>3, <1>4, <1>5, <1>6 DEF ChatTypes

\* They do when nothing happens.
LEMMA SameTypes == ASSUME ChatTypes, UNCHANGED vars PROVE ChatTypes'
<1>1. /\ uploads' = uploads /\ pc' = pc /\ post' = post /\ got' = got /\ UNCHANGED planVars
      /\ UNCHANGED <<uploads, fileVars>> /\ UNCHANGED <<uploads, sessionVars>> /\ UNCHANGED <<uploads, histVars>>
      /\ UNCHANGED <<notes, uuids, sessions>> /\ taken' = taken
  BY DEF vars, planVars, workVars, fileVars, sessionVars, histVars
<1>2. WorkOK'
  <2>1. Locals' = Locals /\ Ids' = Ids
    BY <1>1 DEF Locals, Titles, Ids
  <2>2. \A v \in Workers : StageOK(v)'
    BY <1>1, StageStays DEF ChatTypes, WorkOK
  <2> QED
    BY <1>1, <2>1, <2>2 DEF ChatTypes, WorkOK
<1>3. HeldOK'
  BY <1>1 DEF ChatTypes, HeldOK
<1> QED
  BY <1>1, <1>2, <1>3, PlanStays, FileStays, SessionStays, HistStays DEF ChatTypes

\* So every step keeps them.
LEMMA NextTypes == ASSUME ChatTypes, [Next]_vars PROVE ChatTypes'
<1>1. CASE UNCHANGED vars
  BY <1>1, SameTypes
<1>2. ASSUME NEW u \in Ids, Lose(u) PROVE ChatTypes'
  BY <1>2, LoseTypes
<1>3. ASSUME NEW w \in Workers, Take(w) PROVE ChatTypes'
  BY <1>3, TakeTypes
<1>4. ASSUME NEW w \in Workers, Work(w) PROVE ChatTypes'
  BY <1>4, LookTypes, FindSessionTypes, BeginTypes, FillTypes, ReopenTypes, CountBlockTypes,
     WriteFirstTypes, WriteNextTypes, WholeFileTypes, BlogTypes, RereadTypes, TellTypes,
     RemoveNoteTypes, InitSessionTypes, InsertSessionTypes, FinishSessionTypes DEF Work
<1> QED
  BY <1>1, <1>2, <1>3, <1>4 DEF Next

\* The types of every variable, and what a worker has in hand at each place of the
\* parsers of http_IM_parser.c (lines 621-1802), always hold.
THEOREM ChatTypesAlways == Spec => []ChatTypes
<1>1. Init => ChatTypes
  BY InitTypes
<1>2. ChatTypes /\ [Next]_vars => ChatTypes'
  BY NextTypes
<1> QED
  BY <1>1, <1>2, PTL DEF Spec

\* TypeOK: what was taken was sent, a name leads to a note that is there, data has
\* the uuids that were made, and freed sessions and those of the table were made.
THEOREM ChatTypeCorrect == Spec => []TypeOK
<1>1. ChatTypes => TypeOK
  BY TypesAreOK
<1> QED
  BY <1>1, ChatTypesAlways, PTL

-----------------------------------------------------------------------------
(* The order of the POSTs *)

\* The workers that have a POST of u.
Held(u) == {w \in Workers : Busy(w) /\ Upload(w) = u}

\* Some POST of u has been taken, and not all have been handled.
Active(u) == taken[u] # {} /\ (taken[u] # Posts(u) \/ Held(u) # {})

OrderOK ==
    /\ \A w, v \in Workers : Busy(w) /\ Busy(v) /\ post[w] = post[v] => w = v
    /\ \A u \in Ids \ disturbed :
          /\ \E n \in Nat : taken[u] = FirstPost(u)..(FirstPost(u) + n - 1)
          /\ \A w \in Held(u) : \A j \in taken[u] : j <= Number(w)
          /\ Active(u) => \A v \in Met(u) \ {u} :
                            /\ Held(v) = {}
                            /\ taken[v] = {} \/ (taken[v] = Posts(v) /\ v \notin disturbed)

\* Who is met meets.
LEMMA MetSymmetric ==
    ASSUME NEW u \in Ids, NEW v \in Met(u) PROVE v \in Ids /\ u \in Met(v)
  BY DEF Met

\* What every step of a worker has in common.
LEMMA WorkIs ==
    ASSUME NEW w \in Workers, Work(w)
    PROVE  /\ uploads' = uploads /\ posted' = posted /\ taken' = taken /\ Busy(w)
           /\ disturbed \subseteq disturbed' /\ disturbed' \subseteq disturbed \cup {Upload(w)}
           /\ \E place, g : GoWith(w, place, g)
<1>1. ASSUME Look(w) \/ FindSession(w)
      PROVE  UNCHANGED <<planVars, histVars>> /\ Busy(w) /\ \E place, g : GoWith(w, place, g)
  BY <1>1 DEF Look, FindSession, Busy, Goto
<1>2. ASSUME Begin(w) \/ Fill(w) \/ Reopen(w) \/ CountBlock(w)
      PROVE  UNCHANGED <<planVars, histVars>> /\ Busy(w) /\ \E place, g : GoWith(w, place, g)
  BY <1>2 DEF Begin, Fill, Reopen, CountBlock, Busy, Goto, Leave
<1>3. ASSUME WholeFile(w) \/ Reread(w) \/ RemoveNote(w) \/ InsertSession(w) \/ FinishSession(w)
      PROVE  UNCHANGED <<planVars, histVars>> /\ Busy(w) /\ \E place, g : GoWith(w, place, g)
  BY <1>3 DEF WholeFile, Reread, RemoveNote, InsertSession, FinishSession, Busy, Goto, Leave
<1>4. ASSUME WriteFirst(w) \/ WriteNext(w) \/ Blog(w) \/ Tell(w) \/ InitSession(w)
      PROVE  /\ UNCHANGED planVars /\ Busy(w) /\ \E place, g : GoWith(w, place, g)
             /\ UNCHANGED <<faults, disturbed>> \/ \E kind : Failure(kind, Upload(w))
  <2>1. CASE WriteFirst(w)
    BY <2>1 DEF WriteFirst, Busy
  <2>2. CASE WriteNext(w)
    BY <2>2 DEF WriteNext, Busy, Goto
  <2>3. CASE Blog(w)
    BY <2>3 DEF Blog, Busy, Goto, Leave
  <2>4. CASE Tell(w)
    BY <2>4 DEF Tell, Busy, Goto
  <2>5. CASE InitSession(w)
    BY <2>5 DEF InitSession, Busy, Goto, Leave
  <2> QED
    BY <1>4, <2>1, <2>2, <2>3, <2>4, <2>5
<1>5. /\ UNCHANGED planVars /\ Busy(w) /\ \E place, g : GoWith(w, place, g)
      /\ UNCHANGED disturbed \/ \E kind : Failure(kind, Upload(w))
  BY <1>1, <1>2, <1>3, <1>4 DEF Work, histVars
<1> QED
  BY <1>5 DEF planVars, Failure

\* A worker that goes on leaves the others alone, and its POST as it is.
LEMMA OthersAre ==
    ASSUME ChatTypes, NEW w \in Workers, Work(w)
    PROVE  /\ \A v \in Workers : v # w => pc'[v] = pc[v] /\ post'[v] = post[v] /\ got'[v] = got[v]
           /\ \A v \in Workers : Busy(v)' => /\ Busy(v) /\ post'[v] = post[v] /\ Upload(v)' = Upload(v)
                                             /\ Number(v)' = Number(v) /\ Kind(v)' = Kind(v)
                                             /\ Name(v)' = Name(v) /\ Conn(v)' = Conn(v)
           /\ \A u : Held(u)' \subseteq Held(u)
           /\ \A u : Upload(w) # u => Held(u)' = Held(u)
<1>1. PICK place, g : GoWith(w, place, g)
  BY WorkIs
<1>2. /\ pc' = [pc EXCEPT ![w] = place]
      /\ post' = [post EXCEPT ![w] = IF place = "idle" THEN <<0, 0>> ELSE post[w]]
      /\ got' = [got EXCEPT ![w] = IF place = "idle" THEN Nothing ELSE g]
      /\ Busy(w) /\ uploads' = uploads
  BY <1>1, WorkIs DEF GoWith
<1>3. pc \in [Workers -> Places] /\ DOMAIN post = Workers /\ DOMAIN got = Workers
  BY DEF ChatTypes, WorkOK
<1>4. \A v \in Workers : v # w => pc'[v] = pc[v] /\ post'[v] = post[v] /\ got'[v] = got[v]
  BY <1>2, <1>3
<1>5. pc'[w] = place /\ post'[w] = IF place = "idle" THEN <<0, 0>> ELSE post[w]
  BY <1>2, <1>3
<1>6. ASSUME NEW v \in Workers, Busy(v)' PROVE Busy(v) /\ post'[v] = post[v]
  BY <1>2, <1>4, <1>5, <1>6 DEF Busy
<1>7. ASSUME NEW v \in Workers, Busy(v)'
      PROVE  /\ Upload(v)' = Upload(v) /\ Number(v)' = Number(v) /\ Kind(v)' = Kind(v)
             /\ Name(v)' = Name(v) /\ Conn(v)' = Conn(v)
  BY <1>2, <1>6, <1>7 DEF Upload, Number, Kind, Name, Conn
<1>8. \A v \in Workers : v # w => (Busy(v)' <=> Busy(v)) /\ Upload(v)' = Upload(v)
  BY <1>4 DEF Busy, Upload
<1>9. \A u : Held(u)' \subseteq Held(u)
  BY <1>6, <1>7 DEF Held
<1>10. ASSUME NEW u, Upload(w) # u PROVE Held(u)' = Held(u)
  <2>1. ASSUME NEW v \in Held(u) PROVE v \in Held(u)'
    <3>1. v \in Workers /\ v # w /\ Busy(v) /\ Upload(v) = u
      BY <1>10, <2>1 DEF Held
    <3> QED
      BY <1>8, <3>1 DEF Held
  <2> QED
    BY <1>9, <2>1
<1> QED
  BY <1>4, <1>6, <1>7, <1>9, <1>10

\* Work does not change in which order POSTs come.
LEMMA WorkKeepsOrder == ASSUME ChatTypes, OrderOK, NEW w \in Workers, Work(w) PROVE OrderOK'
<1>1. /\ uploads' = uploads /\ taken' = taken
      /\ disturbed \subseteq disturbed' /\ disturbed' \subseteq disturbed \cup {Upload(w)} /\ Busy(w)
  BY WorkIs
<1>2. /\ \A v \in Workers : Busy(v)' => Busy(v) /\ post'[v] = post[v] /\ Number(v)' = Number(v)
      /\ \A u : Held(u)' \subseteq Held(u)
  BY OthersAre
<1>3. ASSUME NEW v \in Workers, NEW x \in Workers, Busy(v)', Busy(x)', post'[v] = post'[x] PROVE v = x
  BY <1>2, <1>3 DEF OrderOK
<1>4. ASSUME NEW u \in Ids' \ disturbed'
      PROVE  /\ \E n \in Nat : taken'[u] = FirstPost(u)'..(FirstPost(u)' + n - 1)
             /\ \A v \in Held(u)' : \A j \in taken'[u] : j <= Number(v)'
             /\ Active(u)' => \A v \in Met(u)' \ {u} :
                               /\ Held(v)' = {}
                               /\ taken'[v] = {} \/ (taken'[v] = Posts(v)' /\ v \notin disturbed')
  <2>1. u \in Ids \ disturbed /\ Ids' = Ids
    BY <1>1, <1>4 DEF Ids
  <2>2. FirstPost(u)' = FirstPost(u) /\ \A v : Posts(v)' = Posts(v)
    BY <1>1 DEF FirstPost, Posts, Count
  <2>3. Met(u)' = Met(u)
    BY <1>1 DEF Met, Ids
  <2>4. \E n \in Nat : taken[u] = FirstPost(u)..(FirstPost(u) + n - 1)
    BY <2>1 DEF OrderOK
  <2>5. ASSUME NEW v \in Held(u)', NEW j \in taken'[u] PROVE j <= Number(v)'
    <3>1. v \in Held(u) /\ j \in taken[u] /\ v \in Workers /\ Busy(v)'
      BY <1>1, <1>2, <2>5 DEF Held
    <3>2. j <= Number(v) /\ Number(v)' = Number(v)
      BY <1>2, <2>1, <3>1 DEF OrderOK
    <3> QED
      BY <3>2
  <2>6. ASSUME Active(u)', NEW v \in Met(u)' \ {u}
        PROVE  Held(v)' = {} /\ (taken'[v] = {} \/ (taken'[v] = Posts(v)' /\ v \notin disturbed'))
    <3>1. Active(u)
      BY <1>1, <1>2, <2>2, <2>6 DEF Active
    <3>2. Held(v) = {} /\ (taken[v] = {} \/ (taken[v] = Posts(v) /\ v \notin disturbed))
      BY <2>1, <2>3, <2>6, <3>1 DEF OrderOK
    <3>3. Upload(w) # v
      BY <1>1, <3>2 DEF Held
    <3> QED
      BY <1>1, <1>2, <2>2, <3>2, <3>3
  <2> QED
    BY <1>1, <2>2, <2>4, <2>5, <2>6
<1> QED
  BY <1>3, <1>4 DEF OrderOK

\* A lost POST disturbs its upload, and no other.
LEMMA LoseKeepsOrder == ASSUME ChatTypes, OrderOK, NEW x \in Ids, Lose(x) PROVE OrderOK'
<1>1. /\ uploads' = uploads /\ taken' = taken /\ pc' = pc /\ post' = post
      /\ disturbed' = disturbed \cup {x} /\ NextPosts(x) # {}
  BY DEF Lose, Failure, workVars
<1>2. taken[x] # Posts(x)
  BY <1>1 DEF NextPosts, ChatTypes, PlanOK
<1>3. /\ \A v \in Workers : /\ Busy(v)' = Busy(v) /\ Number(v)' = Number(v) /\ Upload(v)' = Upload(v)
      /\ \A u : Held(u)' = Held(u)
  BY <1>1 DEF Busy, Upload, Number, Held
<1>4. \A u : FirstPost(u)' = FirstPost(u) /\ Posts(u)' = Posts(u) /\ Met(u)' = Met(u) /\ Active(u)' = Active(u)
  BY <1>1, <1>3 DEF FirstPost, Posts, Count, Met, Active, Ids
<1>5. ASSUME NEW u \in Ids' \ disturbed'
      PROVE  /\ \E n \in Nat : taken'[u] = FirstPost(u)'..(FirstPost(u)' + n - 1)
             /\ \A v \in Held(u)' : \A j \in taken'[u] : j <= Number(v)'
             /\ Active(u)' => \A v \in Met(u)' \ {u} :
                               /\ Held(v)' = {}
                               /\ taken'[v] = {} \/ (taken'[v] = Posts(v)' /\ v \notin disturbed')
  <2>1. u \in Ids \ disturbed
    BY <1>1, <1>5 DEF Ids
  <2>2. \A v \in Held(u) : Number(v)' = Number(v)
    BY <1>3 DEF Held
  <2>3. /\ \E n \in Nat : taken[u] = FirstPost(u)..(FirstPost(u) + n - 1)
        /\ \A v \in Held(u) : \A j \in taken[u] : j <= Number(v)
        /\ Active(u) => \A v \in Met(u) \ {u} :
                            /\ Held(v) = {}
                            /\ taken[v] = {} \/ (taken[v] = Posts(v) /\ v \notin disturbed)
    BY <2>1 DEF OrderOK
  <2> QED
    BY <1>1, <1>2, <1>3, <1>4, <2>2, <2>3
<1>6. \A w, v \in Workers : Busy(w)' /\ Busy(v)' /\ post'[w] = post'[v] => w = v
  BY <1>1, <1>3 DEF OrderOK
<1> QED
  BY <1>5, <1>6 DEF OrderOK

\* A POST that does not disturb its upload is the next one, and nobody who could meet
\* it is at work.
LEMMA InOrder ==
    ASSUME ChatTypes, OrderOK, NEW u \in Ids, u \notin disturbed, NEW i, u \notin Disturbed(u, i)
    PROVE  /\ \E n \in Nat : taken[u] = FirstPost(u)..(FirstPost(u) + n - 1) /\ i = FirstPost(u) + n
           /\ \A v \in Met(u) : Held(v) = {}
           /\ \A v \in Met(u) \ {u} : v \notin disturbed /\ (taken[v] = {} \/ taken[v] = Posts(v))
<1>1. PICK held, begun :
         /\ held = {Upload(w) : w \in {v \in Workers : Busy(v)}} \cap Met(u)
         /\ begun = {v \in Met(u) \ {u} : taken[v] # {} /\ taken[v] # Posts(v)}
  OBVIOUS
<1>2. Disturbed(u, i) = (IF held \cup begun # {} THEN held \cup begun \cup {u} ELSE {})
        \cup (IF i # Cardinality(taken[u]) + FirstPost(u) \/ (Met(u) \ {u}) \cap disturbed # {} THEN {u} ELSE {})
  BY <1>1 DEF Disturbed
<1>3. held = {} /\ begun = {} /\ i = Cardinality(taken[u]) + FirstPost(u) /\ (Met(u) \ {u}) \cap disturbed = {}
  BY <1>2
<1>4. PICK n \in Nat : taken[u] = FirstPost(u)..(FirstPost(u) + n - 1)
  BY DEF OrderOK
<1>5. FirstPost(u) \in Nat
  BY DEF FirstPost
<1>6. Cardinality(taken[u]) = n
  <2>1. PICK a, b : a = FirstPost(u) /\ b = FirstPost(u) + n - 1
    OBVIOUS
  <2>2. a \in Int /\ b \in Int /\ (a > b => n = 0) /\ (a <= b => b - a + 1 = n)
    BY <1>5, <2>1
  <2>3. Cardinality(a..b) = IF a > b THEN 0 ELSE b - a + 1
    BY <2>2, FS_Interval
  <2>4. Cardinality(a..b) = n
    BY <2>2, <2>3
  <2> QED
    BY <1>4, <2>1, <2>4
<1>7. \A v \in Met(u) : Held(v) = {}
  BY <1>1, <1>3 DEF Held
<1>8. \A v \in Met(u) \ {u} : v \notin disturbed /\ (taken[v] = {} \/ taken[v] = Posts(v))
  BY <1>1, <1>3
<1> QED
  BY <1>3, <1>4, <1>5, <1>6, <1>7, <1>8

\* Whom a POST does not disturb, it does not meet.
LEMMA NotMet ==
    ASSUME ChatTypes, OrderOK, NEW u \in Ids, NEW i, NEW v \in Ids, v # u,
           v \notin disturbed, v \notin Disturbed(u, i), Active(v)
    PROVE  v \notin Met(u)
<1>1. PICK held, begun :
         /\ held = {Upload(w) : w \in {x \in Workers : Busy(x)}} \cap Met(u)
         /\ begun = {x \in Met(u) \ {u} : taken[x] # {} /\ taken[x] # Posts(x)}
  OBVIOUS
<1>2. held \cup begun \subseteq Disturbed(u, i)
  BY <1>1 DEF Disturbed
<1>3. SUFFICES ASSUME v \in Met(u) PROVE FALSE
  OBVIOUS
<1>4. taken[v] # {} /\ (taken[v] # Posts(v) \/ Held(v) # {})
  BY DEF Active
<1>5. CASE taken[v] # Posts(v)
  BY <1>1, <1>2, <1>3, <1>4, <1>5
<1>6. CASE Held(v) # {}
  <2>1. PICK w \in Workers : Busy(w) /\ Upload(w) = v
    BY <1>6 DEF Held
  <2>2. v \in held
    BY <1>1, <1>3, <2>1
  <2> QED
    BY <1>2, <2>2
<1> QED
  BY <1>4, <1>5, <1>6

\* A POST that is taken is the next one, or disturbs.
LEMMA TakeKeepsOrder == ASSUME ChatTypes, OrderOK, NEW w \in Workers, Take(w) PROVE OrderOK'
<1>1. PICK u, i :
        /\ u \in Ids /\ i \in NextPosts(u)
        /\ i \in Posts(u) /\ i \notin posted[u] /\ i \notin taken[u] /\ i \in Nat
        /\ taken'[u] = taken[u] \cup {i}
        /\ \A v \in Ids : v # u => taken'[v] = taken[v]
        /\ Upload(w)' = u /\ Number(w)' = i /\ post'[w] = <<u, i>>
        /\ Busy(w)'
        /\ disturbed' = disturbed \cup Disturbed(u, i)
        /\ \A v \in Workers : v # w => pc'[v] = pc[v] /\ post'[v] = post[v]
  BY TakeIs
<1>2. pc[w] = "idle" /\ uploads' = uploads
  BY TakeIs
<1>3. \A v \in Workers : v # w => /\ Busy(v)' = Busy(v) /\ Number(v)' = Number(v) /\ Upload(v)' = Upload(v)
  BY <1>1 DEF Busy, Upload, Number
<1>4. \A v : Held(v)' = IF v = u THEN Held(v) \cup {w} ELSE Held(v)
  <2> TAKE v
  <2>1. ~Busy(w)
    BY <1>2 DEF Busy
  <2> QED
    BY <1>1, <1>3, <2>1 DEF Held
<1>5. \A v : FirstPost(v)' = FirstPost(v) /\ Posts(v)' = Posts(v) /\ Met(v)' = Met(v)
  BY <1>2 DEF FirstPost, Posts, Count, Met, Ids
<1>6. Ids' = Ids
  BY <1>2 DEF Ids
<1>7. ASSUME NEW x \in Workers, NEW y \in Workers, Busy(x)', Busy(y)', post'[x] = post'[y] PROVE x = y
  <2>1. ASSUME NEW z \in Workers, z # w, Busy(z)' PROVE post'[z] # <<u, i>>
    <3>1. Busy(z) /\ post'[z] = post[z] /\ Upload(z) \in Ids /\ Number(z) \in taken[Upload(z)]
      BY <1>1, <1>3, <2>1, HandIs
    <3>2. SUFFICES ASSUME post[z] = <<u, i>> PROVE FALSE
      BY <3>1
    <3>3. Upload(z) = u /\ Number(z) = i
      BY <3>2 DEF Upload, Number
    <3> QED
      BY <1>1, <3>1, <3>3
  <2>2. CASE x # w /\ y # w
    BY <1>1, <1>3, <1>7, <2>2 DEF OrderOK
  <2> QED
    BY <1>1, <1>7, <2>1, <2>2
<1>8. ASSUME NEW v \in Ids \ disturbed'
      PROVE  /\ \E n \in Nat : taken'[v] = FirstPost(v)..(FirstPost(v) + n - 1)
             /\ \A x \in Held(v)' : \A j \in taken'[v] : j <= Number(x)'
             /\ Active(v)' => \A x \in Met(v) \ {v} :
                               /\ Held(x)' = {}
                               /\ taken'[x] = {} \/ (taken'[x] = Posts(x) /\ x \notin disturbed')
  <2>1. v \notin disturbed /\ v \notin Disturbed(u, i)
    BY <1>1, <1>8
  <2>2. CASE v = u
    <3>1. PICK n \in Nat : taken[u] = FirstPost(u)..(FirstPost(u) + n - 1) /\ i = FirstPost(u) + n
      BY <1>1, <2>1, <2>2, InOrder
    <3>2. /\ \A x \in Met(u) : Held(x) = {}
          /\ \A x \in Met(u) \ {u} : x \notin disturbed /\ (taken[x] = {} \/ taken[x] = Posts(x))
      BY <1>1, <2>1, <2>2, InOrder
    <3>3. FirstPost(u) \in Nat
      BY DEF FirstPost
    <3>4. taken'[u] = FirstPost(u)..(FirstPost(u) + (n + 1) - 1) /\ \A j \in taken'[u] : j <= i
      BY <1>1, <3>1, <3>3
    <3>5. n + 1 \in Nat
      OBVIOUS
    <3>6. u \in Met(u) /\ \A x \in Met(u) : x \in Ids
      BY <1>1 DEF Met
    <3>7. \A x \in Held(u)' : x = w
      BY <1>4, <3>2, <3>6
    <3>8. \A x \in Met(u) \ {u} : Held(x)' = {} /\ taken'[x] = taken[x]
      BY <1>1, <1>4, <3>2, <3>6
    <3>9. Disturbed(u, i) \subseteq {u}
      <4>1. {Upload(x) : x \in {y \in Workers : Busy(y)}} \cap Met(u) = {}
        BY <3>2 DEF Held
      <4>2. {x \in Met(u) \ {u} : taken[x] # {} /\ taken[x] # Posts(x)} = {}
        BY <3>2
      <4> QED
        BY <4>1, <4>2 DEF Disturbed
    <3>10. \A x \in Met(u) \ {u} : x \notin disturbed'
      BY <1>1, <3>2, <3>9
    <3> QED
      BY <1>1, <2>2, <3>2, <3>4, <3>5, <3>7, <3>8, <3>10
  <2>3. CASE v # u
    <3>1. taken'[v] = taken[v] /\ Held(v)' = Held(v) /\ v \in Ids
      BY <1>1, <1>4, <1>8, <2>3
    <3>2. \A x \in Held(v) : x # w /\ x \in Workers
      BY <1>2 DEF Held, Busy
    <3>3. \A x \in Held(v)' : \A j \in taken'[v] : j <= Number(x)'
      BY <1>3, <2>1, <3>1, <3>2 DEF OrderOK
    <3>4. ASSUME Active(v)', NEW x \in Met(v) \ {v}
          PROVE  Held(x)' = {} /\ (taken'[x] = {} \/ (taken'[x] = Posts(x) /\ x \notin disturbed'))
      <4>1. Active(v)
        BY <1>5, <3>1, <3>4 DEF Active
      <4>2. v \notin Met(u)
        BY <1>1, <2>1, <2>3, <3>1, <4>1, NotMet
      <4>3. x # u
        BY <1>1, <3>1, <3>4, <4>2, MetSymmetric
      <4>4. x \in Ids
        BY <3>4 DEF Met
      <4>5. Held(x) = {} /\ (taken[x] = {} \/ (taken[x] = Posts(x) /\ x \notin disturbed))
        BY <2>1, <3>1, <3>4, <4>1 DEF OrderOK
      <4>6. Held(x)' = {} /\ taken'[x] = taken[x]
        BY <1>1, <1>4, <4>3, <4>4, <4>5
      <4>7. ASSUME taken[x] = Posts(x), taken[x] # {} PROVE x \notin Disturbed(u, i)
        <5>1. x \notin {Upload(y) : y \in {z \in Workers : Busy(z)}}
          BY <4>5 DEF Held
        <5> QED
          BY <4>3, <4>7, <5>1 DEF Disturbed
      <4> QED
        BY <1>1, <4>5, <4>6, <4>7
    <3> QED
      BY <2>1, <3>1, <3>3, <3>4 DEF OrderOK
  <2> QED
    BY <2>2, <2>3
<1> QED
  BY <1>5, <1>6, <1>7, <1>8 DEF OrderOK

\* The order holds at first.
LEMMA InitOrder == Init => OrderOK
<1> SUFFICES ASSUME Init PROVE OrderOK
  OBVIOUS
<1>1. \A w \in Workers : ~Busy(w)
  BY DEF Init, Busy
<1>2. \A u \in Ids : taken[u] = {} /\ Held(u) = {} /\ ~Active(u)
  BY <1>1 DEF Init, Held, Active
<1>3. ASSUME NEW u \in Ids PROVE \E n \in Nat : taken[u] = FirstPost(u)..(FirstPost(u) + n - 1)
  <2>1. FirstPost(u) \in Nat
    BY DEF FirstPost
  <2>2. FirstPost(u)..(FirstPost(u) + 0 - 1) = {} /\ 0 \in Nat
    BY <2>1
  <2> QED
    BY <1>2, <2>2
<1> QED
  BY <1>1, <1>2, <1>3 DEF OrderOK

\* So every step keeps it.
LEMMA NextOrder == ASSUME ChatTypes, OrderOK, [Next]_vars PROVE OrderOK'
<1>1. CASE UNCHANGED vars
  <2>1. /\ uploads' = uploads /\ taken' = taken /\ disturbed' = disturbed /\ pc' = pc /\ post' = post
    BY <1>1 DEF vars, planVars, workVars, histVars
  <2>2. /\ \A u : /\ FirstPost(u)' = FirstPost(u) /\ Posts(u)' = Posts(u) /\ Met(u)' = Met(u)
                  /\ Held(u)' = Held(u) /\ Active(u)' = Active(u)
        /\ \A w : Busy(w)' = Busy(w) /\ Number(w)' = Number(w)
        /\ Ids' = Ids
    BY <2>1 DEF FirstPost, Posts, Count, Met, Held, Active, Busy, Upload, Number, Ids
  <2> QED
    BY <2>1, <2>2 DEF OrderOK
<1>2. ASSUME NEW u \in Ids, Lose(u) PROVE OrderOK'
  BY <1>2, LoseKeepsOrder
<1>3. ASSUME NEW w \in Workers, Take(w) PROVE OrderOK'
  BY <1>3, TakeKeepsOrder
<1>4. ASSUME NEW w \in Workers, Work(w) PROVE OrderOK'
  BY <1>4, WorkKeepsOrder
<1> QED
  BY <1>1, <1>2, <1>3, <1>4 DEF Next

-----------------------------------------------------------------------------
(* Sessions *)

\* Whose sessions there are, and which of them are in the table.
SessionsOK ==
    /\ \A b \in DOMAIN sessions :
          uploads[sessions[b].of].kind = "Fei" /\ 0 \in taken[sessions[b].of]
    /\ \A b, c \in DOMAIN sessions : sessions[b].of = sessions[c].of => b = c
    /\ \A w \in Workers : pc[w] \in {"init", "insert"} =>
          \A b \in DOMAIN sessions : sessions[b].of # Upload(w)
    /\ \A u \in Ids \ disturbed :
          uploads[u].kind = "Fei" /\ Count(u) + 1 \in taken[u] /\ Held(u) = {} =>
              \A b \in In(tbl) : sessions[b].of # u

\* A session is freed, or in the table under the connection of its upload.
LEMMA SessionIs ==
    ASSUME ChatTypes, NEW b \in DOMAIN sessions
    PROVE  /\ sessions[b] \in Record /\ sessions[b].of \in Ids
           /\ b \in 1..Len(sessions) /\ b # 0
           /\ b \in freed \/ (b \in In(tbl) /\ tbl.key[b] = uploads[sessions[b].of].conn)
<1>1. sessions \in Seq(Record) /\ In(tbl) = DOMAIN sessions \ freed
      /\ \A c \in In(tbl) : tbl.key[c] = uploads[sessions[c].of].conn
  BY DEF ChatTypes, SessionOK
<1>2. sessions[b] \in Record
  BY <1>1
<1> QED
  BY <1>1, <1>2 DEF Record

\* Steps that do not touch the sessions.
LEMMA StepKeepsSessions ==
    ASSUME ChatTypes, SessionsOK,
           UNCHANGED <<uploads, sessions, tbl>>, disturbed \subseteq disturbed',
           \A u \in Ids : taken[u] \subseteq taken'[u],
           \A w \in Workers : pc'[w] \in {"init", "insert"} =>
               \A b \in DOMAIN sessions : sessions[b].of # Upload(w)',
           \A u \in Ids \ disturbed' : Count(u) + 1 \in taken'[u] /\ Held(u)' = {} /\ uploads[u].kind = "Fei" =>
               \A b \in In(tbl) : sessions[b].of # u
    PROVE  SessionsOK'
<1>1. Ids' = Ids /\ \A u : Count(u)' = Count(u)
  BY DEF Ids, Count
<1>2. \A b \in DOMAIN sessions : sessions[b].of \in Ids
  BY SessionIs
<1>3. \A b \in DOMAIN sessions : uploads[sessions[b].of].kind = "Fei" /\ 0 \in taken'[sessions[b].of]
  BY <1>2 DEF SessionsOK
<1> QED
  BY <1>1, <1>3 DEF SessionsOK

\* The sessions when a POST is lost.
LEMMA LoseKeepsSessions == ASSUME ChatTypes, SessionsOK, NEW x \in Ids, Lose(x) PROVE SessionsOK'
<1>1. /\ UNCHANGED <<uploads, sessions, tbl>> /\ disturbed \subseteq disturbed' /\ taken' = taken
      /\ pc' = pc /\ post' = post /\ sessions' = sessions /\ uploads' = uploads
  BY DEF Lose, Failure, workVars, sessionVars
<1>2. \A w : Upload(w)' = Upload(w) /\ Busy(w)' = Busy(w)
  BY <1>1 DEF Upload, Busy
<1>3. \A u : Held(u)' = Held(u)
  BY <1>1, <1>2 DEF Held
<1>4. \A w \in Workers : pc'[w] \in {"init", "insert"} =>
               \A b \in DOMAIN sessions : sessions[b].of # Upload(w)'
  BY <1>1, <1>2 DEF SessionsOK
<1>5. \A u \in Ids \ disturbed' : Count(u) + 1 \in taken'[u] /\ Held(u)' = {} /\ uploads[u].kind = "Fei" =>
               \A b \in In(tbl) : sessions[b].of # u
  BY <1>1, <1>3 DEF SessionsOK
<1> QED
  BY <1>1, <1>4, <1>5, StepKeepsSessions

\* When one is taken: a first request finds no session of its upload, and a last one
\* is held by somebody.
LEMMA TakeKeepsSessions ==
    ASSUME ChatTypes, OrderOK, OrderOK', SessionsOK, NEW w \in Workers, Take(w) PROVE SessionsOK'
<1>1. PICK u, i :
        /\ u \in Ids /\ i \in NextPosts(u)
        /\ i \in Posts(u) /\ i \notin posted[u] /\ i \notin taken[u] /\ i \in Nat
        /\ taken'[u] = taken[u] \cup {i}
        /\ \A v \in Ids : v # u => taken'[v] = taken[v]
        /\ Upload(w)' = u /\ Number(w)' = i /\ post'[w] = <<u, i>>
        /\ pc'[w] = Dispatch(u, i) /\ Busy(w)'
        /\ disturbed' = disturbed \cup Disturbed(u, i)
        /\ \A v \in Workers : v # w => pc'[v] = pc[v] /\ post'[v] = post[v]
  BY TakeIs
<1>2. /\ pc[w] = "idle" /\ UNCHANGED <<uploads, sessions, tbl>> /\ uploads' = uploads
  BY TakeIs DEF sessionVars
<1>3. \A v \in Workers : v # w => Busy(v)' = Busy(v) /\ Upload(v)' = Upload(v)
  BY <1>1 DEF Busy, Upload
<1>4. \A v \in Ids : taken[v] \subseteq taken'[v]
  BY <1>1
<1>5. ASSUME NEW x \in Workers, pc'[x] \in {"init", "insert"}, NEW b \in DOMAIN sessions
      PROVE  sessions[b].of # Upload(x)'
  <2>1. CASE x = w
    <3>1. i = 0
      BY <1>1, <1>5, <2>1 DEF Dispatch
    <3>2. 0 \in taken[sessions[b].of]
      BY DEF SessionsOK
    <3> QED
      BY <1>1, <2>1, <3>1, <3>2
  <2>2. CASE x # w
    BY <1>1, <1>3, <1>5, <2>2 DEF SessionsOK
  <2> QED
    BY <2>1, <2>2
<1>6. ASSUME NEW v \in Ids \ disturbed', Count(v) + 1 \in taken'[v], Held(v)' = {}, uploads[v].kind = "Fei"
      PROVE  \A b \in In(tbl) : sessions[b].of # v
  <2>1. v # u
    BY <1>1, <1>6 DEF Held
  <2>2. taken'[v] = taken[v] /\ v \notin disturbed
    BY <1>1, <1>6, <2>1
  <2>3. Held(v) = {}
    <3>1. SUFFICES ASSUME NEW x \in Held(v) PROVE FALSE
      OBVIOUS
    <3>2. x \in Workers /\ Busy(x) /\ Upload(x) = v /\ x # w
      BY <1>2, <3>1 DEF Held, Busy
    <3>3. x \in Held(v)'
      BY <1>3, <3>2 DEF Held
    <3> QED
      BY <1>6, <3>3
  <2> QED
    BY <1>6, <2>2, <2>3 DEF SessionsOK
<1> QED
  BY <1>1, <1>2, <1>4, <1>5, <1>6, StepKeepsSessions

\* In an undisturbed upload of http_feition, the last POST comes when all others have
\* been handled.
LEMMA LastAlone ==
    ASSUME ChatTypes, OrderOK, NEW w \in Workers, Busy(w), NEW u, u = Upload(w), u \notin disturbed
    PROVE  /\ \A v \in Held(u) : v = w
           /\ Kind(w) = "Fei" /\ Count(u) + 1 \in taken[u] => Number(w) = Count(u) + 1
           /\ Active(u)
<1>1. u \in Ids /\ Number(w) \in taken[u] /\ Count(u) \in Nat \ {0} /\ w \in Held(u)
      /\ Number(w) \in Posts(u) /\ Number(w) \in Nat /\ taken[u] \subseteq Nat /\ Kind(w) = uploads[u].kind
  BY HandIs DEF Held, ChatTypes, PlanOK, Kind
<1>2. \A x \in Held(u) : \A j \in taken[u] : j <= Number(x)
  BY <1>1 DEF OrderOK
<1>3. ASSUME NEW v \in Held(u) PROVE v = w
  <2>1. v \in Workers /\ Busy(v) /\ Upload(v) = u
    BY <1>3 DEF Held
  <2>2. Number(v) \in taken[u] /\ Number(v) \in Nat
    BY <2>1, HandIs
  <2>3. Number(v) = Number(w)
    BY <1>1, <1>2, <1>3, <2>2
  <2>4. post[v] = <<Upload(v), Number(v)>> /\ post[w] = <<Upload(w), Number(w)>>
    BY <2>1, BusyIs DEF ChatTypes
  <2> QED
    BY <2>1, <2>3, <2>4 DEF OrderOK
<1>4. ASSUME Kind(w) = "Fei", Count(u) + 1 \in taken[u] PROVE Number(w) = Count(u) + 1
  <2>1. Count(u) + 1 <= Number(w)
    BY <1>1, <1>2, <1>4
  <2>2. Number(w) \in 0..(Count(u) + 1)
    BY <1>1, <1>4 DEF Posts
  <2> QED
    BY <1>1, <2>1, <2>2
<1>5. Active(u)
  BY <1>1 DEF Active
<1> QED
  BY <1>3, <1>4, <1>5

\* The other steps of workers.
LEMMA OthersKeepSessions ==
    ASSUME ChatTypes, OrderOK, SessionsOK, NEW w \in Workers, Work(w), UNCHANGED sessionVars,
           pc[w] # "finish", pc'[w] # "init", pc'[w] = "insert" => pc[w] = "init"
    PROVE  SessionsOK'
<1>1. /\ UNCHANGED <<uploads, sessions, tbl>> /\ uploads' = uploads /\ taken' = taken
      /\ disturbed \subseteq disturbed' /\ Busy(w)
  BY WorkIs DEF sessionVars
<1>2. /\ \A v \in Workers : v # w => pc'[v] = pc[v] /\ post'[v] = post[v] /\ got'[v] = got[v]
      /\ \A v \in Workers : Busy(v)' => Busy(v) /\ Upload(v)' = Upload(v)
      /\ \A u : Upload(w) # u => Held(u)' = Held(u)
  BY OthersAre
<1>3. ASSUME NEW x \in Workers, pc'[x] \in {"init", "insert"}, NEW b \in DOMAIN sessions
      PROVE  sessions[b].of # Upload(x)'
  <2>1. pc[x] \in {"init", "insert"}
    BY <1>2, <1>3
  <2>2. Upload(x)' = Upload(x)
    BY <1>2, <1>3 DEF Busy
  <2> QED
    BY <2>1, <2>2 DEF SessionsOK
<1>4. ASSUME NEW v \in Ids \ disturbed', Count(v) + 1 \in taken'[v], Held(v)' = {}, uploads[v].kind = "Fei"
      PROVE  \A b \in In(tbl) : sessions[b].of # v
  <2>1. v \notin disturbed
    BY <1>1, <1>4
  <2>2. CASE v # Upload(w)
    BY <1>1, <1>2, <1>4, <2>1, <2>2 DEF SessionsOK
  <2>3. CASE v = Upload(w)
    <3>1. Number(w) = Count(v) + 1 /\ Kind(w) = "Fei"
      BY <1>1, <1>4, <2>1, <2>3, LastAlone DEF Kind
    <3>2. StageFor(w, pc[w], got[w]) /\ Count(v) \in Nat \ {0} /\ pc[w] \in Places /\ Upload(w) = v
      BY <1>1, <2>3, HandIs DEF ChatTypes, WorkOK
    <3>3. pc[w] \in PartPlaces => Number(w) \in 1..Count(v)
      BY <3>2 DEF StageFor
    <3>4. pc[w] \in {"init", "insert"} => Number(w) = 0
      BY <3>2 DEF StageFor
    <3>5. pc[w] \in PartPlaces \cup {"idle", "init", "insert", "finish"} /\ pc[w] # "idle"
      BY <1>1, <3>2 DEF Busy, Places
    <3> QED
      BY <3>1, <3>2, <3>3, <3>4, <3>5
  <2> QED
    BY <2>2, <2>3
<1> QED
  BY <1>1, <1>3, <1>4, StepKeepsSessions

\* When a session is inserted, it is the only one of its upload.
LEMMA InsertKeepsSessions ==
    ASSUME ChatTypes, OrderOK, SessionsOK, NEW w \in Workers, InsertSession(w) PROVE SessionsOK'
<1>1. Work(w) /\ pc[w] = "insert" /\ Busy(w)
  BY DEF Work, InsertSession, Busy
<1>2. /\ uploads' = uploads /\ taken' = taken /\ disturbed \subseteq disturbed'
  BY <1>1, WorkIs
<1>3. /\ \A v \in Workers : v # w => pc'[v] = pc[v] /\ post'[v] = post[v] /\ got'[v] = got[v]
      /\ \A v \in Workers : Busy(v)' => Busy(v) /\ Upload(v)' = Upload(v)
      /\ \A u : Upload(w) # u => Held(u)' = Held(u)
  BY <1>1, OthersAre
<1>4. PICK b : b = Len(sessions) + 1
  OBVIOUS
<1>5. /\ sessions' \in Seq(Record) /\ Len(sessions') = b /\ Len(sessions) \in Nat
      /\ sessions'[b].of = Upload(w) /\ \A c \in 1..Len(sessions) : sessions'[c] = sessions[c]
      /\ In(tbl') = In(tbl) \cup {b} /\ b \notin In(tbl) /\ Kind(w) = "Fei"
  BY <1>4, InsertSessionIs
<1>6. Upload(w) \in Ids /\ Number(w) = 0 /\ 0 \in taken[Upload(w)] /\ Count(Upload(w)) \in Nat \ {0}
  BY <1>1, HandIs DEF StageFor
<1>7. DOMAIN sessions = 1..Len(sessions) /\ DOMAIN sessions' = 1..b /\ In(tbl) \subseteq DOMAIN sessions
  BY <1>5 DEF ChatTypes, SessionOK
<1>8. \A c \in DOMAIN sessions' : c # b => c \in DOMAIN sessions /\ sessions'[c] = sessions[c]
  BY <1>4, <1>5, <1>7
<1>9. \A c \in DOMAIN sessions : sessions[c].of # Upload(w)
  BY <1>1 DEF SessionsOK
<1>10. ASSUME NEW c \in DOMAIN sessions'
       PROVE  uploads'[sessions'[c].of].kind = "Fei" /\ 0 \in taken'[sessions'[c].of]
  <2>1. CASE c = b
    BY <1>2, <1>5, <1>6, <2>1 DEF Kind
  <2>2. CASE c # b
    BY <1>2, <1>8, <2>2 DEF SessionsOK
  <2> QED
    BY <2>1, <2>2
<1>11. ASSUME NEW c \in DOMAIN sessions', NEW d \in DOMAIN sessions', sessions'[c].of = sessions'[d].of
       PROVE  c = d
  <2>1. CASE c = b \/ d = b
    BY <1>5, <1>8, <1>9, <1>11, <2>1
  <2>2. CASE c # b /\ d # b
    BY <1>8, <1>11, <2>2 DEF SessionsOK
  <2> QED
    BY <2>1, <2>2
<1>12. ASSUME NEW x \in Workers, pc'[x] \in {"init", "insert"}, NEW c \in DOMAIN sessions'
       PROVE  sessions'[c].of # Upload(x)'
  <2>1. x # w
    <3>1. pc'[w] = "idle"
      BY DEF InsertSession, Leave, Goto, GoWith, ChatTypes, WorkOK
    <3> QED
      BY <1>12, <3>1
  <2>2. pc[x] \in {"init", "insert"} /\ Upload(x)' = Upload(x) /\ Busy(x)
    BY <1>3, <1>12, <2>1 DEF Busy
  <2>3. Upload(x) # Upload(w)
    <3>1. Number(x) = 0 /\ post[x] = <<Upload(x), Number(x)>> /\ post[w] = <<Upload(w), Number(w)>>
      <4>1. StageFor(x, pc[x], got[x])
        BY <2>2, HandIs
      <4> QED
        BY <1>1, <2>2, <4>1, BusyIs DEF ChatTypes, StageFor
    <3> QED
      BY <1>1, <1>6, <2>1, <2>2, <3>1 DEF OrderOK
  <2> QED
    BY <1>5, <1>8, <2>2, <2>3 DEF SessionsOK
<1>13. ASSUME NEW v \in Ids \ disturbed', uploads[v].kind = "Fei", Count(v) + 1 \in taken[v], Held(v)' = {},
              NEW c \in In(tbl')
       PROVE  sessions'[c].of # v
  <2>1. v \notin disturbed
    BY <1>2, <1>13
  <2>2. v # Upload(w)
    <3>1. SUFFICES ASSUME v = Upload(w) PROVE FALSE
      OBVIOUS
    <3>2. Number(w) = Count(v) + 1
      BY <1>1, <1>5, <1>13, <2>1, <3>1, LastAlone
    <3> QED
      BY <1>6, <3>1, <3>2
  <2>3. Held(v) = {}
    BY <1>3, <1>13, <2>2
  <2>4. CASE c = b
    BY <1>5, <2>2, <2>4
  <2>5. CASE c # b
    BY <1>5, <1>7, <1>8, <1>13, <2>1, <2>3, <2>5 DEF SessionsOK
  <2> QED
    BY <2>4, <2>5
<1>14. Ids' = Ids /\ \A u : Count(u)' = Count(u)
  BY <1>2 DEF Ids, Count
<1> QED
  BY <1>2, <1>10, <1>11, <1>12, <1>13, <1>14 DEF SessionsOK

\* When the last request is handled, what find_hash finds is the session of its upload,
\* as no other of that connection is in the table.
LEMMA FinishKeepsSessions ==
    ASSUME ChatTypes, OrderOK, SessionsOK, NEW w \in Workers, FinishSession(w) PROVE SessionsOK'
<1>1. Work(w) /\ pc[w] = "finish" /\ Busy(w)
  BY DEF Work, FinishSession, Busy
<1>2. /\ uploads' = uploads /\ taken' = taken /\ disturbed \subseteq disturbed'
  BY <1>1, WorkIs
<1>3. /\ \A v \in Workers : v # w => pc'[v] = pc[v] /\ post'[v] = post[v] /\ got'[v] = got[v]
      /\ \A v \in Workers : Busy(v)' => Busy(v) /\ Upload(v)' = Upload(v)
      /\ \A u : Upload(w) # u => Held(u)' = Held(u)
  BY <1>1, OthersAre
<1>4. Upload(w) \in Ids /\ Kind(w) = "Fei" /\ Conn(w) = uploads[Upload(w)].conn /\ sessions' = sessions
      /\ In(tbl') \subseteq In(tbl) /\ In(tbl) \subseteq DOMAIN sessions
  BY <1>1, HandIs, FinishIs DEF Conn, ChatTypes, SessionOK
<1>5. ASSUME NEW x \in Workers, pc'[x] \in {"init", "insert"}, NEW c \in DOMAIN sessions
      PROVE  sessions[c].of # Upload(x)'
  <2>1. x # w
    <3>1. pc'[w] = "idle"
      BY DEF FinishSession, Leave, Goto, GoWith, ChatTypes, WorkOK
    <3> QED
      BY <1>5, <3>1
  <2> QED
    BY <1>3, <1>5, <2>1 DEF SessionsOK, Busy
<1>6. ASSUME NEW v \in Ids \ disturbed', uploads[v].kind = "Fei", Count(v) + 1 \in taken[v], Held(v)' = {},
             NEW c \in In(tbl')
      PROVE  sessions[c].of # v
  <2>1. v \notin disturbed /\ c \in In(tbl) /\ c \in DOMAIN sessions
    BY <1>2, <1>4, <1>6
  <2>2. CASE v # Upload(w)
    BY <1>3, <1>6, <2>1, <2>2 DEF SessionsOK
  <2>3. CASE v = Upload(w)
    <3>1. SUFFICES ASSUME sessions[c].of = v PROVE FALSE
      OBVIOUS
    <3>2. tbl.key[c] = Conn(w)
      BY <1>4, <2>1, <2>3, <3>1 DEF ChatTypes, SessionOK
    <3>3. PICK b \in In(tbl) : /\ tbl.key[b] = Conn(w) /\ b \notin freed /\ b \in DOMAIN sessions
                               /\ In(tbl') = In(tbl) \ {b}
      BY <2>1, <3>2, FinishIs
    <3>4. b # c
      BY <1>6, <3>3
    <3>5. PICK x : x = sessions[b].of
      OBVIOUS
    <3>6. x # v /\ x \in Ids /\ uploads[x].kind = "Fei" /\ uploads[x].conn = Conn(w) /\ 0 \in taken[x]
      BY <2>1, <3>1, <3>3, <3>4, <3>5, SessionIs DEF SessionsOK, ChatTypes, SessionOK
    <3>7. x \in Met(v) \ {v}
      BY <1>4, <2>3, <3>6 DEF Met, Kind
    <3>8. Active(v)
      BY <1>1, <2>1, <2>3, LastAlone
    <3>9. Held(x) = {} /\ taken[x] = Posts(x) /\ x \notin disturbed
      BY <1>6, <2>1, <3>6, <3>7, <3>8 DEF OrderOK
    <3>10. Count(x) + 1 \in taken[x]
      <4>1. Count(x) \in Nat
        BY <3>6, UploadIs DEF ChatTypes, PlanOK
      <4> QED
        BY <3>6, <3>9, <4>1 DEF Posts
    <3> QED
      BY <3>3, <3>5, <3>6, <3>9, <3>10 DEF SessionsOK
  <2> QED
    BY <2>2, <2>3
<1>7. Ids' = Ids /\ \A u : Count(u)' = Count(u)
  BY <1>2 DEF Ids, Count
<1> QED
  BY <1>2, <1>4, <1>5, <1>6, <1>7 DEF SessionsOK

\* When a worker goes on.
LEMMA WorkKeepsSessions ==
    ASSUME ChatTypes, OrderOK, SessionsOK, NEW w \in Workers, Work(w) PROVE SessionsOK'
<1>1. CASE InsertSession(w)
  BY <1>1, InsertKeepsSessions
<1>2. CASE FinishSession(w)
  BY <1>2, FinishKeepsSessions
<1>3. \A place, g : GoWith(w, place, g) => pc'[w] = place
  BY DEF GoWith, ChatTypes, WorkOK
<1>4. CASE Look(w) \/ FindSession(w) \/ Begin(w) \/ Fill(w) \/ Reopen(w) \/ CountBlock(w)
  <2>1. /\ UNCHANGED sessionVars /\ pc[w] # "finish"
        /\ \E place, g : GoWith(w, place, g) /\ place \notin {"init", "insert"}
    <3>1. CASE Look(w)
      BY <3>1 DEF Look, Goto
    <3>2. CASE FindSession(w)
      <4>1. PICK place, g : GoWith(w, place, g) /\ place \in {"idle", "begin"}
        BY <3>2 DEF FindSession
      <4> QED
        BY <3>2, <4>1 DEF FindSession
    <3>3. CASE Begin(w)
      <4>1. PICK g : GoWith(w, "fill", g)
        BY <3>3 DEF Begin
      <4>2. UNCHANGED sessionVars /\ pc[w] = "begin"
        BY <3>3 DEF Begin
      <4> QED
        BY <4>1, <4>2
    <3>4. CASE Fill(w)
      BY <3>4 DEF Fill, Goto
    <3>5. CASE CountBlock(w)
      <4>1. PICK g : GoWith(w, "rewrite", g)
        BY <3>5 DEF CountBlock
      <4>2. UNCHANGED sessionVars /\ pc[w] = "count"
        BY <3>5 DEF CountBlock
      <4> QED
        BY <4>1, <4>2
    <3>6. CASE Reopen(w)
      <4>1. UNCHANGED sessionVars /\ pc[w] = "reopen"
        BY <3>6 DEF Reopen
      <4>2. PICK place, g : GoWith(w, place, g) /\ place \in {"count", "idle", "rewrite"}
        BY <3>6 DEF Reopen, Leave, Goto
      <4> QED
        BY <4>1, <4>2
    <3> QED
      BY <1>4, <3>1, <3>2, <3>3, <3>4, <3>5, <3>6
  <2> QED
    BY <1>3, <2>1, OthersKeepSessions
<1>5. CASE WriteFirst(w) \/ WriteNext(w) \/ WholeFile(w) \/ Blog(w)
  <2>1. /\ UNCHANGED sessionVars /\ pc[w] # "finish"
        /\ \E place, g : GoWith(w, place, g) /\ place \notin {"init", "insert"}
    BY <1>5 DEF WriteFirst, WriteNext, WholeFile, Blog, Goto, Leave
  <2> QED
    BY <1>3, <2>1, OthersKeepSessions
<1>6. CASE Reread(w) \/ Tell(w) \/ RemoveNote(w)
  <2>1. /\ UNCHANGED sessionVars /\ pc[w] # "finish"
        /\ \E place, g : GoWith(w, place, g) /\ place \notin {"init", "insert"}
    BY <1>6 DEF Reread, Tell, RemoveNote, Goto, Leave
  <2> QED
    BY <1>3, <2>1, OthersKeepSessions
<1>7. CASE InitSession(w)
  <2>1. /\ UNCHANGED sessionVars /\ pc[w] = "init"
        /\ \E place, g : GoWith(w, place, g) /\ place \in {"idle", "insert"}
    BY <1>7 DEF InitSession, Goto, Leave
  <2> QED
    BY <1>3, <2>1, OthersKeepSessions
<1> QED
  BY <1>1, <1>2, <1>4, <1>5, <1>6, <1>7 DEF Work

\* At first there are none.
LEMMA InitSessions == Init => SessionsOK
<1> SUFFICES ASSUME Init PROVE SessionsOK
  OBVIOUS
<1>1. DOMAIN sessions = {} /\ In(tbl) = {} /\ \A w \in Workers : pc[w] = "idle"
  BY CreateOK DEF Init
<1> QED
  BY <1>1 DEF SessionsOK

\* So every step keeps what is said of them.
LEMMA NextSessions ==
    ASSUME ChatTypes, OrderOK, OrderOK', SessionsOK, [Next]_vars PROVE SessionsOK'
<1>1. CASE UNCHANGED vars
  <2>1. /\ uploads' = uploads /\ taken' = taken /\ disturbed' = disturbed /\ pc' = pc /\ post' = post
        /\ sessions' = sessions /\ tbl' = tbl
    BY <1>1 DEF vars, planVars, workVars, histVars, sessionVars
  <2>2. /\ \A u : Count(u)' = Count(u) /\ Held(u)' = Held(u)
        /\ \A w : Upload(w)' = Upload(w)
        /\ Ids' = Ids
    BY <2>1 DEF Count, Held, Busy, Upload, Ids
  <2> QED
    BY <2>1, <2>2 DEF SessionsOK
<1>2. ASSUME NEW u \in Ids, Lose(u) PROVE SessionsOK'
  BY <1>2, LoseKeepsSessions
<1>3. ASSUME NEW w \in Workers, Take(w) PROVE SessionsOK'
  BY <1>3, TakeKeepsSessions
<1>4. ASSUME NEW w \in Workers, Work(w) PROVE SessionsOK'
  BY <1>4, WorkKeepsSessions
<1> QED
  BY <1>1, <1>2, <1>3, <1>4 DEF Next

\* Order and sessions always hold.
LEMMA SessionsAlways == Spec => [](ChatTypes /\ OrderOK /\ SessionsOK)
<1>1. Init => ChatTypes /\ OrderOK /\ SessionsOK
  BY InitTypes, InitOrder, InitSessions
<1>2. (ChatTypes /\ OrderOK /\ SessionsOK) /\ [Next]_vars => (ChatTypes /\ OrderOK /\ SessionsOK)'
  BY NextTypes, NextOrder, NextSessions
<1> QED
  BY <1>1, <1>2, PTL DEF Spec

\* SessionsReleased: ftp_session_tbl stays linked, and when the last request of an upload
\* that nobody disturbed has been handled by http_feition (http_IM_parser.c:1502-1802), its
\* session is out of the table and freed, for any number of workers, uploads and failures.
THEOREM SessionsAreReleased == Spec => []SessionsReleased
<1>1. ChatTypes /\ OrderOK /\ SessionsOK => SessionsReleased
  <2> SUFFICES ASSUME ChatTypes, OrderOK, SessionsOK PROVE SessionsReleased
    OBVIOUS
  <2>1. TypeOK /\ Linked(tbl)
    BY TypesAreOK, LinkedIs DEF ChatTypes, SessionOK
  <2>2. ASSUME NEW u \in Ids \ disturbed, taken[u] = Posts(u), \A w \in Workers : Busy(w) => Upload(w) # u,
               NEW b \in DOMAIN sessions, sessions[b].of = u
        PROVE  b \in freed /\ b \notin In(tbl)
    <3>1. uploads[u].kind = "Fei" /\ Held(u) = {}
      BY <2>2 DEF SessionsOK, Held
    <3>2. Count(u) \in Nat
      BY UploadIs DEF ChatTypes, PlanOK
    <3>3. Count(u) + 1 \in taken[u]
      BY <2>2, <3>1, <3>2 DEF Posts
    <3>4. b \notin In(tbl)
      BY <2>2, <3>1, <3>3 DEF SessionsOK
    <3> QED
      BY <3>4, SessionIs
  <2> QED
    BY <2>1, <2>2 DEF SessionsReleased
<1> QED
  BY <1>1, SessionsAlways, PTL

-----------------------------------------------------------------------------
(* The blocks that are counted *)

Marks(u) == Cardinality(uploads[u].marked)

\* The files of http_feition of which BlocksCounted speaks.
Plain(u) ==
    /\ uploads[u].kind = "Fei" /\ Met(u) = {u}
    /\ Count(u) + 1 \notin taken[u] /\ Marks(u) <= 400

\* The notes that a name leads to, or that a worker of that name has open.
Refs(f) == ({note[f]} \cup {got[w].fd : w \in {v \in Workers : Busy(v) /\ Name(v) = f}}) \ {0}

\* The parts of u that workers have taken and not counted yet.
Uncounted(u) == {Number(w) : w \in {v \in Held(u) : pc[v] \in {"look", "reopen", "count"}}}

\* A note consists of its header, now and then written twice, and a "1" for each of some
\* marked parts (M) that have been taken (T), but not of those that are still to be
\* counted (U).
Counts(items, M, T, U) ==
    /\ \A k \in DOMAIN items : items[k] = One \/ (items[k].len = 470 /\ items[k].num = Cardinality(M))
    /\ \E S \in SUBSET (M \cap T) : \E H \in Nat :
          /\ S \cap U = {}
          /\ LengthOf(items) = 470 * H + Cardinality(S)

NoteOf(u, items) == Counts(items, uploads[u].marked, taken[u], Uncounted(u))

\* What a worker of u may hold.
HandOf(u, w) ==
    /\ pc[w] = "begin" => sessions[got[w].bucket].of = u
    /\ pc[w] = "fill" => got[w].num = Marks(u)
    /\ pc[w] = "rewrite" => got[w].num \in {0, Marks(u)}
    /\ got[w].flen # 0 =>
          /\ got[w].flen # 470
          /\ got[w].flen = 470 + Marks(u) => uploads[u].marked \subseteq taken[u]
    /\ pc[w] \in {"reread", "tell"} /\ got[w].flen # 0 => uploads[u].marked \subseteq taken[u]

\* What is said of one upload.
CountOf(u) ==
    /\ \A b \in DOMAIN sessions :
          sessions[b].of = u => sessions[b].block + 1 = Marks(u) /\ b \notin freed
    /\ \A n \in Refs(uploads[u].note) : NoteOf(u, notes[n])
    /\ \A w \in Held(u) : HandOf(u, w)
    /\ \A k \in DOMAIN announced :
          announced[k].upload = u /\ announced[k].counted => uploads[u].marked \subseteq taken[u]

\* Names share no note, and only http_feition counts.
RefsApart == \A f, g \in NoteNames : f # g => Refs(f) \cap Refs(g) = {}

FeiCounts ==
    /\ \A w \in Workers : Busy(w) /\ got[w].flen # 0 => Kind(w) = "Fei"
    /\ \A k \in DOMAIN announced : announced[k].counted => uploads[announced[k].upload].kind = "Fei"

CountOK == RefsApart /\ FeiCounts /\ \A u \in Ids : Plain(u) => CountOf(u)

\* The length of a note with one item more.
LEMMA LengthAppend ==
    ASSUME NEW items, items \in Seq(Item), NEW h, h \in Item
    PROVE  LengthOf(Append(items, h)) = LengthOf(items) + h.len /\ LengthOf(items) \in Nat
<1>1. PICK s : s = [k \in DOMAIN items |-> items[k].len]
  OBVIOUS
<1>2. h.len \in Nat
  BY DEF Item
<1>3. \A k \in 1..Len(items) : items[k].len \in Nat
  <2>1. \A k \in 1..Len(items) : items[k] \in Item
    OBVIOUS
  <2> QED
    BY <2>1 DEF Item
<1>4. s \in Seq(Nat) /\ Len(s) = Len(items)
  BY <1>1, <1>3
<1>5. [k \in DOMAIN Append(items, h) |-> Append(items, h)[k].len] = Append(s, h.len)
  <2>1. PICK r : r = [k \in DOMAIN Append(items, h) |-> Append(items, h)[k].len]
    OBVIOUS
  <2>2. DOMAIN Append(items, h) = 1..(Len(items) + 1)
    OBVIOUS
  <2>3. r \in Seq(Nat) /\ Len(r) = Len(items) + 1
    <3>1. \A k \in 1..(Len(items) + 1) : Append(items, h)[k].len \in Nat
      BY <1>2, <1>3
    <3> QED
      BY <2>1, <2>2, <3>1
  <2>4. \A k \in 1..Len(items) : r[k] = s[k]
    BY <1>1, <2>1, <2>2
  <2>5. r[Len(items) + 1] = h.len
    BY <2>1, <2>2
  <2>6. r = Append(s, h.len)
    BY <1>2, <1>4, <2>3, <2>4, <2>5
  <2> QED
    BY <2>1, <2>6
<1>6. Sum(Append(s, h.len)) = Sum(s) + h.len /\ Sum(s) \in Nat
  BY <1>2, <1>4, SumAppend, SumNat
<1> QED
  BY <1>1, <1>5, <1>6 DEF LengthOf

\* More parts may have been taken, and fewer wait to be counted.
LEMMA CountsWeaken ==
    ASSUME NEW items, NEW M, NEW T, NEW U, Counts(items, M, T, U),
           NEW T2, NEW U2, T \subseteq T2, U2 \cap T \subseteq U
    PROVE  Counts(items, M, T2, U2)
<1>1. PICK S, H : /\ S \in SUBSET (M \cap T) /\ H \in Nat /\ S \cap U = {}
                  /\ LengthOf(items) = 470 * H + Cardinality(S)
  BY ZenonT(60) DEF Counts
<1>2. S \in SUBSET (M \cap T2) /\ S \cap U2 = {}
  BY <1>1
<1>3. \E S2 \in SUBSET (M \cap T2) : \E H2 \in Nat :
         S2 \cap U2 = {} /\ LengthOf(items) = 470 * H2 + Cardinality(S2)
  BY <1>1, <1>2
<1> QED
  BY <1>3 DEF Counts

\* An empty note counts nothing.
LEMMA CountsEmpty == ASSUME NEW M, NEW T, NEW U PROVE Counts(<<>>, M, T, U)
<1>1. LengthOf(<<>>) = 0
  <2>1. [k \in DOMAIN <<>> |-> <<>>[k].len] = <<>>
    OBVIOUS
  <2> QED
    BY <2>1, SumEmpty DEF LengthOf
<1>2. Cardinality({}) = 0
  BY FS_EmptySet
<1>3. {} \in SUBSET (M \cap T) /\ {} \cap U = {} /\ 0 \in Nat /\ LengthOf(<<>>) = 470 * 0 + Cardinality({})
  BY <1>1, <1>2
<1>4. \E S \in SUBSET (M \cap T) : \E H \in Nat : S \cap U = {} /\ LengthOf(<<>>) = 470 * H + Cardinality(S)
  BY <1>3
<1>5. DOMAIN <<>> = {}
  OBVIOUS
<1> QED
  BY <1>4, <1>5 DEF Counts

\* A header changes no count.
LEMMA CountsHeader ==
    ASSUME NEW items, NEW M, NEW T, NEW U, Counts(items, M, T, U), items \in Seq(Item), IsFiniteSet(M),
           NEW h, h \in Item, h.len = 470, h.num = Cardinality(M)
    PROVE  Counts(Append(items, h), M, T, U)
<1>1. PICK S, H : /\ S \in SUBSET (M \cap T) /\ H \in Nat /\ S \cap U = {}
                  /\ LengthOf(items) = 470 * H + Cardinality(S)
  BY DEF Counts
<1>2. Cardinality(S) \in Nat
  <2>1. IsFiniteSet(S)
    BY <1>1, FS_Subset
  <2> QED
    BY <2>1, FS_CardinalityType
<1>3. LengthOf(Append(items, h)) = 470 * (H + 1) + Cardinality(S) /\ H + 1 \in Nat
  BY <1>1, <1>2, LengthAppend
<1>4. \A k \in DOMAIN Append(items, h) : k \in DOMAIN items \/ k = Len(items) + 1
  OBVIOUS
<1>5. \A k \in DOMAIN items : Append(items, h)[k] = items[k]
  OBVIOUS
<1>6. Append(items, h)[Len(items) + 1] = h
  OBVIOUS
<1>7. \A k \in DOMAIN Append(items, h) :
        \/ Append(items, h)[k] = One
        \/ Append(items, h)[k].len = 470 /\ Append(items, h)[k].num = Cardinality(M)
  BY <1>4, <1>5, <1>6 DEF Counts
<1>8. \E S2 \in SUBSET (M \cap T) : \E H2 \in Nat :
         S2 \cap U = {} /\ LengthOf(Append(items, h)) = 470 * H2 + Cardinality(S2)
  BY <1>1, <1>3, ZenonT(60)
<1> QED
  BY <1>7, <1>8 DEF Counts

\* A "1" counts a part that waited for it.
LEMMA CountsOne ==
    ASSUME NEW items, NEW M, NEW T, NEW U, Counts(items, M, T, U), items \in Seq(Item), IsFiniteSet(M),
           NEW i, i \in M, i \in T, i \in U, NEW U2, U2 \subseteq U, i \notin U2
    PROVE  Counts(Append(items, One), M, T, U2)
<1>1. PICK S, H : /\ S \in SUBSET (M \cap T) /\ H \in Nat /\ S \cap U = {}
                  /\ LengthOf(items) = 470 * H + Cardinality(S)
  BY DEF Counts
<1>2. PICK R : R = S \cup {i}
  OBVIOUS
<1>3. Cardinality(S) \in Nat /\ Cardinality(R) = Cardinality(S) + 1
  <2>1. IsFiniteSet(S) /\ i \notin S
    BY <1>1, FS_Subset
  <2> QED
    BY <1>2, <2>1, FS_CardinalityType, FS_AddElement
<1>4. One \in Item /\ One.len = 1
  BY OneIs
<1>5. LengthOf(Append(items, One)) = LengthOf(items) + 1
  BY <1>4, LengthAppend
<1>6. LengthOf(Append(items, One)) = 470 * H + Cardinality(R)
  BY <1>1, <1>3, <1>5
<1>7. R \in SUBSET (M \cap T) /\ R \cap U2 = {}
  BY <1>1, <1>2
<1>8. \A k \in DOMAIN Append(items, One) : k \in DOMAIN items \/ k = Len(items) + 1
  OBVIOUS
<1>9. \A k \in DOMAIN items : Append(items, One)[k] = items[k]
  OBVIOUS
<1>10. Append(items, One)[Len(items) + 1] = One
  OBVIOUS
<1>11. \A k \in DOMAIN Append(items, One) :
        \/ Append(items, One)[k] = One
        \/ Append(items, One)[k].len = 470 /\ Append(items, One)[k].num = Cardinality(M)
  BY <1>8, <1>9, <1>10 DEF Counts
<1>12. \E S2 \in SUBSET (M \cap T) : \E H2 \in Nat :
         S2 \cap U2 = {} /\ LengthOf(Append(items, One)) = 470 * H2 + Cardinality(S2)
  BY <1>1, <1>6, <1>7
<1> QED
  BY <1>11, <1>12 DEF Counts

\* The length that the last of the blocks gives a note.
LEMMA CountsLength ==
    ASSUME NEW items, NEW M, NEW T, NEW U, Counts(items, M, T, U), IsFiniteSet(M), Cardinality(M) <= 400,
           NEW i, i \in M, i \in T, i \in U
    PROVE  /\ LengthOf(items) + 1 # 470
           /\ LengthOf(items) + 1 = 470 + Cardinality(M) => M \subseteq T
<1>1. PICK S, H : /\ S \in SUBSET (M \cap T) /\ H \in Nat /\ S \cap U = {}
                  /\ LengthOf(items) = 470 * H + Cardinality(S)
  BY DEF Counts
<1>2. PICK R : R = S \cup {i}
  OBVIOUS
<1>3. R \subseteq M /\ R \subseteq T
  BY <1>1, <1>2
<1>4. Cardinality(S) \in Nat /\ Cardinality(R) = Cardinality(S) + 1
  <2>1. IsFiniteSet(S) /\ i \notin S
    BY <1>1, FS_Subset
  <2> QED
    BY <1>2, <2>1, FS_CardinalityType, FS_AddElement
<1>5. Cardinality(R) <= Cardinality(M) /\ Cardinality(M) \in Nat /\ (Cardinality(R) = Cardinality(M) => R = M)
  BY <1>3, FS_Subset, FS_CardinalityType
<1>6. PICK s, m : s = Cardinality(S) /\ m = Cardinality(M)
  OBVIOUS
<1>7. s \in Nat /\ m \in Nat /\ s + 1 <= m /\ m <= 400 /\ LengthOf(items) = 470 * H + s
  BY <1>1, <1>4, <1>5, <1>6
<1>8. 470 * H + s + 1 # 470 /\ (470 * H + s + 1 = 470 + m => s + 1 = m)
  BY <1>1, <1>7
<1>9. LengthOf(items) + 1 = 470 + Cardinality(M) => R = M
  BY <1>4, <1>5, <1>6, <1>7, <1>8
<1> QED
  BY <1>3, <1>7, <1>8, <1>9

\* What is read of such a note.
LEMMA CountsRead ==
    ASSUME NEW items, NEW M, NEW T, NEW U, Counts(items, M, T, U), items \in Seq(Item)
    PROVE  Read(items).num \in {0, Cardinality(M)}
<1>1. CASE items # <<>> /\ items[1].len = 470
  <2>1. 1 \in DOMAIN items
    BY <1>1
  <2>2. items[1] # One
    BY <1>1, OneIs
  <2>3. items[1].num = Cardinality(M)
    BY <2>1, <2>2 DEF Counts
  <2> QED
    BY <1>1, <2>3 DEF Read
<1>2. CASE ~(items # <<>> /\ items[1].len = 470)
  BY <1>2, OneIs DEF Read
<1> QED
  BY <1>1, <1>2

-----------------------------------------------------------------------------
(* What the steps of workers touch *)

\* A step touches no note but those of its own name.
Touches(w) ==
    /\ \A f \in NoteNames : f # Name(w) => note'[f] = note[f]
    /\ note'[Name(w)] \in Refs(Name(w)) \cup {0, Len(notes) + 1}
    /\ got'[w].fd \in Refs(Name(w)) \cup {0, Len(notes) + 1}
    /\ \A n \in 1..Len(notes) : n \notin Refs(Name(w)) => notes'[n] = notes[n]

\* Nothing is announced but by Tell.
Tells(w) ==
    \/ announced' = announced
    \/ \E r \in Report : /\ announced' = Append(announced, r) /\ r.upload = Upload(w)
                         /\ r.counted = (got[w].flen # 0) /\ pc[w] = "tell"

\* What a step that leaves the notes alone has to do with http_feition.
Quiet(w) ==
    /\ note' = note /\ notes' = notes
    /\ got'[w].fd \in {0, got[w].fd} /\ got'[w].flen \in {0, got[w].flen}
    /\ Kind(w) = "Fei" =>
          /\ pc'[w] \in {"idle", "session", "reopen", "begin", "tell", "reread", "remove", "insert"}
          /\ pc'[w] = "begin" => FindSession(w)
          /\ pc'[w] = "reopen" => pc[w] = "look"
          /\ pc'[w] = "tell" => pc[w] \in {"write", "reread"}
          /\ pc'[w] = "reread" => pc[w] = "rewrite" /\ NextCompletes(w)

\* The notes of a name are there.
LEMMA RefsAre ==
    ASSUME ChatTypes, NEW w \in Workers, Busy(w)
    PROVE  /\ note[Name(w)] \in Refs(Name(w)) \cup {0} /\ got[w].fd \in Refs(Name(w)) \cup {0}
           /\ Name(w) \in NoteNames /\ Len(notes) \in Nat
           /\ \A f \in NoteNames : Refs(f) \subseteq 1..Len(notes)
<1>1. Name(w) \in NoteNames /\ Len(notes) \in Nat
  BY HandIs
<1>2. note[Name(w)] \in Refs(Name(w)) \cup {0} /\ got[w].fd \in Refs(Name(w)) \cup {0}
  BY DEF Refs
<1>3. ASSUME NEW f \in NoteNames, NEW n \in Refs(f) PROVE n \in 1..Len(notes)
  <2>1. CASE n = note[f]
    BY <1>3, <2>1 DEF Refs, ChatTypes, FileOK
  <2>2. CASE \E v \in Workers : Busy(v) /\ n = got[v].fd
    <3>1. PICK v \in Workers : Busy(v) /\ n = got[v].fd
      BY <2>2
    <3>2. n \in Nat /\ n <= Len(notes) /\ n # 0
      BY <1>3, <3>1, HandIs DEF Refs
    <3> QED
      BY <1>1, <3>2
  <2> QED
    BY <1>3, <2>1, <2>2 DEF Refs
<1> QED
  BY <1>1, <1>2, <1>3

\* A worker that has gone on.
LEMMA GoneIs ==
    ASSUME ChatTypes, NEW w \in Workers, NEW place, NEW g, GoWith(w, place, g)
    PROVE  /\ pc'[w] = place
           /\ got'[w] = IF place = "idle" THEN Nothing ELSE g
           /\ place = "idle" => got'[w].fd = 0 /\ got'[w].flen = 0
           /\ place # "idle" => got'[w].fd = g.fd /\ got'[w].flen = g.flen /\ got'[w].num = g.num
<1>1. pc'[w] = place /\ got'[w] = IF place = "idle" THEN Nothing ELSE g
  BY DEF GoWith, ChatTypes, WorkOK
<1> QED
  BY <1>1, NothingIs

\* Looking leaves the notes alone.
LEMMA LookIsQuiet == ASSUME ChatTypes, NEW w \in Workers, Look(w) PROVE Quiet(w)
<1>1. note' = note /\ notes' = notes /\ pc[w] = "look" /\ got[w] \in Locals
  BY HandIs DEF Look, fileVars, Busy
<1>2. CASE note[Name(w)] = 0
  <2>1. GoWith(w, IF Kind(w) = "Fei" THEN "session" ELSE "begin", got[w])
    BY <1>2 DEF Look, Goto
  <2> QED
    BY <1>1, <2>1, GoneIs DEF Quiet
<1>3. CASE note[Name(w)] # 0
  <2>1. PICK h : GoWith(w, IF Kind(w) \in {"Fei", "Fei5"} THEN "reopen" ELSE "rewrite",
                        [got[w] EXCEPT !.uid = h.uid, !.num = h.num])
    BY <1>3 DEF Look
  <2>2. PICK g : g = [got[w] EXCEPT !.uid = h.uid, !.num = h.num]
    OBVIOUS
  <2>3. g.fd = got[w].fd /\ g.flen = got[w].flen
    BY <1>1, <2>2 DEF Locals
  <2>4. GoWith(w, IF Kind(w) \in {"Fei", "Fei5"} THEN "reopen" ELSE "rewrite", g)
    BY <2>1, <2>2
  <2> QED
    BY <1>1, <2>3, <2>4, GoneIs DEF Quiet
<1> QED
  BY <1>2, <1>3

\* So does find_hash.
LEMMA FindSessionIsQuiet == ASSUME ChatTypes, NEW w \in Workers, FindSession(w) PROVE Quiet(w)
<1>1. note' = note /\ notes' = notes /\ pc[w] = "session" /\ got[w] \in Locals
  BY HandIs DEF FindSession, fileVars, Busy
<1>2. PICK b : GoWith(w, IF b = NULL THEN "idle" ELSE "begin", [got[w] EXCEPT !.bucket = b])
  BY DEF FindSession
<1>3. PICK g : g = [got[w] EXCEPT !.bucket = b]
  OBVIOUS
<1>4. g.fd = got[w].fd /\ g.flen = got[w].flen
  BY <1>1, <1>3 DEF Locals
<1>5. GoWith(w, IF b = NULL THEN "idle" ELSE "begin", g)
  BY <1>2, <1>3
<1> QED
  BY <1>1, <1>4, <1>5, GoneIs DEF Quiet

\* So does the writing of a first part.
LEMMA WriteFirstIsQuiet == ASSUME ChatTypes, NEW w \in Workers, WriteFirst(w) PROVE Quiet(w)
<1>1. note' = note /\ notes' = notes /\ pc[w] = "write" /\ Busy(w)
  BY DEF WriteFirst, Busy
<1>2. PICK place : GoWith(w, place, FirstInf(w)) /\ place \in {"tell", "idle"}
  BY DEF WriteFirst
<1>3. FirstInf(w).fd = got[w].fd /\ FirstInf(w).flen = got[w].flen
  BY <1>1, FirstInfIs
<1> QED
  BY <1>1, <1>2, <1>3, GoneIs DEF Quiet

\* And of another.
LEMMA WriteNextIsQuiet == ASSUME ChatTypes, NEW w \in Workers, WriteNext(w) PROVE Quiet(w)
<1>1. note' = note /\ notes' = notes /\ pc[w] = "rewrite"
  BY DEF WriteNext
<1>2. PICK place : GoWith(w, place, got[w]) /\ place \in {"reread", "idle"} /\ (place = "reread" => NextCompletes(w))
  BY DEF WriteNext, Goto
<1> QED
  BY <1>1, <1>2, GoneIs DEF Quiet

\* Files of one POST have no note.
LEMMA FilesAreQuiet ==
    ASSUME ChatTypes, NEW w \in Workers, WholeFile(w) \/ Blog(w) PROVE Quiet(w)
<1>1. note' = note /\ notes' = notes /\ pc[w] \in {"whole", "blog"} /\ Busy(w)
  BY DEF WholeFile, Blog, Busy
<1>2. Kind(w) # "Fei" /\ got[w] \in Locals
  BY <1>1, HandIs DEF StageFor
<1>3. PICK place, uid : GoWith(w, place, [got[w] EXCEPT !.uid = uid]) \/ GoWith(w, "idle", got[w])
  BY DEF WholeFile, Blog, Leave, Goto
<1>4. PICK g : g = [got[w] EXCEPT !.uid = uid]
  OBVIOUS
<1>5. g.fd = got[w].fd /\ g.flen = got[w].flen
  BY <1>2, <1>4 DEF Locals
<1>6. GoWith(w, place, g) \/ GoWith(w, "idle", got[w])
  BY <1>3, <1>4
<1> QED
  BY <1>1, <1>2, <1>5, <1>6, GoneIs DEF Quiet

\* Reading once more.
LEMMA RereadIsQuiet == ASSUME ChatTypes, NEW w \in Workers, Reread(w) PROVE Quiet(w)
<1>1. note' = note /\ notes' = notes /\ pc[w] = "reread" /\ got[w] \in Locals
  BY HandIs DEF Reread, fileVars, Busy
<1>2. PICK place, fn, fs : GoWith(w, place, [got[w] EXCEPT !.fn = fn, !.fs = fs]) /\ place \in {"idle", "tell"}
  BY DEF Reread
<1>3. PICK g : g = [got[w] EXCEPT !.fn = fn, !.fs = fs]
  OBVIOUS
<1>4. g.fd = got[w].fd /\ g.flen = got[w].flen
  BY <1>1, <1>3 DEF Locals
<1>5. GoWith(w, place, g)
  BY <1>2, <1>3
<1> QED
  BY <1>1, <1>2, <1>4, <1>5, GoneIs DEF Quiet

\* Announcing.
LEMMA TellIsQuiet == ASSUME ChatTypes, NEW w \in Workers, Tell(w) PROVE Quiet(w)
<1>1. note' = note /\ notes' = notes /\ pc[w] = "tell"
  BY DEF Tell, fileVars
<1>2. PICK place : GoWith(w, place, got[w]) /\ place \in {"idle", "remove"}
  BY DEF Tell, Goto
<1> QED
  BY <1>1, <1>2, GoneIs DEF Quiet

\* The requests that open and close a session.
LEMMA SessionsAreQuiet ==
    ASSUME ChatTypes, NEW w \in Workers, InitSession(w) \/ InsertSession(w) \/ FinishSession(w)
    PROVE  Quiet(w)
<1>1. note' = note /\ notes' = notes
  BY DEF InitSession, InsertSession, FinishSession, fileVars
<1>2. PICK place : GoWith(w, place, got[w]) /\ place \in {"idle", "insert"}
  BY DEF InitSession, InsertSession, FinishSession, Leave, Goto
<1> QED
  BY <1>1, <1>2, GoneIs DEF Quiet

\* All steps but five are quiet.
LEMMA MostAreQuiet ==
    ASSUME ChatTypes, NEW w \in Workers, Work(w)
    PROVE  Quiet(w) \/ Begin(w) \/ Fill(w) \/ Reopen(w) \/ CountBlock(w) \/ RemoveNote(w)
  BY LookIsQuiet, FindSessionIsQuiet, WriteFirstIsQuiet, WriteNextIsQuiet, FilesAreQuiet, RereadIsQuiet,
     TellIsQuiet, SessionsAreQuiet DEF Work

\* Who announces.
LEMMA WorkTells == ASSUME ChatTypes, NEW w \in Workers, Work(w) PROVE Tells(w)
<1>1. CASE Look(w) \/ FindSession(w) \/ Begin(w) \/ Fill(w) \/ Reopen(w) \/ CountBlock(w)
  BY <1>1 DEF Look, FindSession, Begin, Fill, Reopen, CountBlock, histVars, Tells
<1>2. CASE WriteFirst(w) \/ WriteNext(w) \/ WholeFile(w) \/ Blog(w) \/ Reread(w) \/ RemoveNote(w)
  BY <1>2 DEF WriteFirst, WriteNext, WholeFile, Blog, Reread, RemoveNote, histVars, Tells
<1>3. CASE InitSession(w) \/ InsertSession(w) \/ FinishSession(w)
  BY <1>3 DEF InitSession, InsertSession, FinishSession, histVars, Tells
<1>4. CASE Tell(w)
  <2>1. CASE announced' = announced
    BY <2>1 DEF Tells
  <2>2. CASE announced' # announced
    <3>1. PICK r : r = [upload |-> Upload(w), uid |-> got[w].uid, fn |-> got[w].fn, fs |-> got[w].fs,
                        counted |-> got[w].flen # 0]
      OBVIOUS
    <3>2. pc[w] = "tell" /\ announced' = Append(announced, r)
      BY <1>4, <2>2, <3>1 DEF Tell
    <3>3. /\ Upload(w) \in Ids /\ got[w].uid \in Nat /\ got[w].fn \in Titles /\ got[w].fs \in Nat
      BY <3>2, HandIs DEF Busy
    <3>4. r \in Report /\ r.upload = Upload(w) /\ r.counted = (got[w].flen # 0)
      BY <3>1, <3>3 DEF Report
    <3> QED
      BY <3>2, <3>4 DEF Tells
  <2> QED
    BY <2>1, <2>2
<1> QED
  BY <1>1, <1>2, <1>3, <1>4 DEF Work

\* The steps that touch notes: Begin.
LEMMA BeginDoes ==
    ASSUME ChatTypes, NEW w \in Workers, Begin(w)
    PROVE  /\ pc[w] = "begin" /\ pc'[w] = "fill" /\ Busy(w)
           /\ OpenNote(w, Kind(w) # "Fei")
           /\ got'[w].fd = Opened(Name(w)) /\ got'[w].flen = 0
           /\ Kind(w) = "Fei" => \E s \in Contents(got[w].bucket) : got'[w].num = s.block + 1
<1>1. pc[w] = "begin" /\ Busy(w) /\ OpenNote(w, Kind(w) # "Fei")
  BY DEF Begin, Busy
<1>2. /\ got[w] \in Locals /\ got[w].flen = 0 /\ (Kind(w) = "Fei" => got[w].bucket \in 1..Len(sessions))
      /\ Name(w) \in NoteNames /\ uuids \in Nat
  <2>1. /\ got[w].bucket \in Nat /\ got[w].bucket <= Len(sessions) /\ Len(sessions) \in Nat
        /\ got[w] \in Locals /\ got[w].flen = 0 /\ Name(w) \in NoteNames /\ uuids \in Nat
        /\ (Kind(w) = "Fei" => got[w].bucket # 0)
    BY <1>1, HandIs DEF StageFor, NULL
  <2> QED
    BY <2>1
<1>3. Opened(Name(w)) \in Nat
  <2>1. PICK emptied \in BOOLEAN : OpenNote(w, emptied)
    BY <1>1
  <2> QED
    BY <1>2, <2>1, OpenIs DEF ChatTypes
<1>4. PICK old, fd : old = got[w] /\ fd = Opened(Name(w))
  OBVIOUS
<1>5. CASE Kind(w) = "Fei"
  <2>1. PICK s \in Contents(got[w].bucket) :
          GoWith(w, "fill", [got[w] EXCEPT !.uid = s.uid, !.num = s.block + 1, !.fn = s.fn,
                                           !.fs = s.fs, !.fd = Opened(Name(w))])
    BY <1>5 DEF Begin
  <2>2. s \in Record
    BY <1>2, <1>5, <2>1, ContentsIs DEF ChatTypes
  <2>3. PICK n, uid, fn, fs : /\ n = s.block + 1 /\ uid = s.uid /\ fn = s.fn /\ fs = s.fs
                              /\ n \in Nat /\ uid \in Nat /\ fn \in Titles /\ fs \in Nat
    BY <2>2 DEF Record
  <2>4. PICK g : g = Telling(old, uid, n, fn, fs, fd)
    OBVIOUS
  <2>5. GoWith(w, "fill", g)
    BY <1>4, <2>1, <2>3, <2>4 DEF Telling
  <2>6. g.flen = old.flen /\ g.fd = fd /\ g.num = n
    BY <1>2, <1>3, <1>4, <2>3, <2>4, TellingIs
  <2>7. got'[w].num = s.block + 1 /\ got'[w].fd = fd /\ got'[w].flen = 0 /\ pc'[w] = "fill"
    BY <1>2, <1>4, <2>3, <2>5, <2>6, GoneIs
  <2> QED
    BY <1>1, <1>4, <2>1, <2>7
<1>6. CASE Kind(w) # "Fei"
  <2>1. uuids' = uuids + 1 /\ KindOfBlock(w) \in Nat
    BY <1>6 DEF Begin, KindOfBlock
  <2>2. PICK n, uid : n = KindOfBlock(w) /\ uid = uuids' /\ n \in Nat /\ uid \in Nat
    BY <1>2, <2>1
  <2>3. PICK g : g = Noting(old, uid, n, fd)
    OBVIOUS
  <2>4. GoWith(w, "fill", g)
    BY <1>4, <1>6, <2>2, <2>3 DEF Begin, Noting
  <2>5. g.flen = old.flen /\ g.fd = fd
    BY <1>2, <1>3, <1>4, <2>2, <2>3, NotingIs
  <2>6. got'[w].fd = fd /\ got'[w].flen = 0 /\ pc'[w] = "fill"
    BY <1>2, <1>4, <2>4, <2>5, GoneIs
  <2> QED
    BY <1>1, <1>4, <1>6, <2>6
<1> QED
  BY <1>5, <1>6

\* Reopen.
LEMMA ReopenDoes ==
    ASSUME ChatTypes, NEW w \in Workers, Reopen(w)
    PROVE  /\ pc[w] = "reopen" /\ Busy(w) /\ Kind(w) \in {"Fei", "Fei5"}
           /\ Kind(w) = "Fei" =>
                 /\ OpenNote(w, FALSE) /\ pc'[w] = "count" /\ got'[w].fd = Opened(Name(w))
                 /\ got'[w].flen = IF Marked(w) THEN LengthOf(Items(w)) + 1 ELSE 0
           /\ Kind(w) = "Fei5" =>
                 /\ note' = note /\ notes' = notes /\ got'[w].fd \in {0, got[w].fd} /\ got'[w].flen = 0
<1>1. pc[w] = "reopen" /\ Busy(w)
  BY DEF Reopen, Busy
<1>2. /\ got[w] \in Locals /\ got[w].flen = 0 /\ Kind(w) \in {"Fei", "Fei5"} /\ Name(w) \in NoteNames
  BY <1>1, HandIs DEF StageFor
<1>3. CASE Kind(w) = "Fei"
  <2>1. OpenNote(w, FALSE) /\ GoWith(w, "count", Reopened(w))
    BY <1>3 DEF Reopen
  <2>2. PICK g, flen, fd : /\ g = Reopened(w) /\ fd = Opened(Name(w))
                           /\ flen = IF Marked(w) THEN LengthOf(Items(w)) + 1 ELSE 0
    OBVIOUS
  <2>3. flen \in Nat
    BY <1>2, <2>2, ItemsIs, LengthNat DEF ChatTypes
  <2>4. fd \in Nat
    <3>1. PICK emptied \in BOOLEAN : OpenNote(w, emptied)
      BY <2>1
    <3> QED
      BY <1>2, <2>2, <3>1, OpenIs DEF ChatTypes
  <2>5. g = [got[w] EXCEPT !.fd = fd, !.flen = flen]
    BY <2>2 DEF Reopened
  <2>6. g.fd = fd /\ g.flen = flen
    BY <1>2, <2>3, <2>4, <2>5 DEF Locals
  <2>7. pc'[w] = "count" /\ got'[w].fd = fd /\ got'[w].flen = flen
    BY <2>1, <2>2, <2>6, GoneIs
  <2> QED
    BY <1>1, <1>3, <2>1, <2>2, <2>7
<1>4. CASE Kind(w) = "Fei5"
  <2>1. note' = note /\ notes' = notes
    BY <1>4 DEF Reopen
  <2>2. PICK place, uid : GoWith(w, "idle", got[w]) \/ GoWith(w, place, [got[w] EXCEPT !.uid = uid])
    BY <1>4 DEF Reopen, Leave, Goto
  <2>3. PICK g : g = [got[w] EXCEPT !.uid = uid]
    OBVIOUS
  <2>4. g.fd = got[w].fd /\ g.flen = got[w].flen
    BY <1>2, <2>3 DEF Locals
  <2>5. GoWith(w, "idle", got[w]) \/ GoWith(w, place, g)
    BY <2>2, <2>3
  <2>6. got'[w].fd \in {0, got[w].fd} /\ got'[w].flen = 0
    BY <1>2, <2>4, <2>5, GoneIs
  <2> QED
    BY <1>1, <1>4, <2>1, <2>6
<1> QED
  BY <1>2, <1>3, <1>4

\* Fill.
LEMMA FillDoes ==
    ASSUME ChatTypes, NEW w \in Workers, Fill(w)
    PROVE  /\ pc[w] = "fill" /\ pc'[w] = "write" /\ Busy(w) /\ note' = note /\ got'[w] = got[w]
           /\ got[w].fd \in 1..Len(notes) /\ got[w].flen = 0
           /\ notes'[got[w].fd] = Filled(w, notes[got[w].fd])
           /\ \A n \in 1..Len(notes) : n # got[w].fd => notes'[n] = notes[n]
<1>1. pc[w] = "fill" /\ Busy(w) /\ note' = note /\ GoWith(w, "write", got[w])
  BY DEF Fill, Busy, Goto
<1>2. pc'[w] = "write" /\ got'[w] = got[w] /\ got[w].flen = 0
  BY <1>1, GoneIs, HandIs DEF StageFor
<1>3. /\ got[w].fd \in 1..Len(notes) /\ notes' = [notes EXCEPT ![got[w].fd] = Filled(w, notes[got[w].fd])]
      /\ notes \in Seq(Seq(Item))
  BY FillIs DEF ChatTypes, FileOK
<1>4. PICK d, x : d = got[w].fd /\ x = Filled(w, notes[got[w].fd])
  OBVIOUS
<1>5. notes' = [notes EXCEPT ![d] = x] /\ d \in 1..Len(notes) /\ DOMAIN notes = 1..Len(notes)
  BY <1>3, <1>4
<1>6. notes'[d] = x /\ \A n \in 1..Len(notes) : n # d => notes'[n] = notes[n]
  BY <1>5
<1> QED
  BY <1>1, <1>2, <1>3, <1>4, <1>6

\* CountBlock.
LEMMA CountDoes ==
    ASSUME ChatTypes, NEW w \in Workers, CountBlock(w)
    PROVE  /\ pc[w] = "count" /\ pc'[w] = "rewrite" /\ Busy(w) /\ note' = note /\ Kind(w) = "Fei"
           /\ got[w].fd \in 1..Len(notes)
           /\ got'[w].fd = got[w].fd /\ got'[w].flen = got[w].flen
           /\ notes'[got[w].fd] = Counted(w, notes[got[w].fd])
           /\ got'[w].num = Read(notes'[got[w].fd]).num
           /\ \A n \in 1..Len(notes) : n # got[w].fd => notes'[n] = notes[n]
<1>1. pc[w] = "count" /\ Busy(w) /\ note' = note
  BY DEF CountBlock, Busy
<1>2. got[w] \in Locals /\ Kind(w) = "Fei"
  BY <1>1, HandIs DEF StageFor
<1>3. /\ got[w].fd \in 1..Len(notes) /\ notes' = [notes EXCEPT ![got[w].fd] = Counted(w, notes[got[w].fd])]
      /\ notes'[got[w].fd] = Counted(w, notes[got[w].fd]) /\ notes \in Seq(Seq(Item))
  BY CountIs DEF ChatTypes, FileOK
<1>4. PICK d, x : d = got[w].fd /\ x = Counted(w, notes[got[w].fd])
  OBVIOUS
<1>5. notes' = [notes EXCEPT ![d] = x] /\ d \in 1..Len(notes) /\ DOMAIN notes = 1..Len(notes)
  BY <1>3, <1>4
<1>6. \A n \in 1..Len(notes) : n # d => notes'[n] = notes[n]
  BY <1>5
<1>7. PICK h, g : h = Read(notes'[got[w].fd]) /\ g = [got[w] EXCEPT !.uid = h.uid, !.num = h.num]
  OBVIOUS
<1>8. GoWith(w, "rewrite", g)
  BY <1>7 DEF CountBlock
<1>9. g.fd = got[w].fd /\ g.flen = got[w].flen /\ g.num = h.num
  BY <1>2, <1>7 DEF Locals
<1>10. pc'[w] = "rewrite" /\ got'[w].fd = got[w].fd /\ got'[w].flen = got[w].flen /\ got'[w].num = h.num
  BY <1>8, <1>9, GoneIs
<1> QED
  BY <1>1, <1>2, <1>3, <1>4, <1>6, <1>7, <1>10

\* RemoveNote.
LEMMA RemoveDoes ==
    ASSUME ChatTypes, NEW w \in Workers, RemoveNote(w)
    PROVE  /\ pc[w] = "remove" /\ pc'[w] = "idle" /\ Busy(w) /\ notes' = notes
           /\ note'[Name(w)] = 0 /\ \A f \in NoteNames : f # Name(w) => note'[f] = note[f]
           /\ got'[w].fd = 0 /\ got'[w].flen = 0
<1>1. /\ pc[w] = "remove" /\ Busy(w) /\ notes' = notes /\ note' = [note EXCEPT ![Name(w)] = 0]
      /\ GoWith(w, "idle", got[w])
  BY DEF RemoveNote, Busy, Leave, Goto
<1>2. DOMAIN note = NoteNames /\ Name(w) \in NoteNames
  BY <1>1, HandIs DEF ChatTypes, FileOK
<1> QED
  BY <1>1, <1>2, GoneIs

\* Opening a note touches only that of the name.
LEMMA OpenTouches ==
    ASSUME ChatTypes, NEW w \in Workers, Busy(w), NEW emptied \in BOOLEAN, OpenNote(w, emptied),
           got'[w].fd = Opened(Name(w))
    PROVE  Touches(w)
<1>1. Name(w) \in NoteNames /\ note[Name(w)] \in Refs(Name(w)) \cup {0} /\ Len(notes) \in Nat
  BY RefsAre
<1>2. /\ note' = [note EXCEPT ![Name(w)] = Opened(Name(w))]
      /\ \A n \in 1..Len(notes) : n # Opened(Name(w)) => notes'[n] = notes[n]
      /\ DOMAIN note = NoteNames
  BY <1>1, OpenIs DEF ChatTypes, FileOK
<1>3. Opened(Name(w)) \in Refs(Name(w)) \cup {Len(notes) + 1}
  BY <1>1 DEF Opened
<1>4. \A n \in 1..Len(notes) : n \notin Refs(Name(w)) => n # Opened(Name(w))
  BY <1>1, <1>3
<1> QED
  BY <1>1, <1>2, <1>3, <1>4 DEF Touches

\* So every step touches only those.
LEMMA WorkTouches == ASSUME ChatTypes, NEW w \in Workers, Work(w) PROVE Touches(w)
<1>1. /\ Busy(w) /\ note[Name(w)] \in Refs(Name(w)) \cup {0} /\ got[w].fd \in Refs(Name(w)) \cup {0}
      /\ Name(w) \in NoteNames
  BY WorkIs, RefsAre
<1>2. CASE Quiet(w)
  BY <1>1, <1>2 DEF Touches, Quiet
<1>3. CASE Begin(w)
  <2>1. PICK emptied \in BOOLEAN : emptied = (Kind(w) # "Fei") /\ OpenNote(w, emptied) /\ got'[w].fd = Opened(Name(w))
    BY <1>3, BeginDoes
  <2> QED
    BY <1>1, <2>1, OpenTouches
<1>4. CASE Fill(w)
  BY <1>1, <1>4, FillDoes DEF Touches
<1>5. CASE Reopen(w)
  <2>1. CASE Kind(w) = "Fei"
    <3>1. PICK emptied \in BOOLEAN : OpenNote(w, emptied) /\ got'[w].fd = Opened(Name(w))
      BY <1>5, <2>1, ReopenDoes
    <3> QED
      BY <1>1, <3>1, OpenTouches
  <2>2. CASE Kind(w) = "Fei5"
    BY <1>1, <1>5, <2>2, ReopenDoes DEF Touches
  <2> QED
    BY <1>5, <2>1, <2>2, ReopenDoes
<1>6. CASE CountBlock(w)
  BY <1>1, <1>6, CountDoes DEF Touches
<1>7. CASE RemoveNote(w)
  BY <1>1, <1>7, RemoveDoes DEF Touches
<1> QED
  BY <1>2, <1>3, <1>4, <1>5, <1>6, <1>7, MostAreQuiet

\* What a step does to the notes that names lead to.
LEMMA RefsMove ==
    ASSUME ChatTypes, NEW w \in Workers, Work(w)
    PROVE  /\ \A f \in NoteNames : f # Name(w) => Refs(f)' = Refs(f)
           /\ \A f \in NoteNames : f = Name(w) => Refs(f)' \subseteq Refs(f) \cup {Len(notes) + 1}
<1>1. Touches(w) /\ Name(w) \in NoteNames /\ uploads' = uploads
  BY WorkIs, RefsAre, WorkTouches
<1>2. /\ \A v \in Workers : v # w => pc'[v] = pc[v] /\ post'[v] = post[v] /\ got'[v] = got[v]
      /\ \A v \in Workers : Busy(v)' => Busy(v) /\ Name(v)' = Name(v)
  BY OthersAre
<1>3. \A v \in Workers : v # w => Busy(v)' = Busy(v) /\ Name(v)' = Name(v)
  BY <1>1, <1>2 DEF Busy, Name, Upload
<1>4. ASSUME NEW f \in NoteNames, f # Name(w) PROVE Refs(f)' = Refs(f)
  <2>1. {v \in Workers : Busy(v) /\ Name(v) = f}' = {v \in Workers : Busy(v) /\ Name(v) = f}
    BY <1>2, <1>3, <1>4
  <2>2. \A v \in {x \in Workers : Busy(x) /\ Name(x) = f} : got'[v].fd = got[v].fd
    BY <1>2, <1>4
  <2>3. note'[f] = note[f]
    BY <1>1, <1>4 DEF Touches
  <2> QED
    BY <2>1, <2>2, <2>3 DEF Refs
<1>5. ASSUME NEW f \in NoteNames, f = Name(w), NEW n \in Refs(f)' PROVE n \in Refs(f) \cup {Len(notes) + 1}
  <2>1. n # 0
    BY <1>5 DEF Refs
  <2>2. CASE n = note'[f]
    BY <1>1, <1>5, <2>1, <2>2 DEF Touches
  <2>3. CASE n # note'[f]
    <3>1. PICK v \in Workers : Busy(v)' /\ Name(v)' = f /\ n = got'[v].fd
      BY <1>5, <2>3 DEF Refs
    <3>2. CASE v = w
      BY <1>1, <1>5, <2>1, <3>1, <3>2 DEF Touches
    <3>3. CASE v # w
      BY <1>2, <1>3, <2>1, <3>1, <3>3 DEF Refs
    <3> QED
      BY <3>2, <3>3
  <2> QED
    BY <2>2, <2>3
<1> QED
  BY <1>4, <1>5

\* Sessions change in two places.
LEMMA SessionsMove ==
    ASSUME ChatTypes, NEW w \in Workers, Work(w)
    PROVE  (sessions' = sessions /\ freed' = freed) \/ InsertSession(w) \/ FinishSession(w)
<1>1. CASE Look(w) \/ FindSession(w) \/ Begin(w) \/ Fill(w) \/ Reopen(w) \/ CountBlock(w)
  BY <1>1 DEF Look, FindSession, Begin, Fill, Reopen, CountBlock, sessionVars
<1>2. CASE WriteFirst(w) \/ WriteNext(w) \/ WholeFile(w) \/ Blog(w) \/ Reread(w) \/ RemoveNote(w)
  BY <1>2 DEF WriteFirst, WriteNext, WholeFile, Blog, Reread, RemoveNote, sessionVars
<1>3. CASE InitSession(w) \/ Tell(w)
  BY <1>3 DEF InitSession, Tell, sessionVars
<1> QED
  BY <1>1, <1>2, <1>3 DEF Work

\* Names go on sharing no note.
LEMMA RefsStayApart == ASSUME ChatTypes, RefsApart, NEW w \in Workers, Work(w) PROVE RefsApart'
<1>1. NoteNames' = NoteNames /\ Name(w) \in NoteNames /\ Len(notes) \in Nat
      /\ \A f \in NoteNames : Refs(f) \subseteq 1..Len(notes)
  BY WorkIs, RefsAre DEF NoteNames, Ids
<1>2. PICK x : x = Name(w)
  OBVIOUS
<1>3. /\ \A f \in NoteNames : f # x => Refs(f)' = Refs(f)
      /\ Refs(x)' \subseteq Refs(x) \cup {Len(notes) + 1}
  BY <1>1, <1>2, RefsMove
<1>4. ASSUME NEW f \in NoteNames, f # x PROVE Refs(f)' \cap Refs(x)' = {}
  <2>1. Refs(f) \cap Refs(x) = {} /\ Len(notes) + 1 \notin Refs(f)
    BY <1>1, <1>2, <1>4 DEF RefsApart
  <2> QED
    BY <1>3, <1>4, <2>1
<1>5. ASSUME NEW f \in NoteNames, NEW g \in NoteNames, f # g PROVE Refs(f)' \cap Refs(g)' = {}
  <2>1. CASE f # x /\ g # x
    BY <1>3, <1>5, <2>1 DEF RefsApart
  <2>2. CASE g = x
    BY <1>4, <1>5, <2>2
  <2>3. CASE f = x
    BY <1>4, <1>5, <2>3
  <2> QED
    BY <2>1, <2>2, <2>3
<1> QED
  BY <1>1, <1>5 DEF RefsApart

\* Only http_feition measures a note.
LEMMA LengthMoves ==
    ASSUME ChatTypes, NEW w \in Workers, Work(w), got'[w].flen # 0
    PROVE  Kind(w) = "Fei" \/ got'[w].flen = got[w].flen
<1>1. CASE Quiet(w)
  BY <1>1 DEF Quiet
<1>2. CASE Begin(w) \/ Fill(w) \/ CountBlock(w) \/ RemoveNote(w)
  BY <1>2, BeginDoes, FillDoes, CountDoes, RemoveDoes
<1>3. CASE Reopen(w)
  BY <1>3, ReopenDoes
<1> QED
  BY <1>1, <1>2, <1>3, MostAreQuiet

\* So only its files are announced as counted.
LEMMA FeiStillCounts == ASSUME ChatTypes, FeiCounts, NEW w \in Workers, Work(w) PROVE FeiCounts'
<1>1. uploads' = uploads /\ Busy(w) /\ announced \in Seq(Report)
  BY WorkIs DEF ChatTypes, HistOK
<1>2. /\ \A v \in Workers : v # w => pc'[v] = pc[v] /\ post'[v] = post[v] /\ got'[v] = got[v]
      /\ \A v \in Workers : Busy(v)' => Busy(v) /\ Kind(v)' = Kind(v)
  BY OthersAre
<1>3. ASSUME NEW v \in Workers, Busy(v)', got'[v].flen # 0 PROVE Kind(v)' = "Fei"
  <2>1. CASE v = w
    BY <1>2, <1>3, <2>1, LengthMoves DEF FeiCounts
  <2>2. CASE v # w
    BY <1>2, <1>3, <2>2 DEF FeiCounts
  <2> QED
    BY <2>1, <2>2
<1>4. ASSUME NEW k \in DOMAIN announced', announced'[k].counted
      PROVE  uploads[announced'[k].upload].kind = "Fei"
  <2>1. CASE announced' = announced
    BY <1>4, <2>1 DEF FeiCounts
  <2>2. CASE announced' # announced
    <3>1. PICK r \in Report : /\ announced' = Append(announced, r) /\ r.upload = Upload(w)
                              /\ r.counted = (got[w].flen # 0)
      BY <2>2, WorkTells DEF Tells
    <3>2. CASE k \in DOMAIN announced
      BY <1>1, <1>4, <3>1, <3>2 DEF FeiCounts
    <3>3. CASE k \notin DOMAIN announced
      <4>1. announced'[k] = r
        BY <1>1, <1>4, <3>1, <3>3
      <4> QED
        BY <1>1, <1>4, <3>1, <4>1 DEF FeiCounts, Kind
    <3> QED
      BY <3>2, <3>3
  <2> QED
    BY <2>1, <2>2
<1> QED
  BY <1>1, <1>3, <1>4 DEF FeiCounts

\* What is said of an upload does not depend on those that work on others.
LEMMA PlainIs ==
    ASSUME uploads' = uploads, NEW u \in Ids
    PROVE  /\ Marks(u)' = Marks(u) /\ Met(u)' = Met(u) /\ Count(u)' = Count(u) /\ Ids' = Ids
           /\ taken[u] \subseteq taken'[u] /\ Plain(u)' => Plain(u)
           /\ taken' = taken => Plain(u)' = Plain(u)
<1>1. Marks(u)' = Marks(u) /\ Met(u)' = Met(u) /\ Count(u)' = Count(u) /\ Ids' = Ids
  BY DEF Marks, Met, Count, Ids
<1> QED
  BY <1>1 DEF Plain

\* Another upload than a plain one has another note and another session.
LEMMA PlainNames ==
    ASSUME ChatTypes, NEW u \in Ids, Plain(u), NEW v \in Ids, v # u
    PROVE  /\ uploads[v].note # uploads[u].note
           /\ ~(uploads[v].kind = "Fei" /\ uploads[v].conn = uploads[u].conn)
  BY DEF Plain, Met

\* Announcements of others.
LEMMA AnnouncedByOthers ==
    ASSUME ChatTypes, NEW w \in Workers, Work(w), NEW u, Upload(w) # u,
           NEW k \in DOMAIN announced', announced'[k].upload = u
    PROVE  k \in DOMAIN announced /\ announced'[k] = announced[k]
<1>1. announced \in Seq(Report)
  BY DEF ChatTypes, HistOK
<1>2. CASE announced' = announced
  BY <1>2
<1>3. CASE announced' # announced
  <2>1. PICK r \in Report : announced' = Append(announced, r) /\ r.upload = Upload(w)
    BY <1>3, WorkTells DEF Tells
  <2> QED
    BY <1>1, <2>1
<1> QED
  BY <1>2, <1>3

\* Sessions of others.
LEMMA SessionsOfOthers ==
    ASSUME ChatTypes, SessionsOK, NEW w \in Workers, Work(w), NEW u \in Ids, Plain(u), Upload(w) # u,
           NEW b \in DOMAIN sessions', sessions'[b].of = u
    PROVE  b \in DOMAIN sessions /\ sessions'[b] = sessions[b] /\ (b \in freed' => b \in freed)
<1>1. Upload(w) \in Ids
  BY WorkIs, HandIs
<1>2. CASE sessions' = sessions /\ freed' = freed
  BY <1>2
<1>3. CASE InsertSession(w)
  <2>1. /\ Len(sessions') = Len(sessions) + 1 /\ Len(sessions) \in Nat /\ sessions' \in Seq(Record)
        /\ sessions'[Len(sessions) + 1].of = Upload(w) /\ freed' = freed
        /\ \A c \in 1..Len(sessions) : sessions'[c] = sessions[c]
        /\ sessions \in Seq(Record)
    BY <1>3, InsertSessionIs DEF ChatTypes, SessionOK
  <2>2. b \in 1..Len(sessions) + 1 /\ b # Len(sessions) + 1
    BY <2>1
  <2>3. b \in 1..Len(sessions)
    BY <2>1, <2>2
  <2> QED
    BY <2>1, <2>3
<1>4. CASE FinishSession(w)
  <2>1. /\ sessions' = sessions /\ Kind(w) = "Fei"
        /\ \/ freed' = freed
           \/ \E c \in In(tbl) : tbl.key[c] = Conn(w) /\ c \in DOMAIN sessions /\ freed' = freed \cup {c}
    BY <1>4, FinishIs
  <2>2. ASSUME NEW c \in In(tbl), tbl.key[c] = Conn(w), c = b PROVE FALSE
    <3>1. uploads[u].conn = Conn(w) /\ uploads[u].kind = "Fei"
      BY <2>1, <2>2 DEF ChatTypes, SessionOK, SessionsOK
    <3> QED
      BY <1>1, <2>1, <3>1, PlainNames DEF Conn, Kind
  <2> QED
    BY <2>1, <2>2
<1> QED
  BY <1>2, <1>3, <1>4, SessionsMove

\* What is said of a plain upload is kept by the work on others.
LEMMA OthersKeepCount ==
    ASSUME ChatTypes, SessionsOK, RefsApart, NEW w \in Workers, Work(w),
           NEW u \in Ids, Plain(u), CountOf(u), Upload(w) # u
    PROVE  CountOf(u)'
<1>1. /\ uploads' = uploads /\ taken' = taken /\ Busy(w) /\ Marks(u)' = Marks(u) /\ Upload(w) \in Ids
      /\ Name(w) \in NoteNames /\ uploads[u].note \in NoteNames /\ uploads[u].note # Name(w)
  BY WorkIs, HandIs, PlainIs, PlainNames DEF Name, NoteNames
<1>2. /\ \A v \in Workers : v # w => pc'[v] = pc[v] /\ post'[v] = post[v] /\ got'[v] = got[v]
      /\ Held(u)' = Held(u)
  BY OthersAre
<1>3. \A v \in Held(u) : v # w /\ v \in Workers
  BY DEF Held
<1>4. \A v \in Held(u) : Number(v)' = Number(v)
  BY <1>2, <1>3 DEF Number
<1>5. Uncounted(u)' = Uncounted(u)
  <2>1. {v \in Held(u) : pc[v] \in {"look", "reopen", "count"}}' = {v \in Held(u) : pc[v] \in {"look", "reopen", "count"}}
    BY <1>2, <1>3
  <2> QED
    BY <1>4, <2>1 DEF Uncounted
<1>6. ASSUME NEW f, f = uploads[u].note, NEW n \in Refs(f)' PROVE NoteOf(u, notes[n])'
  <2>1. n \in Refs(f) /\ n \in 1..Len(notes) /\ n \notin Refs(Name(w))
    BY <1>1, <1>6, RefsMove, RefsAre DEF RefsApart
  <2>2. notes'[n] = notes[n]
    BY <2>1, WorkTouches DEF Touches
  <2>3. NoteOf(u, notes[n])
    BY <1>6, <2>1 DEF CountOf
  <2> QED
    BY <1>1, <1>5, <2>2, <2>3 DEF NoteOf
<1>7. ASSUME NEW b \in DOMAIN sessions', sessions'[b].of = u
      PROVE  sessions'[b].block + 1 = Marks(u)' /\ b \notin freed'
  BY <1>1, <1>7, SessionsOfOthers DEF CountOf
<1>8. ASSUME NEW v \in Held(u)' PROVE HandOf(u, v)'
  <2>1. v \in Held(u) /\ pc'[v] = pc[v] /\ got'[v] = got[v]
    BY <1>2, <1>3, <1>8
  <2>2. pc[v] = "begin" => sessions'[got[v].bucket].of = u
    <3>1. SUFFICES ASSUME pc[v] = "begin" PROVE sessions'[got[v].bucket].of = u
      OBVIOUS
    <3>2. sessions[got[v].bucket].of = u
      BY <2>1, <3>1 DEF CountOf, HandOf
    <3>3. got[v].bucket \in 1..Len(sessions)
      <4>1. Busy(v) /\ v \in Workers /\ Kind(v) = "Fei"
        BY <2>1 DEF Held, Plain, Kind
      <4>2. got[v].bucket \in Nat /\ got[v].bucket # 0 /\ got[v].bucket <= Len(sessions) /\ Len(sessions) \in Nat
        BY <3>1, <4>1, HandIs DEF StageFor, NULL
      <4> QED
        BY <4>2
    <3>4. sessions'[got[v].bucket] = sessions[got[v].bucket]
      BY <3>3, SessionsMove, InsertSessionIs, FinishIs
    <3> QED
      BY <3>2, <3>4
  <2> QED
    BY <1>1, <2>1, <2>2 DEF CountOf, HandOf
<1>9. ASSUME NEW k \in DOMAIN announced', announced'[k].upload = u, announced'[k].counted
      PROVE  uploads'[u].marked \subseteq taken'[u]
  <2>1. k \in DOMAIN announced /\ announced'[k] = announced[k]
    BY <1>9, AnnouncedByOthers
  <2> QED
    BY <1>1, <1>9, <2>1 DEF CountOf
<1>10. \A n \in Refs(uploads[u].note)' : NoteOf(u, notes[n])'
  <2>1. PICK f : f = uploads[u].note
    OBVIOUS
  <2>2. Refs(uploads[u].note)' = Refs(f)'
    BY <1>1, <2>1 DEF Refs
  <2> QED
    BY <1>6, <2>1, <2>2
<1> QED
  BY <1>7, <1>8, <1>9, <1>10 DEF CountOf

-----------------------------------------------------------------------------
(* The steps of workers on the upload itself *)

\* A worker on a plain upload.
LEMMA OwnIs ==
    ASSUME ChatTypes, NEW w \in Workers, Busy(w), NEW u, u = Upload(w), Plain(u), CountOf(u)
    PROVE  /\ u \in Ids /\ Kind(w) = "Fei" /\ w \in Held(u) /\ HandOf(u, w) /\ Name(w) = uploads[u].note
           /\ Name(w) \in NoteNames /\ IsFiniteSet(uploads[u].marked) /\ Marks(u) \in Nat
           /\ Number(w) \in taken[u] /\ pc[w] # "finish"
           /\ pc[w] \in PartPlaces => Number(w) \in 1..Count(u)
<1>1. u \in Ids /\ Kind(w) = "Fei" /\ w \in Held(u) /\ Name(w) = uploads[u].note /\ Name(w) \in NoteNames
      /\ Number(w) \in taken[u] /\ StageFor(w, pc[w], got[w])
  BY HandIs DEF Plain, Kind, Held, Name
<1>2. HandOf(u, w)
  BY <1>1 DEF CountOf
<1>3. IsFiniteSet(uploads[u].marked)
  <2>1. uploads[u].marked \subseteq 1..Count(u) /\ Count(u) \in Nat
    BY <1>1, UploadIs DEF ChatTypes, PlanOK
  <2>2. IsFiniteSet(1..Count(u))
    BY <2>1, FS_Interval
  <2> QED
    BY <2>1, <2>2, FS_Subset
<1>4. Marks(u) \in Nat
  BY <1>3, FS_CardinalityType DEF Marks
<1>5. pc[w] # "finish" /\ (pc[w] \in PartPlaces => Number(w) \in 1..Count(u))
  BY <1>1 DEF StageFor, Plain
<1> QED
  BY <1>1, <1>2, <1>3, <1>4, <1>5

\* Its session tells the number of its marked parts.
LEMMA OwnSessions ==
    ASSUME ChatTypes, NEW w \in Workers, Work(w), NEW u, u = Upload(w), Plain(u), CountOf(u),
           NEW b \in DOMAIN sessions', sessions'[b].of = u
    PROVE  sessions'[b].block + 1 = Marks(u) /\ b \notin freed'
<1>1. Busy(w) /\ pc[w] # "finish" /\ Marks(u) \in Nat
  BY WorkIs, OwnIs
<1>2. CASE sessions' = sessions /\ freed' = freed
  BY <1>2 DEF CountOf
<1>3. CASE InsertSession(w)
  <2>1. /\ Len(sessions') = Len(sessions) + 1 /\ Len(sessions) \in Nat /\ sessions' \in Seq(Record)
        /\ sessions'[Len(sessions) + 1].block = Marks(u) - 1 /\ freed' = freed
        /\ Len(sessions) + 1 \notin freed
        /\ \A c \in 1..Len(sessions) : sessions'[c] = sessions[c]
        /\ sessions \in Seq(Record)
    BY <1>3, InsertSessionIs DEF ChatTypes, SessionOK, Marks
  <2>2. CASE b = Len(sessions) + 1
    BY <1>1, <2>1, <2>2
  <2>3. CASE b # Len(sessions) + 1
    <3>1. b \in 1..Len(sessions)
      BY <2>1, <2>3
    <3> QED
      BY <2>1, <3>1 DEF CountOf
  <2> QED
    BY <2>2, <2>3
<1>4. ~FinishSession(w)
  BY <1>1 DEF FinishSession
<1> QED
  BY <1>2, <1>3, <1>4, SessionsMove

\* It announces as counted only what is complete.
LEMMA OwnAnnounced ==
    ASSUME ChatTypes, NEW w \in Workers, Work(w), NEW u, u = Upload(w), Plain(u), CountOf(u),
           NEW k \in DOMAIN announced', announced'[k].upload = u, announced'[k].counted
    PROVE  uploads[u].marked \subseteq taken[u]
<1>1. Busy(w) /\ HandOf(u, w) /\ announced \in Seq(Report)
  BY WorkIs, OwnIs DEF ChatTypes, HistOK
<1>2. CASE announced' = announced
  BY <1>2 DEF CountOf
<1>3. CASE announced' # announced
  <2>1. PICK r \in Report : /\ announced' = Append(announced, r)
                            /\ r.counted = (got[w].flen # 0) /\ pc[w] = "tell"
    BY <1>3, WorkTells DEF Tells
  <2>2. CASE k \in DOMAIN announced
    BY <1>1, <2>1, <2>2 DEF CountOf
  <2>3. CASE k \notin DOMAIN announced
    <3>1. announced'[k] = r
      BY <1>1, <2>1, <2>3
    <3> QED
      BY <1>1, <2>1, <3>1 DEF HandOf
  <2> QED
    BY <2>2, <2>3
<1> QED
  BY <1>2, <1>3

\* A part waits to be counted until it is.
LEMMA UncountedShrinks ==
    ASSUME ChatTypes, OrderOK, NEW w \in Workers, Work(w), NEW u, u = Upload(w), Plain(u), CountOf(u)
    PROVE  /\ Uncounted(u)' \subseteq Uncounted(u)
           /\ CountBlock(w) => Number(w) \notin Uncounted(u)'
           /\ pc[w] \in {"look", "reopen", "count"} => Number(w) \in Uncounted(u)
<1>1. Busy(w) /\ Kind(w) = "Fei" /\ w \in Held(u)
  BY WorkIs, OwnIs
<1>2. /\ \A v \in Workers : v # w => pc'[v] = pc[v]
      /\ \A v \in Workers : Busy(v)' => Busy(v) /\ Number(v)' = Number(v) /\ post'[v] = post[v]
      /\ Held(u)' \subseteq Held(u)
  BY OthersAre
<1>3. pc'[w] \in {"look", "reopen", "count"} => pc[w] \in {"look", "reopen"}
  <2>1. CASE Quiet(w)
    BY <1>1, <2>1 DEF Quiet
  <2>2. CASE Begin(w) \/ Fill(w) \/ CountBlock(w) \/ RemoveNote(w)
    BY <2>2, BeginDoes, FillDoes, CountDoes, RemoveDoes
  <2>3. CASE Reopen(w)
    BY <2>3, ReopenDoes
  <2> QED
    BY <2>1, <2>2, <2>3, MostAreQuiet
<1>4. ASSUME NEW i \in Uncounted(u)' PROVE i \in Uncounted(u) /\ (CountBlock(w) => i # Number(w))
  <2>1. PICK v \in Held(u)' : pc'[v] \in {"look", "reopen", "count"} /\ i = Number(v)'
    BY <1>4 DEF Uncounted
  <2>2. v \in Held(u) /\ v \in Workers /\ Busy(v) /\ Number(v)' = Number(v) /\ Upload(v) = u
    BY <1>2, <2>1 DEF Held
  <2>3. pc[v] \in {"look", "reopen", "count"}
    BY <1>2, <1>3, <2>1, <2>2
  <2>4. ASSUME CountBlock(w), i = Number(w) PROVE FALSE
    <3>1. v # w
      BY <2>1, <2>4, CountDoes
    <3>2. post[v] = <<Upload(v), Number(v)>> /\ post[w] = <<Upload(w), Number(w)>>
      BY <1>1, <2>2, BusyIs DEF ChatTypes
    <3> QED
      BY <1>1, <2>1, <2>2, <2>4, <3>1, <3>2 DEF OrderOK
  <2> QED
    BY <2>1, <2>2, <2>3, <2>4 DEF Uncounted
<1>5. pc[w] \in {"look", "reopen", "count"} => Number(w) \in Uncounted(u)
  BY <1>1 DEF Uncounted
<1> QED
  BY <1>4, <1>5

\* The notes of the upload.
LEMMA OwnNotes ==
    ASSUME ChatTypes, OrderOK, NEW w \in Workers, Work(w), NEW u, u = Upload(w), Plain(u), CountOf(u),
           NEW f, f = uploads[u].note, NEW n \in Refs(f)'
    PROVE  NoteOf(u, notes[n])'
<1>1. /\ Busy(w) /\ u \in Ids /\ Kind(w) = "Fei" /\ HandOf(u, w) /\ Name(w) = f /\ f \in NoteNames
      /\ IsFiniteSet(uploads[u].marked) /\ Marks(u) \in Nat /\ Number(w) \in taken[u]
      /\ uploads' = uploads /\ taken' = taken
  BY WorkIs, OwnIs
<1>2. n \in Refs(f) \cup {Len(notes) + 1} /\ Len(notes) \in Nat /\ Refs(f) \subseteq 1..Len(notes) /\ n # 0
  BY <1>1, RefsMove, RefsAre
<1>3. Uncounted(u)' \subseteq Uncounted(u)
  BY UncountedShrinks
<1>4. \A m \in Refs(f) : Counts(notes[m], uploads[u].marked, taken[u], Uncounted(u)) /\ notes[m] \in Seq(Item)
  <2>1. \A m \in 1..Len(notes) : notes[m] \in Seq(Item)
    BY DEF ChatTypes, FileOK
  <2> QED
    BY <1>2, <2>1 DEF CountOf, NoteOf
<1>5. SUFFICES Counts(notes'[n], uploads[u].marked, taken[u], Uncounted(u)')
  BY <1>1 DEF NoteOf
<1>6. ASSUME NEW m \in Refs(f), notes'[n] = notes[m] PROVE Counts(notes'[n], uploads[u].marked, taken[u], Uncounted(u)')
  BY <1>3, <1>4, <1>6, CountsWeaken
<1>7. ASSUME notes'[n] = <<>> PROVE Counts(notes'[n], uploads[u].marked, taken[u], Uncounted(u)')
  BY <1>7, CountsEmpty
<1>8. ASSUME n \in Refs(f), notes'[n] = notes[n] PROVE Counts(notes'[n], uploads[u].marked, taken[u], Uncounted(u)')
  BY <1>6, <1>8
<1>9. ASSUME note' = note, got'[w].fd \in {0, got[w].fd} PROVE n \in Refs(f)
  <2>1. /\ \A v \in Workers : v # w => got'[v] = got[v]
        /\ \A v \in Workers : Busy(v)' => Busy(v) /\ Name(v)' = Name(v)
    BY OthersAre
  <2>2. CASE n = note'[f]
    BY <1>2, <1>9, <2>2 DEF Refs
  <2>3. CASE n # note'[f]
    <3>1. PICK v \in Workers : Busy(v)' /\ Name(v)' = f /\ n = got'[v].fd
      BY <2>3 DEF Refs
    <3>2. Busy(v) /\ Name(v) = f /\ n = got[v].fd
      BY <1>2, <1>9, <2>1, <3>1
    <3> QED
      BY <1>2, <3>2 DEF Refs
  <2> QED
    BY <2>2, <2>3
<1>10. ASSUME NEW emptied \in BOOLEAN, emptied = FALSE, OpenNote(w, emptied), got'[w].fd = Opened(Name(w))
       PROVE  Counts(notes'[n], uploads[u].marked, taken[u], Uncounted(u)')
  <2>1. /\ notes'[Opened(f)] = IF note[f] = 0 THEN <<>> ELSE notes[note[f]]
        /\ \A m \in 1..Len(notes) : m # Opened(f) => notes'[m] = notes[m]
        /\ Opened(f) = IF note[f] = 0 THEN Len(notes) + 1 ELSE note[f]
    BY <1>1, <1>10, OpenIs DEF ChatTypes, Opened
  <2>2. CASE n \in Refs(f)
    <3>1. notes'[n] = notes[n]
      BY <1>2, <2>1, <2>2
    <3> QED
      BY <1>8, <2>2, <3>1
  <2>3. CASE n \notin Refs(f)
    <3>1. n = Len(notes) + 1 /\ note[f] \in Refs(f) \cup {0}
      BY <1>1, <1>2, <2>3, RefsAre
    <3>2. CASE note[f] = 0
      BY <1>7, <2>1, <3>1, <3>2
    <3>3. CASE note[f] # 0
      <4>1. note'[f] = note[f] /\ got'[w].fd = note[f]
        BY <1>1, <1>10, <2>1, <3>3, OpenIs DEF ChatTypes, FileOK
      <4>2. /\ \A v \in Workers : v # w => got'[v] = got[v]
            /\ \A v \in Workers : Busy(v)' => Busy(v) /\ Name(v)' = Name(v)
        BY OthersAre
      <4>3. PICK v \in Workers : Busy(v)' /\ Name(v)' = f /\ n = got'[v].fd
        BY <2>3, <3>1, <3>3, <4>1 DEF Refs
      <4>4. v # w
        BY <2>3, <3>1, <3>3, <4>1, <4>3
      <4>5. Busy(v) /\ Name(v) = f /\ n = got[v].fd
        BY <4>2, <4>3, <4>4
      <4> QED
        BY <1>2, <2>3, <4>5 DEF Refs
    <3> QED
      BY <3>2, <3>3
  <2> QED
    BY <2>2, <2>3
<1>11. CASE Quiet(w) \/ RemoveNote(w)
  <2>1. CASE Quiet(w)
    BY <1>8, <1>9, <2>1 DEF Quiet
  <2>2. CASE RemoveNote(w)
    <3>1. notes' = notes /\ note'[f] = 0 /\ got'[w].fd = 0
      BY <1>1, <2>2, RemoveDoes
    <3>2. /\ \A v \in Workers : v # w => got'[v] = got[v]
          /\ \A v \in Workers : Busy(v)' => Busy(v) /\ Name(v)' = Name(v)
      BY OthersAre
    <3>3. PICK v \in Workers : Busy(v)' /\ Name(v)' = f /\ n = got'[v].fd
      BY <1>2, <3>1 DEF Refs
    <3>4. Busy(v) /\ Name(v) = f /\ n = got[v].fd
      BY <1>2, <3>1, <3>2, <3>3
    <3>5. n \in Refs(f)
      BY <1>2, <3>4 DEF Refs
    <3> QED
      BY <1>8, <3>1, <3>5
  <2> QED
    BY <1>11, <2>1, <2>2
<1>12. CASE Begin(w)
  <2>1. PICK emptied \in BOOLEAN : emptied = FALSE /\ OpenNote(w, emptied) /\ got'[w].fd = Opened(Name(w))
    BY <1>1, <1>12, BeginDoes
  <2> QED
    BY <1>10, <2>1
<1>13. CASE Reopen(w)
  <2>1. PICK emptied \in BOOLEAN : emptied = FALSE /\ OpenNote(w, emptied) /\ got'[w].fd = Opened(Name(w))
    BY <1>1, <1>13, ReopenDoes
  <2> QED
    BY <1>10, <2>1
<1>14. CASE Fill(w)
  <2>1. /\ got[w].fd \in 1..Len(notes) /\ notes'[got[w].fd] = Filled(w, notes[got[w].fd])
        /\ \A m \in 1..Len(notes) : m # got[w].fd => notes'[m] = notes[m]
        /\ note' = note /\ got'[w] = got[w] /\ pc[w] = "fill"
    BY <1>14, FillDoes
  <2>2. n \in Refs(f)
    BY <1>9, <2>1
  <2>3. CASE n # got[w].fd
    BY <1>2, <1>8, <2>1, <2>2, <2>3
  <2>4. CASE n = got[w].fd
    <3>1. PICK items, h : items = notes[n] /\ h = Header(got[w].uid, got[w].num, got[w].fn, got[w].fs)
      OBVIOUS
    <3>2. h \in Item /\ h.len = 470 /\ h.num = Marks(u)
      <4>1. got[w].num = Marks(u) /\ h \in Item
        BY <1>1, <1>14, <2>1, <3>1, FillIs DEF HandOf
      <4> QED
        BY <3>1, <4>1 DEF Header
    <3>3. notes'[n] = Append(items, h)
      BY <1>1, <2>1, <2>4, <3>1 DEF Filled
    <3>4. Counts(Append(items, h), uploads[u].marked, taken[u], Uncounted(u))
      BY <1>1, <1>4, <2>2, <3>1, <3>2, CountsHeader DEF Marks
    <3> QED
      BY <1>3, <3>3, <3>4, CountsWeaken
  <2> QED
    BY <2>3, <2>4
<1>15. CASE CountBlock(w)
  <2>1. /\ got[w].fd \in 1..Len(notes) /\ notes'[got[w].fd] = Counted(w, notes[got[w].fd])
        /\ \A m \in 1..Len(notes) : m # got[w].fd => notes'[m] = notes[m]
        /\ note' = note /\ got'[w].fd = got[w].fd /\ pc[w] = "count"
    BY <1>15, CountDoes
  <2>2. n \in Refs(f)
    BY <1>9, <2>1
  <2>3. CASE n # got[w].fd \/ ~Marked(w)
    <3>1. notes'[n] = notes[n]
      BY <1>2, <2>1, <2>2, <2>3 DEF Counted
    <3> QED
      BY <1>8, <2>2, <3>1
  <2>4. CASE n = got[w].fd /\ Marked(w)
    <3>1. PICK items : items = notes[n]
      OBVIOUS
    <3>2. notes'[n] = Append(items, One)
      BY <2>1, <2>4, <3>1 DEF Counted
    <3>3. Number(w) \in uploads[u].marked /\ Number(w) \in Uncounted(u) /\ Number(w) \notin Uncounted(u)'
      BY <1>15, <2>1, <2>4, UncountedShrinks DEF Marked
    <3>4. Counts(items, uploads[u].marked, taken[u], Uncounted(u)) /\ items \in Seq(Item)
      BY <1>4, <2>2, <3>1
    <3>5. Counts(Append(items, One), uploads[u].marked, taken[u], Uncounted(u)')
      BY <1>1, <1>3, <3>3, <3>4, CountsOne
    <3> QED
      BY <3>2, <3>5
  <2> QED
    BY <2>3, <2>4
<1> QED
  BY <1>11, <1>12, <1>13, <1>14, <1>15, MostAreQuiet

\* find_hash finds the session of the upload.
LEMMA FindSessionDoes ==
    ASSUME ChatTypes, SessionsOK, NEW w \in Workers, FindSession(w), pc'[w] = "begin",
           NEW u, u = Upload(w), Plain(u)
    PROVE  sessions'[got'[w].bucket].of = u
<1>1. pc[w] = "session" /\ Busy(w) /\ sessions' = sessions /\ got[w] \in Locals
  BY HandIs DEF FindSession, Busy, sessionVars
<1>2. Conn(w) \in Keys /\ Conn(w) = uploads[u].conn /\ u \in Ids
  BY <1>1, HandIs DEF Conn
<1>3. PICK b : b = FindHash(tbl, Conn(w)) /\ GoWith(w, IF b = NULL THEN "idle" ELSE "begin", [got[w] EXCEPT !.bucket = b])
  BY DEF FindSession
<1>4. b # NULL
  BY <1>3, GoneIs
<1>5. b \in In(tbl) /\ tbl.key[b] = uploads[u].conn
  BY <1>2, <1>3, <1>4, FindIs DEF ChatTypes, SessionOK
<1>6. uploads[sessions[b].of].conn = uploads[u].conn /\ b \in DOMAIN sessions
  BY <1>5 DEF ChatTypes, SessionOK
<1>7. sessions[b].of \in Ids /\ uploads[sessions[b].of].kind = "Fei"
  BY <1>6, SessionIs DEF SessionsOK
<1>8. sessions[b].of = u
  BY <1>2, <1>6, <1>7, PlainNames
<1>9. PICK g : g = [got[w] EXCEPT !.bucket = b]
  OBVIOUS
<1>10. g.bucket = b
  BY <1>1, <1>9 DEF Locals
<1>11. GoWith(w, "begin", g)
  BY <1>3, <1>4, <1>9
<1>12. got'[w] = g
  BY <1>11, GoneIs
<1> QED
  BY <1>1, <1>8, <1>10, <1>12

\* What a worker has in hand goes on being right: the number that the header tells is
\* that of the marked parts, and a length that fits it means that all have been taken.
LEMMA OwnHand ==
    ASSUME ChatTypes, OrderOK, SessionsOK, NEW w \in Workers, Work(w),
           NEW u, u = Upload(w), Plain(u), CountOf(u)
    PROVE  HandOf(u, w)'
<1>1. /\ Busy(w) /\ u \in Ids /\ Kind(w) = "Fei" /\ HandOf(u, w) /\ Name(w) = uploads[u].note
      /\ Name(w) \in NoteNames /\ IsFiniteSet(uploads[u].marked) /\ Marks(u) \in Nat /\ Number(w) \in taken[u]
      /\ uploads' = uploads /\ taken' = taken /\ Marks(u)' = Marks(u)
  BY WorkIs, OwnIs, PlainIs
<1>2. ASSUME got'[w].flen = got[w].flen, got[w].flen # 0
      PROVE  got'[w].flen # 470 /\ (got'[w].flen = 470 + Marks(u) => uploads[u].marked \subseteq taken[u])
  BY <1>1, <1>2 DEF HandOf
<1>3. CASE Quiet(w)
  <2>1. pc'[w] = "begin" => sessions'[got'[w].bucket].of = u
    BY <1>1, <1>3, FindSessionDoes DEF Quiet
  <2>2. pc'[w] # "fill" /\ pc'[w] # "rewrite"
    BY <1>1, <1>3 DEF Quiet
  <2>3. got'[w].flen # 0 => got'[w].flen = got[w].flen
    BY <1>3 DEF Quiet
  <2>4. ASSUME pc'[w] = "reread", got'[w].flen # 0 PROVE uploads[u].marked \subseteq taken[u]
    <3>1. pc[w] = "rewrite" /\ NextCompletes(w)
      BY <1>1, <1>3, <2>4 DEF Quiet
    <3>2. got[w].flen - 470 = got[w].num
      BY <1>1, <3>1 DEF NextCompletes
    <3>3. got[w].num \in {0, Marks(u)} /\ got[w].flen \in Nat
      BY <1>1, <3>1, HandIs DEF HandOf
    <3>4. got[w].flen = 470 \/ got[w].flen = 470 + Marks(u)
      BY <1>1, <3>2, <3>3
    <3> QED
      BY <1>2, <2>3, <2>4, <3>4
  <2>5. ASSUME pc'[w] = "tell", got'[w].flen # 0 PROVE uploads[u].marked \subseteq taken[u]
    <3>1. pc[w] \in {"write", "reread"}
      BY <1>1, <1>3, <2>5 DEF Quiet
    <3>2. pc[w] = "write" => got[w].flen = 0
      BY <1>1, HandIs DEF StageFor
    <3> QED
      BY <1>1, <2>3, <2>5, <3>1, <3>2 DEF HandOf
  <2> QED
    BY <1>1, <1>2, <2>1, <2>2, <2>3, <2>4, <2>5 DEF HandOf
<1>4. CASE Begin(w)
  <2>1. PICK s \in Contents(got[w].bucket) : got'[w].num = s.block + 1
    BY <1>1, <1>4, BeginDoes
  <2>2. pc[w] = "begin" /\ pc'[w] = "fill" /\ got'[w].flen = 0
    BY <1>4, BeginDoes
  <2>3. got[w].bucket \in 1..Len(sessions) /\ DOMAIN sessions = 1..Len(sessions)
    <3>1. got[w].bucket \in Nat /\ got[w].bucket # 0 /\ got[w].bucket <= Len(sessions) /\ Len(sessions) \in Nat
      BY <1>1, <2>2, HandIs DEF StageFor, NULL
    <3> QED
      BY <3>1 DEF ChatTypes, SessionOK
  <2>4. sessions[got[w].bucket].of = u
    BY <1>1, <2>2 DEF HandOf
  <2>5. sessions[got[w].bucket].block + 1 = Marks(u) /\ got[w].bucket \notin freed
    BY <2>3, <2>4 DEF CountOf
  <2>6. s = sessions[got[w].bucket]
    BY <2>1, <2>5 DEF Contents
  <2> QED
    BY <1>1, <2>1, <2>2, <2>5, <2>6 DEF HandOf
<1>5. CASE Fill(w)
  BY <1>1, <1>5, FillDoes DEF HandOf
<1>6. CASE Reopen(w)
  <2>1. /\ pc[w] = "reopen" /\ pc'[w] = "count"
        /\ got'[w].flen = IF Marked(w) THEN LengthOf(Items(w)) + 1 ELSE 0
    BY <1>1, <1>6, ReopenDoes
  <2>2. ASSUME Marked(w)
        PROVE  /\ LengthOf(Items(w)) + 1 # 470
               /\ LengthOf(Items(w)) + 1 = 470 + Marks(u) => uploads[u].marked \subseteq taken[u]
    <3>1. PICK items : items = Items(w)
      OBVIOUS
    <3>2. Counts(items, uploads[u].marked, taken[u], Uncounted(u))
      <4>1. CASE note[Name(w)] = 0
        BY <3>1, <4>1, CountsEmpty DEF Items
      <4>2. CASE note[Name(w)] # 0
        BY <1>1, <3>1, <4>2, RefsAre DEF Items, CountOf, NoteOf
      <4> QED
        BY <4>1, <4>2
    <3>3. Number(w) \in uploads[u].marked /\ Number(w) \in taken[u] /\ Number(w) \in Uncounted(u)
      BY <1>1, <2>1, <2>2, UncountedShrinks DEF Marked
    <3>4. Cardinality(uploads[u].marked) <= 400
      BY DEF Plain, Marks
    <3> QED
      BY <1>1, <3>1, <3>2, <3>3, <3>4, CountsLength DEF Marks
  <2> QED
    BY <1>1, <2>1, <2>2 DEF HandOf
<1>7. CASE CountBlock(w)
  <2>1. /\ pc'[w] = "rewrite" /\ got[w].fd \in 1..Len(notes)
        /\ got'[w].fd = got[w].fd /\ got'[w].flen = got[w].flen
        /\ got'[w].num = Read(notes'[got[w].fd]).num
        /\ notes'[got[w].fd] \in Seq(Item)
    BY <1>7, CountDoes, CountIs
  <2>2. PICK n, f, items : n = got[w].fd /\ f = uploads[u].note /\ items = notes'[n]
    OBVIOUS
  <2>3. n \in Refs(f)'
    <3>1. Busy(w)' /\ n # 0
      BY <2>1, <2>2 DEF Busy
    <3>2. Name(w)' = f
      BY <1>1, <2>2, <3>1, OthersAre
    <3> QED
      BY <2>1, <2>2, <3>1, <3>2 DEF Refs
  <2>4. NoteOf(u, notes[n])'
    BY <2>2, <2>3, OwnNotes
  <2>5. Counts(items, uploads[u].marked, taken[u], Uncounted(u)')
    BY <1>1, <2>2, <2>4 DEF NoteOf
  <2>6. Read(items).num \in {0, Marks(u)}
    BY <2>1, <2>2, <2>5, CountsRead DEF Marks
  <2> QED
    BY <1>1, <1>2, <2>1, <2>2, <2>6 DEF HandOf
<1>8. CASE RemoveNote(w)
  BY <1>8, RemoveDoes DEF HandOf
<1> QED
  BY <1>3, <1>4, <1>5, <1>6, <1>7, <1>8, MostAreQuiet

\* What is said of a plain upload is kept by the work on it.
LEMMA OwnKeepsCount ==
    ASSUME ChatTypes, OrderOK, SessionsOK, NEW w \in Workers, Work(w),
           NEW u, u = Upload(w), Plain(u), CountOf(u)
    PROVE  CountOf(u)'
<1>1. /\ uploads' = uploads /\ taken' = taken /\ Busy(w) /\ Marks(u)' = Marks(u) /\ u \in Ids
  BY WorkIs, OwnIs, PlainIs
<1>2. /\ \A v \in Workers : v # w => pc'[v] = pc[v] /\ post'[v] = post[v] /\ got'[v] = got[v]
      /\ Held(u)' \subseteq Held(u)
  BY OthersAre
<1>3. ASSUME NEW v \in Held(u)', v # w PROVE HandOf(u, v)'
  <2>1. v \in Held(u) /\ v \in Workers /\ Busy(v) /\ Upload(v) = u /\ pc'[v] = pc[v] /\ got'[v] = got[v]
    BY <1>2, <1>3 DEF Held
  <2>2. HandOf(u, v)
    BY <2>1 DEF CountOf
  <2>3. pc[v] = "begin" => sessions'[got[v].bucket].of = u
    <3>1. SUFFICES ASSUME pc[v] = "begin" PROVE sessions'[got[v].bucket].of = u
      OBVIOUS
    <3>2. got[v].bucket \in 1..Len(sessions)
      <4>1. Kind(v) = "Fei"
        BY <2>1 DEF Plain, Kind
      <4>2. got[v].bucket \in Nat /\ got[v].bucket # 0 /\ got[v].bucket <= Len(sessions) /\ Len(sessions) \in Nat
        BY <2>1, <3>1, <4>1, HandIs DEF StageFor, NULL
      <4> QED
        BY <4>2
    <3>3. sessions'[got[v].bucket] = sessions[got[v].bucket]
      BY <3>2, SessionsMove, InsertSessionIs, FinishIs
    <3> QED
      BY <2>2, <3>1, <3>3 DEF HandOf
  <2> QED
    BY <1>1, <2>1, <2>2, <2>3 DEF HandOf
<1>4. \A v \in Held(u)' : HandOf(u, v)'
  BY <1>3, OwnHand
<1>5. \A n \in Refs(uploads[u].note)' : NoteOf(u, notes[n])'
  <2>1. PICK f : f = uploads[u].note
    OBVIOUS
  <2>2. Refs(uploads[u].note)' = Refs(f)'
    BY <1>1, <2>1 DEF Refs
  <2> QED
    BY <2>1, <2>2, OwnNotes
<1>6. \A b \in DOMAIN sessions' : sessions'[b].of = u => sessions'[b].block + 1 = Marks(u)' /\ b \notin freed'
  BY <1>1, OwnSessions
<1>7. \A k \in DOMAIN announced' :
        announced'[k].upload = u /\ announced'[k].counted => uploads'[u].marked \subseteq taken'[u]
  BY <1>1, OwnAnnounced
<1> QED
  BY <1>4, <1>5, <1>6, <1>7 DEF CountOf

\* So all work keeps it.
LEMMA WorkKeepsCount ==
    ASSUME ChatTypes, OrderOK, SessionsOK, CountOK, NEW w \in Workers, Work(w) PROVE CountOK'
<1>1. RefsApart' /\ FeiCounts' /\ uploads' = uploads /\ taken' = taken
  BY RefsStayApart, FeiStillCounts, WorkIs DEF CountOK
<1>2. ASSUME NEW u \in Ids', Plain(u)' PROVE CountOf(u)'
  <2>1. u \in Ids /\ Plain(u) /\ CountOf(u) /\ RefsApart
    <3>1. u \in Ids
      BY <1>1, <1>2 DEF Ids
    <3> QED
      BY <1>1, <1>2, <3>1, PlainIs DEF CountOK
  <2>2. CASE Upload(w) = u
    BY <2>1, <2>2, OwnKeepsCount
  <2>3. CASE Upload(w) # u
    BY <2>1, <2>3, OthersKeepCount
  <2> QED
    BY <2>2, <2>3
<1> QED
  BY <1>1, <1>2 DEF CountOK

\* Losing a POST changes nothing that is said.
LEMMA SameCount ==
    ASSUME CountOK, UNCHANGED <<uploads, taken, workVars, fileVars, sessionVars, announced>> PROVE CountOK'
<1>1. /\ uploads' = uploads /\ taken' = taken /\ pc' = pc /\ post' = post /\ got' = got /\ note' = note
      /\ notes' = notes /\ sessions' = sessions /\ freed' = freed /\ announced' = announced
  BY DEF workVars, fileVars, sessionVars
<1>2. /\ \A w : Busy(w)' = Busy(w) /\ Upload(w)' = Upload(w) /\ Number(w)' = Number(w)
                /\ Kind(w)' = Kind(w) /\ Name(w)' = Name(w)
      /\ Ids' = Ids /\ NoteNames' = NoteNames
      /\ \A u : Met(u)' = Met(u) /\ Count(u)' = Count(u) /\ Marks(u)' = Marks(u)
  BY <1>1 DEF Busy, Upload, Number, Kind, Name, Ids, NoteNames, Met, Count, Marks
<1>3. /\ \A f : Refs(f)' = Refs(f)
      /\ \A u : Held(u)' = Held(u)
  BY <1>1, <1>2 DEF Refs, Held
<1>4. \A u : Uncounted(u)' = Uncounted(u) /\ Plain(u)' = Plain(u)
  BY <1>1, <1>2, <1>3 DEF Uncounted, Plain
<1>5. \A u : CountOf(u)' = CountOf(u)
  BY <1>1, <1>2, <1>3, <1>4 DEF CountOf, NoteOf, HandOf
<1> QED
  BY <1>1, <1>2, <1>3, <1>4, <1>5 DEF CountOK, RefsApart, FeiCounts

\* A part that is taken waits to be counted.
LEMMA TakeKeepsCount ==
    ASSUME ChatTypes, CountOK, NEW w \in Workers, Take(w) PROVE CountOK'
<1>1. PICK x, i :
        /\ x \in Ids /\ i \notin taken[x]
        /\ taken'[x] = taken[x] \cup {i}
        /\ \A v \in Ids : v # x => taken'[v] = taken[v]
        /\ Upload(w)' = x /\ Number(w)' = i /\ pc'[w] = Dispatch(x, i)
        /\ \A v \in Workers : v # w => pc'[v] = pc[v] /\ post'[v] = post[v]
  BY TakeIs
<1>2. /\ pc[w] = "idle" /\ got[w] = Nothing /\ uploads' = uploads /\ got' = got
      /\ note' = note /\ notes' = notes /\ sessions' = sessions /\ freed' = freed /\ announced' = announced
  BY TakeIs DEF fileVars, sessionVars
<1>3. got[w].fd = 0 /\ got[w].flen = 0
  BY <1>2, NothingIs
<1>4. \A v \in Workers : v # w =>
         /\ Busy(v)' = Busy(v) /\ Upload(v)' = Upload(v) /\ Number(v)' = Number(v)
         /\ Kind(v)' = Kind(v) /\ Name(v)' = Name(v)
  BY <1>1, <1>2 DEF Busy, Upload, Number, Kind, Name
<1>5. ~Busy(w) /\ Ids' = Ids /\ NoteNames' = NoteNames
  BY <1>2 DEF Busy, Ids, NoteNames
<1>6. \A f : Refs(f)' = Refs(f)
  <2> TAKE f
  <2>1. {got[v].fd : v \in {y \in Workers : Busy(y) /\ Name(y) = f}} \ {0}
        = ({got[v].fd : v \in {y \in Workers : Busy(y) /\ Name(y) = f}})' \ {0}
    <3>1. ASSUME NEW n, n # 0
          PROVE  (\E v \in Workers : Busy(v) /\ Name(v) = f /\ n = got[v].fd)
                 <=> (\E v \in Workers : Busy(v)' /\ Name(v)' = f /\ n = got[v].fd)
      BY <1>3, <1>4, <1>5, <3>1
    <3> QED
      BY <1>2, <3>1
  <2> QED
    BY <1>2, <2>1 DEF Refs
<1>7. RefsApart'
  BY <1>5, <1>6 DEF RefsApart, CountOK
<1>8. FeiCounts'
  BY <1>2, <1>3, <1>4 DEF FeiCounts, CountOK
<1>9. ASSUME NEW u \in Ids, Plain(u)' PROVE CountOf(u)'
  <2>1. Plain(u) /\ CountOf(u) /\ Marks(u)' = Marks(u) /\ taken[u] \subseteq taken'[u]
    <3>1. taken[u] \subseteq taken'[u]
      BY <1>1
    <3>2. Marks(u)' = Marks(u) /\ Met(u)' = Met(u) /\ Count(u)' = Count(u)
      BY <1>2 DEF Marks, Met, Count, Ids
    <3> QED
      BY <1>2, <1>9, <3>1, <3>2 DEF Plain, CountOK
  <2>2. \A v \in Held(u)' : v \in Workers /\ (v # w => v \in Held(u)) /\ (v = w => u = x)
    BY <1>1, <1>4 DEF Held
  <2>3. Uncounted(u)' \cap taken[u] \subseteq Uncounted(u)
    <3>1. SUFFICES ASSUME NEW j \in Uncounted(u)', j \in taken[u] PROVE j \in Uncounted(u)
      OBVIOUS
    <3>2. PICK v \in Held(u)' : pc'[v] \in {"look", "reopen", "count"} /\ j = Number(v)'
      BY <3>1 DEF Uncounted
    <3>3. CASE v = w
      BY <1>1, <2>2, <3>1, <3>2, <3>3
    <3>4. CASE v # w
      BY <1>1, <1>4, <2>2, <3>2, <3>4 DEF Uncounted
    <3> QED
      BY <3>3, <3>4
  <2>4. ASSUME NEW n \in Refs(uploads[u].note)' PROVE NoteOf(u, notes[n])'
    <3>1. PICK f : f = uploads[u].note
      OBVIOUS
    <3>2. Refs(uploads[u].note)' = Refs(f)
      BY <1>2, <1>6, <3>1 DEF Refs
    <3>3. NoteOf(u, notes[n])
      BY <2>1, <2>4, <3>1, <3>2 DEF CountOf
    <3>4. PICK items : items = notes[n]
      OBVIOUS
    <3>5. Counts(items, uploads[u].marked, taken[u], Uncounted(u))
      BY <3>3, <3>4 DEF NoteOf
    <3>6. Counts(items, uploads[u].marked, taken'[u], Uncounted(u)')
      BY <2>1, <2>3, <3>5, CountsWeaken
    <3> QED
      BY <1>2, <3>4, <3>6 DEF NoteOf
  <2>5. ASSUME NEW v \in Held(u)' PROVE HandOf(u, v)'
    <3>1. CASE v = w
      <4>1. Dispatch(x, i) \notin {"begin", "fill", "rewrite"}
        BY DEF Dispatch
      <4> QED
        BY <1>1, <1>2, <1>3, <3>1, <4>1 DEF HandOf
    <3>2. CASE v # w
      <4>1. HandOf(u, v) /\ pc'[v] = pc[v]
        BY <1>1, <2>1, <2>2, <2>5, <3>2 DEF CountOf
      <4> QED
        BY <1>2, <2>1, <4>1 DEF HandOf
    <3> QED
      BY <3>1, <3>2
  <2>6. \A k \in DOMAIN announced' :
        announced'[k].upload = u /\ announced'[k].counted => uploads'[u].marked \subseteq taken'[u]
    BY <1>2, <2>1 DEF CountOf
  <2>7. \A b \in DOMAIN sessions' : sessions'[b].of = u => sessions'[b].block + 1 = Marks(u)' /\ b \notin freed'
    BY <1>2, <2>1 DEF CountOf
  <2> QED
    BY <2>4, <2>5, <2>6, <2>7 DEF CountOf
<1> QED
  BY <1>5, <1>7, <1>8, <1>9 DEF CountOK

\* At first nothing is counted.
LEMMA InitCount == Init => CountOK
<1> SUFFICES ASSUME Init PROVE CountOK
  OBVIOUS
<1>1. /\ \A w \in Workers : ~Busy(w)
      /\ DOMAIN sessions = {} /\ DOMAIN announced = {}
      /\ \A f \in NoteNames : note[f] = 0
  BY DEF Init, Busy, NoteNames
<1>2. \A f \in NoteNames : Refs(f) = {}
  BY <1>1 DEF Refs
<1>3. \A u \in Ids : Held(u) = {} /\ uploads[u].note \in NoteNames
  BY <1>1 DEF Held, NoteNames
<1> QED
  BY <1>1, <1>2, <1>3 DEF CountOK, RefsApart, FeiCounts, CountOf

\* So every step keeps the count.
LEMMA NextCount ==
    ASSUME ChatTypes, OrderOK, SessionsOK, CountOK, [Next]_vars PROVE CountOK'
<1>1. CASE UNCHANGED vars
  <2>1. UNCHANGED <<uploads, taken, workVars, fileVars, sessionVars, announced>>
    BY <1>1 DEF vars, planVars, histVars
  <2> QED
    BY <2>1, SameCount
<1>2. ASSUME NEW u \in Ids, Lose(u) PROVE CountOK'
  <2>1. UNCHANGED <<uploads, taken, workVars, fileVars, sessionVars, announced>>
    BY <1>2 DEF Lose
  <2> QED
    BY <2>1, SameCount
<1>3. ASSUME NEW w \in Workers, Take(w) PROVE CountOK'
  BY <1>3, TakeKeepsCount
<1>4. ASSUME NEW w \in Workers, Work(w) PROVE CountOK'
  BY <1>4, WorkKeepsCount
<1> QED
  BY <1>1, <1>2, <1>3, <1>4 DEF Next

\* The count always holds.
LEMMA CountAlways == Spec => [](ChatTypes /\ OrderOK /\ SessionsOK /\ CountOK)
<1>1. Init => CountOK
  BY InitCount
<1>2. (ChatTypes /\ OrderOK /\ SessionsOK) /\ CountOK /\ [Next]_vars => CountOK'
  BY NextCount
<1> QED
  BY <1>1, <1>2, SessionsAlways, PTL DEF Spec

\* BlocksCounted: whatever the order in which workers handle the parts, and whichever are
\* lost, a file that http_feition announces by its count (http_IM_parser.c:1674-1697) has had
\* the end of every block, as long as its session has not been finished and its name is its
\* own: for any number of workers, uploads, parts (400 marked ones at most) and failures.
THEOREM BlocksAreCounted == Spec => []BlocksCounted
<1>1. ChatTypes /\ CountOK => BlocksCounted
  <2> SUFFICES ASSUME ChatTypes, CountOK, NEW k \in DOMAIN announced, NEW u \in {announced[k].upload},
                      announced[k].counted, Met(u) = {u}, Count(u) + 1 \notin taken[u],
                      Cardinality(uploads[u].marked) <= 400
               PROVE  uploads[u].marked \subseteq taken[u]
    BY DEF BlocksCounted
  <2>1. u \in Ids /\ uploads[u].kind = "Fei"
    <3>1. announced[k] \in Report
      BY DEF ChatTypes, HistOK
    <3> QED
      BY <3>1 DEF Report, CountOK, FeiCounts
  <2>2. Plain(u)
    BY <2>1 DEF Plain, Marks
  <2> QED
    BY <2>1, <2>2 DEF CountOK, CountOf
<1> QED
  BY <1>1, CountAlways, PTL

-----------------------------------------------------------------------------
(* Files that are whole *)

\* No upload of that name leaves its note behind.
Regular(u) == \A v \in Ids : uploads[v].note = uploads[u].note => ~EndsFirstBlock(v)

\* A worker has a uuid in hand, or the session that tells it.
Sees(w, x) ==
    /\ Busy(w)
    /\ \/ got[w].uid = x
       \/ pc[w] = "begin" /\ Kind(w) = "Fei" /\ sessions[got[w].bucket].uid = x

\* It stands in a note of that name.
InNotes(x, f) == \E n \in Refs(f) : \E k \in DOMAIN notes[n] : notes[n][k].uid = x

\* No upload outside U knows the uuid x, or can come to know it.
KnownTo(x, U) ==
    /\ x \in 1..uuids
    /\ \A w \in Workers : Sees(w, x) => Upload(w) \in U
    /\ \A f \in NoteNames : InNotes(x, f) => \E u \in U : f = uploads[u].note
    /\ \A b \in In(tbl) : sessions[b].uid = x => sessions[b].of \in U

\* The first n parts.
Beginning(u, n) == [k \in 1..Offset(u, n + 1) |-> <<u, k>>]

\* What the file of data with the uuid x holds.
Holds(x, units) == x \in DOMAIN data /\ data[x] = units

\* The name of u leads to no note.
NoNote(u) == note[uploads[u].note] = 0

\* The note of u when n parts have come.
Says(u, x, n, items) ==
    /\ items # <<>> /\ items[1].len = 470 /\ items[1].uid = x
    /\ uploads[u].kind = "GOS" /\ n < Count(u) => items[1].num = uploads[u].block
    /\ uploads[u].kind = "Fei" =>
          /\ items[1].num = Marks(u) /\ items[1].fn = uploads[u].name /\ items[1].fs = Size(u)
          /\ n < Count(u) => LengthOf(items) = 470 + Cardinality(uploads[u].marked \cap (1..n))

\* There is a note, and it does say so.
NoteSays(u, x, n) == ~NoNote(u) /\ Says(u, x, n, notes[note[uploads[u].note]])

\* The session of u, with the uuid x.
SessionSays(u, x) ==
    \E b \in In(tbl) :
        /\ sessions[b].of = u /\ sessions[b].uid = x /\ sessions[b].block + 1 = Marks(u)
        /\ sessions[b].fn = uploads[u].name /\ sessions[b].fs = Size(u)

\* ftp_session_tbl has none of the connection of u.
NoSession(u) == \A b \in In(tbl) : uploads[sessions[b].of].conn # uploads[u].conn

\* The uuid x is that of u alone; a session of http_feition tells it.
Owns(u, x) == KnownTo(x, {u}) /\ (uploads[u].kind = "Fei" => SessionSays(u, x))

\* What has been announced of u is right, and nobody outside U knows where it is.
Told(u, U) ==
    /\ \A k, l \in About(u) : k = l
    /\ \A k \in About(u) :
          /\ Holds(announced[k].uid, Whole(u)) /\ KnownTo(announced[k].uid, U)
          /\ uploads[u].kind # "Blog" => announced[k].fn = uploads[u].name /\ announced[k].fs = Size(u)

\* Before the session, before the first part, after part n, after the last one.
Unopened(u)    == About(u) = {} /\ NoNote(u) /\ NoSession(u)
Opening(u)     == About(u) = {} /\ NoNote(u) /\ (uploads[u].kind = "Fei" => \E x \in 1..uuids : Owns(u, x))
Underway(u, n) ==
    About(u) = {} /\ \E x \in 1..uuids : Owns(u, x) /\ NoteSays(u, x, n) /\ Holds(x, Beginning(u, n))
Over(u)        == Told(u, {u}) /\ NoNote(u)

\* What holds between two POSTs, when i was the last.
Between(u, i) ==
    /\ i = 0 => Opening(u)
    /\ i \in 1..(Count(u) - 1) => Underway(u, i)
    /\ i >= Count(u) => Over(u)

\* The length that http_feition measures with part i.
Measured(u, i) ==
    IF i \in uploads[u].marked THEN 470 + Cardinality(uploads[u].marked \cap (1..i)) ELSE 0

\* What holds where a worker stands with a POST of u.
AtBegin(u, w) ==
    uploads[u].kind = "Fei" => got[w].bucket \in In(tbl) /\ sessions[got[w].bucket].of = u

AtFill(u, w) ==
    /\ Number(w) = 1 /\ About(u) = {} /\ Owns(u, got[w].uid)
    /\ uploads[u].kind = "GOS" => got[w].num = KindOfBlock(w)
    /\ uploads[u].kind = "Fei" =>
          got[w].num = Marks(u) /\ got[w].fn = uploads[u].name /\ got[w].fs = Size(u)

\* Its note has been opened and is empty; then it has its header.
NoteIsNew(u, w) ==
    ~NoNote(u) /\ got[w].fd = note[uploads[u].note] /\ notes[note[uploads[u].note]] = <<>>

NoteIsMade(u, w) ==
    IF uploads[u].kind = "Yahoo" THEN NoNote(u) ELSE NoteSays(u, got[w].uid, 1)

AtCount(u, w) ==
    got[w].fd = note[uploads[u].note] /\ got[w].flen = Measured(u, Number(w))

AtRewrite(u, w) ==
    /\ Number(w) # 1 /\ About(u) = {} /\ Owns(u, got[w].uid)
    /\ NoteSays(u, got[w].uid, Number(w)) /\ Holds(got[w].uid, Beginning(u, Number(w) - 1))
    /\ uploads[u].kind = "GOS" => got[w].num = uploads[u].block
    /\ uploads[u].kind = "Fei" => got[w].num = Marks(u) /\ got[w].flen = Measured(u, Number(w))

AtReread(u, w) ==
    /\ Number(w) = Count(u) /\ About(u) = {}
    /\ Owns(u, got[w].uid) /\ Holds(got[w].uid, Whole(u)) /\ NoteSays(u, got[w].uid, Count(u))

AtTell(u, w) ==
    /\ Number(w) = Count(u) /\ About(u) = {}
    /\ Owns(u, got[w].uid) /\ Holds(got[w].uid, Whole(u))
    /\ uploads[u].kind # "Blog" => got[w].fn = uploads[u].name /\ got[w].fs = Size(u)
    /\ uploads[u].kind \in Single => NoNote(u)

\* All places together.
StageAt(u, w, place) ==
    /\ place \in {"init", "insert"} => Unopened(u)
    /\ place \in {"session", "begin", "whole", "blog"} => Number(w) = 1 /\ Opening(u)
    /\ place = "begin" => AtBegin(u, w)
    /\ place \in {"fill", "write"} => AtFill(u, w)
    /\ place = "fill" => NoteIsNew(u, w)
    /\ place = "write" => NoteIsMade(u, w)
    /\ place = "look" => IF Number(w) = 1 THEN Opening(u) ELSE Underway(u, Number(w) - 1)
    /\ place \in {"reopen", "count"} => Number(w) # 1 /\ Underway(u, Number(w) - 1)
    /\ place = "count" => AtCount(u, w)
    /\ place = "rewrite" => AtRewrite(u, w)
    /\ place = "reread" => AtReread(u, w)
    /\ place = "tell" => AtTell(u, w)
    /\ place = "remove" => Number(w) = Count(u) /\ Told(u, {u})
    /\ place = "finish" => Over(u)

Stage(u, w) == StageAt(u, w, pc[w])

\* Before the first POST, between two, with one in hand, after the last.
WholeOf(u) ==
    /\ taken[u] = {} => About(u) = {}
    /\ Active(u) /\ Held(u) = {} =>
          \A i \in taken[u] : (\A j \in taken[u] : j <= i) => Between(u, i)
    /\ \A w \in Held(u) : Stage(u, w)
    /\ taken[u] = Posts(u) /\ Held(u) = {} => Told(u, {})

\* Nobody has left a note behind.
Settled(u)  == u \notin disturbed /\ ~Active(u)
NameFree(u) == (\A v \in Ids : uploads[v].note = uploads[u].note => Settled(v)) => NoNote(u)

\* An upload that nobody disturbed is announced whole, and leaves no note behind.
WholeOK ==
    /\ \A u \in Ids \ disturbed : Regular(u) => WholeOf(u)
    /\ \A u \in Ids : Regular(u) => NameFree(u)

-----------------------------------------------------------------------------
(* Where parts go, and when they are all *)

\* Offsets grow.
LEMMA OffsetGrows ==
    ASSUME uploads \in Plans, NEW u \in Ids
    PROVE  /\ \A i \in 1..(Count(u) + 1) : Offset(u, i) \in Nat
           /\ \A i, j \in 1..(Count(u) + 1) : i < j => Offset(u, i) < Offset(u, j)
<1>1. /\ Count(u) \in Nat \ {0} /\ \A i \in 1..Count(u) : uploads[u].parts[i] \in Nat \ {0}
      /\ \A i \in 1..Count(u) : Offset(u, i) \in Nat /\ Offset(u, i + 1) = Offset(u, i) + uploads[u].parts[i]
      /\ Offset(u, Count(u) + 1) \in Nat
  BY UploadIs, OffsetIs
<1>2. \A i \in 1..(Count(u) + 1) : Offset(u, i) \in Nat
  <2> TAKE i \in 1..(Count(u) + 1)
  <2>1. i \in 1..Count(u) \/ i = Count(u) + 1
    BY <1>1
  <2> QED
    BY <1>1, <2>1
<1>3. ASSUME NEW i \in 1..(Count(u) + 1), NEW j \in 1..(Count(u) + 1), i < j
      PROVE  Offset(u, i) < Offset(u, j)
  <2>1. PICK S : S = {d \in Nat : i + 1 + d <= Count(u) + 1 => Offset(u, i) < Offset(u, i + 1 + d)}
    OBVIOUS
  <2>2. 0 \in S
    <3>1. i \in 1..Count(u) /\ i + 1 + 0 = i + 1
      BY <1>1, <1>3
    <3>2. Offset(u, i) < Offset(u, i + 1)
      BY <1>1, <3>1
    <3> QED
      BY <2>1, <3>1, <3>2
  <2>3. ASSUME NEW n \in 1..Count(u), n - 1 \in S PROVE n \in S
    <3>1. CASE i + 1 + n <= Count(u) + 1
      <4>1. i + n \in 1..Count(u) /\ i + 1 + (n - 1) = i + n /\ (i + n) + 1 = i + 1 + n /\ n \in Nat
        BY <1>1, <3>1
      <4>2. Offset(u, i) < Offset(u, i + n)
        <5>1. PICK d : d = n - 1 /\ d \in S /\ d \in Nat /\ i + 1 + d <= Count(u) + 1 /\ i + 1 + d = i + n
          BY <1>1, <2>1, <2>3, <3>1, <4>1
        <5>2. Offset(u, i) < Offset(u, i + 1 + d)
          BY <2>1, <5>1
        <5> QED
          BY <5>1, <5>2
      <4>3. Offset(u, i + n) < Offset(u, (i + n) + 1)
        BY <1>1, <4>1
      <4>4. Offset(u, i) \in Nat /\ Offset(u, i + n) \in Nat /\ Offset(u, i + 1 + n) \in Nat
        BY <1>1, <1>2, <3>1, <4>1
      <4> QED
        BY <2>1, <4>1, <4>2, <4>3, <4>4
    <3>2. CASE ~(i + 1 + n <= Count(u) + 1)
      BY <2>1, <3>2
    <3> QED
      BY <3>1, <3>2
  <2>4. \A n \in 0..Count(u) : n \in S
    BY <1>1, <2>2, <2>3, UpTo
  <2>5. j - (i + 1) \in 0..Count(u) /\ i + 1 + (j - (i + 1)) = j
    BY <1>1, <1>3
  <2> QED
    BY <1>1, <2>1, <2>4, <2>5
<1> QED
  BY <1>2, <1>3

\* Where the blocks of Q14 and GOS are.
LEMMA BlocksAt ==
    ASSUME uploads \in Plans, NEW u \in Ids, NEW i \in 1..Count(u), i # 1
    PROVE  /\ uploads[u].kind = "Q14" => Offset(u, i) = 2 * (i - 2) + 1
           /\ uploads[u].kind = "GOS" /\ uploads[u].block = 2 => Offset(u, i) = 2 * (i - 1)
           /\ uploads[u].kind = "GOS" /\ uploads[u].block = 4 => Offset(u, i) = 4 * (i - 1)
<1>1. /\ Count(u) \in Nat \ {0} /\ Offset(u, 1) = 0
      /\ \A n \in 1..Count(u) : Offset(u, n) \in Nat /\ Offset(u, n + 1) = Offset(u, n) + uploads[u].parts[n]
      /\ uploads[u].kind = "Q14" => uploads[u].block = 2 /\ uploads[u].parts[1] = 1
      /\ uploads[u].kind \in {"Q14", "GOS"} => \A n \in 1..(Count(u) - 1) :
              uploads[u].parts[n] = uploads[u].block \/ (n = 1 /\ uploads[u].kind = "Q14")
  BY UploadIs, OffsetIs
<1>2. ASSUME NEW d \in {2, 4}, NEW c \in Nat, Offset(u, 2) = c,
             \A n \in 2..(Count(u) - 1) : uploads[u].parts[n] = d
      PROVE  Offset(u, i) = d * (i - 2) + c
  <2>1. PICK S : S = {n \in Nat : n + 2 <= Count(u) => Offset(u, n + 2) = d * n + c}
    OBVIOUS
  <2>2. 0 \in S
    BY <1>2, <2>1
  <2>3. ASSUME NEW n \in 1..Count(u), n - 1 \in S PROVE n \in S
    <3>1. CASE n + 2 <= Count(u)
      <4>1. n + 1 \in 2..(Count(u) - 1) /\ n + 1 \in 1..Count(u) /\ n - 1 + 2 = n + 1 /\ n + 1 + 1 = n + 2
        BY <1>1, <3>1
      <4>2. Offset(u, n + 1) = d * (n - 1) + c
        BY <1>1, <2>1, <2>3, <4>1
      <4>3. Offset(u, n + 2) = Offset(u, n + 1) + d
        BY <1>1, <1>2, <4>1
      <4>4. CASE d = 2
        BY <1>2, <2>1, <4>2, <4>3, <4>4
      <4>5. CASE d = 4
        BY <1>2, <2>1, <4>2, <4>3, <4>5
      <4> QED
        BY <1>2, <4>4, <4>5
    <3>2. CASE ~(n + 2 <= Count(u))
      BY <2>1, <3>2
    <3> QED
      BY <3>1, <3>2
  <2>4. \A n \in 0..Count(u) : n \in S
    BY <1>1, <2>2, <2>3, UpTo
  <2>5. i - 2 \in 0..Count(u) /\ i - 2 + 2 = i /\ i <= Count(u)
    BY <1>1
  <2> QED
    BY <1>1, <2>1, <2>4, <2>5
<1>3. 1 \in 1..(Count(u) - 1) /\ 1 \in 1..Count(u) /\ i \in Int
  BY <1>1
<1>4. Offset(u, 2) = uploads[u].parts[1]
  <2>1. Offset(u, 1 + 1) = Offset(u, 1) + uploads[u].parts[1] /\ 1 + 1 = 2
    BY <1>1, <1>3
  <2>2. uploads[u].parts[1] \in Nat \ {0}
    BY <1>3, UploadIs
  <2> QED
    BY <1>1, <2>1, <2>2
<1>5. CASE uploads[u].kind = "Q14"
  <2>1. \A n \in 2..(Count(u) - 1) : uploads[u].parts[n] = 2
    BY <1>1, <1>5
  <2>2. Offset(u, 2) = 1
    BY <1>1, <1>4, <1>5
  <2>3. Offset(u, i) = 2 * (i - 2) + 1
    <3>1. PICK d, c : d = 2 /\ c = 1
      OBVIOUS
    <3>2. Offset(u, i) = d * (i - 2) + c
      <4>1. d \in {2, 4} /\ c \in Nat /\ Offset(u, 2) = c
        BY <2>2, <3>1
      <4>2. \A n \in 2..(Count(u) - 1) : uploads[u].parts[n] = d
        BY <2>1, <3>1
      <4> QED
        BY <1>2, <4>1, <4>2
    <3> QED
      BY <3>1, <3>2
  <2> QED
    BY <1>5, <2>3
<1>6. CASE uploads[u].kind = "GOS" /\ uploads[u].block = 2
  <2>1. uploads[u].parts[1] = 2 /\ \A n \in 2..(Count(u) - 1) : uploads[u].parts[n] = 2
    BY <1>1, <1>3, <1>6
  <2>2. Offset(u, i) = 2 * (i - 2) + 2
    <3>1. PICK d, c : d = 2 /\ c = 2
      OBVIOUS
    <3>2. Offset(u, i) = d * (i - 2) + c
      BY <1>2, <1>4, <2>1, <3>1
    <3> QED
      BY <3>1, <3>2
  <2> QED
    BY <1>3, <1>6, <2>2
<1>7. CASE uploads[u].kind = "GOS" /\ uploads[u].block = 4
  <2>1. uploads[u].parts[1] = 4 /\ \A n \in 2..(Count(u) - 1) : uploads[u].parts[n] = 4
    BY <1>1, <1>3, <1>7
  <2>2. Offset(u, i) = 4 * (i - 2) + 4
    <3>1. PICK d, c : d = 4 /\ c = 4
      OBVIOUS
    <3>2. Offset(u, i) = d * (i - 2) + c
      BY <1>2, <1>4, <2>1, <3>1
    <3> QED
      BY <3>1, <3>2
  <2> QED
    BY <1>3, <1>7, <2>2
<1> QED
  BY <1>5, <1>6, <1>7

\* The numbers of blocks that are read of the two bytes.
LEMMA PostNums ==
    ASSUME NEW m, m \in Nat
    PROVE  /\ PostNumTwo(<<(2 * m) \div 256, (2 * m) % 256>>) = m
           /\ PostNumFour(<<(4 * m) \div 256, (4 * m) % 256>>) = m
<1>1. PICK o : o = 2 * m /\ o \in Nat
  OBVIOUS
<1>2. PICK p : p = 4 * m /\ p \in Nat
  OBVIOUS
<1>3. ASSUME NEW x, x \in Nat PROVE /\ x = 256 * (x \div 256) + (x % 256) /\ x % 256 \in 0..255
                                    /\ x \div 256 \in Nat
  BY <1>3
<1>4. ASSUME NEW y, y \in 0..255 PROVE /\ y = 16 * (y \div 16) + (y % 16) /\ y % 16 \in 0..15
                                       /\ y \div 16 \in 0..15
  BY <1>4
<1>5. ASSUME NEW z, z \in 0..15 PROVE /\ z = 2 * (z \div 2) + (z % 2) /\ z % 2 \in 0..1 /\ z \div 2 \in 0..7
                                      /\ z = 4 * (z \div 4) + (z % 4) /\ z % 4 \in 0..3 /\ z \div 4 \in 0..3
  BY <1>5
<1>6. PostNumTwo(<<o \div 256, o % 256>>) = m
  <2>1. PICK a, b : a = o \div 256 /\ b = o % 256 /\ o = 256 * a + b /\ b \in 0..255 /\ a \in Nat
    BY <1>1, <1>3
  <2>2. PICK c, d : c = b \div 16 /\ d = b % 16 /\ b = 16 * c + d /\ d \in 0..15 /\ c \in 0..15
    BY <1>4, <2>1
  <2>3. PICK e, f : e = d \div 2 /\ f = d % 2 /\ d = 2 * e + f /\ f \in 0..1 /\ e \in 0..7
    BY <1>5, <2>2
  <2>4. a * 128 + c * 8 + e = m
    BY <1>1, <2>1, <2>2, <2>3
  <2> QED
    BY <2>1, <2>2, <2>3, <2>4 DEF PostNumTwo
<1>7. PostNumFour(<<p \div 256, p % 256>>) = m
  <2>1. PICK a, b : a = p \div 256 /\ b = p % 256 /\ p = 256 * a + b /\ b \in 0..255 /\ a \in Nat
    BY <1>2, <1>3
  <2>2. PICK c, d : c = b \div 16 /\ d = b % 16 /\ b = 16 * c + d /\ d \in 0..15 /\ c \in 0..15
    BY <1>4, <2>1
  <2>3. PICK e, f : e = d \div 4 /\ f = d % 4 /\ d = 4 * e + f /\ f \in 0..3 /\ e \in 0..3
    BY <1>5, <2>2
  <2>4. a * 64 + c * 4 + e = m
    BY <1>2, <2>1, <2>2, <2>3
  <2> QED
    BY <2>1, <2>2, <2>3, <2>4 DEF PostNumFour
<1> QED
  BY <1>1, <1>2, <1>6, <1>7

\* A part goes behind those before it.
LEMMA NextRangeIs ==
    ASSUME ChatTypes, NEW w \in Workers, pc[w] = "rewrite", Number(w) # 1,
           Kind(w) = "GOS" => got[w].num = uploads[Upload(w)].block
    PROVE  NextRange(w) = Place(w)
<1>1. /\ Upload(w) \in Ids /\ uploads \in Plans /\ Number(w) \in 1..Count(Upload(w))
      /\ Count(Upload(w)) \in Nat
  BY HandIs DEF StageFor, PartPlaces, Busy, ChatTypes, PlanOK
<1>2. PICK u, i, o : /\ u = Upload(w) /\ i = Number(w) /\ o = Place(w) /\ o = Offset(u, i)
                     /\ u \in Ids /\ i \in 1..Count(u) /\ i # 1 /\ i \in Nat /\ i >= 2
  BY <1>1 DEF Place
<1>3. CASE Kind(w) = "Q14"
  <2>1. uploads[u].kind = "Q14" /\ uploads[u].parts[1] = 1
    BY <1>1, <1>2, <1>3, UploadIs DEF Kind
  <2>2. o = 2 * (i - 2) + 1 /\ i - 2 \in Nat
    BY <1>1, <1>2, <2>1, BlocksAt
  <2>3. Bp(w) = <<(2 * (i - 2)) \div 256, (2 * (i - 2)) % 256>>
    <3>1. o - 1 = 2 * (i - 2)
      BY <2>2
    <3> QED
      BY <1>2, <1>3, <2>1, <3>1 DEF Bp
  <2>4. PostNumTwo(Bp(w)) = i - 2
    BY <2>2, <2>3, PostNums
  <2> QED
    BY <1>2, <1>3, <2>2, <2>4 DEF NextRange
<1>4. CASE Kind(w) = "GOS"
  <2>1. uploads[u].kind = "GOS" /\ uploads[u].block \in {2, 4} /\ got[w].num = uploads[u].block
    BY <1>1, <1>2, <1>4, UploadIs DEF Kind
  <2>2. CASE uploads[u].block = 2
    <3>1. o = 2 * (i - 1) /\ i - 1 \in Nat
      BY <1>1, <1>2, <2>1, <2>2, BlocksAt
    <3>2. Bp(w) = <<(2 * (i - 1)) \div 256, (2 * (i - 1)) % 256>>
      BY <1>2, <1>4, <3>1 DEF Bp
    <3>3. PostNumTwo(Bp(w)) = i - 1
      BY <3>1, <3>2, PostNums
    <3> QED
      BY <1>2, <1>4, <2>1, <2>2, <3>1, <3>3 DEF NextRange
  <2>3. CASE uploads[u].block = 4
    <3>1. o = 4 * (i - 1) /\ i - 1 \in Nat
      BY <1>1, <1>2, <2>1, <2>3, BlocksAt
    <3>2. Bp(w) = <<(4 * (i - 1)) \div 256, (4 * (i - 1)) % 256>>
      BY <1>2, <1>4, <3>1 DEF Bp
    <3>3. PostNumFour(Bp(w)) = i - 1
      BY <3>1, <3>2, PostNums
    <3> QED
      BY <1>2, <1>4, <2>1, <2>3, <3>1, <3>3 DEF NextRange
  <2> QED
    BY <2>1, <2>2, <2>3
<1>5. CASE Kind(w) \notin {"Q14", "GOS"}
  BY <1>5 DEF NextRange
<1> QED
  BY <1>3, <1>4, <1>5

\* The first part makes the beginning of a file.
LEMMA FirstUnits ==
    ASSUME uploads \in Plans, NEW u \in Ids
    PROVE  At(<<>>, 0, Units(u, 1)) = Beginning(u, 1)
<1>1. /\ Offset(u, 1) = 0 /\ Offset(u, 2) = uploads[u].parts[1] /\ uploads[u].parts[1] \in Nat \ {0}
  <2>1. 1 \in 1..Count(u) /\ 1 + 1 = 2
    BY UploadIs
  <2>2. Offset(u, 1 + 1) = Offset(u, 1) + uploads[u].parts[1]
    BY <2>1, OffsetIs
  <2> QED
    BY <2>1, <2>2, UploadIs, OffsetIs
<1>2. PICK p, n : n = uploads[u].parts[1] /\ p = Units(u, 1) /\ p = [k \in 1..n |-> <<u, k>>] /\ Len(p) = n /\ n \in Nat
  <2>1. Units(u, 1) = [k \in 1..uploads[u].parts[1] |-> <<u, k>>]
    BY <1>1 DEF Units
  <2> QED
    BY <1>1, <2>1
<1>3. At(<<>>, 0, p) = [k \in 1..n |-> <<u, k>>]
  <2>1. (IF 0 + Len(p) > Len(<<>>) THEN 0 + Len(p) ELSE Len(<<>>)) = n
    BY <1>1, <1>2
  <2>2. At(<<>>, 0, p) = [k \in 1..n |-> IF k \in (0 + 1)..(0 + Len(p)) THEN p[k - 0]
                                        ELSE IF k \in 1..Len(<<>>) THEN <<>>[k] ELSE Hole]
    BY <2>1 DEF At
  <2> QED
    BY <1>2, <2>2
<1> QED
  BY <1>1, <1>2, <1>3 DEF Beginning

\* The next one makes it longer.
LEMMA NextUnits ==
    ASSUME uploads \in Plans, NEW u \in Ids, NEW n \in 1..Count(u), n # 1
    PROVE  At(Beginning(u, n - 1), Offset(u, n), Units(u, n)) = Beginning(u, n)
<1>1. /\ Offset(u, n) \in Nat /\ Offset(u, n + 1) = Offset(u, n) + uploads[u].parts[n]
      /\ uploads[u].parts[n] \in Nat \ {0} /\ n - 1 + 1 = n
  BY UploadIs, OffsetIs
<1>2. PICK o, m : o = Offset(u, n) /\ m = uploads[u].parts[n] /\ o \in Nat /\ m \in Nat \ {0} /\ Offset(u, n + 1) = o + m
  BY <1>1
<1>3. PICK p : p = Units(u, n) /\ p = [k \in 1..m |-> <<u, o + k>>] /\ Len(p) = m
  <2>1. Units(u, n) = [k \in 1..uploads[u].parts[n] |-> <<u, Offset(u, n) + k>>]
    BY DEF Units
  <2>2. Units(u, n) = [k \in 1..m |-> <<u, o + k>>]
    BY <1>2, <2>1
  <2> QED
    BY <1>2, <2>2
<1>4. PICK s : s = Beginning(u, n - 1) /\ s = [k \in 1..o |-> <<u, k>>] /\ Len(s) = o
  <2>1. Beginning(u, n - 1) = [k \in 1..Offset(u, n - 1 + 1) |-> <<u, k>>]
    BY DEF Beginning
  <2>2. Beginning(u, n - 1) = [k \in 1..o |-> <<u, k>>]
    BY <1>1, <1>2, <2>1
  <2> QED
    BY <1>2, <2>2
<1>5. (IF o + Len(p) > Len(s) THEN o + Len(p) ELSE Len(s)) = o + m
  BY <1>2, <1>3, <1>4
<1>6. At(s, o, p) = [k \in 1..(o + m) |-> IF k \in (o + 1)..(o + Len(p)) THEN p[k - o]
                                         ELSE IF k \in 1..Len(s) THEN s[k] ELSE Hole]
  BY <1>5 DEF At
<1>7. ASSUME NEW k \in 1..(o + m)
      PROVE  (IF k \in (o + 1)..(o + Len(p)) THEN p[k - o] ELSE IF k \in 1..Len(s) THEN s[k] ELSE Hole) = <<u, k>>
  <2>1. CASE k \in (o + 1)..(o + m)
    <3>1. k - o \in 1..m /\ o + (k - o) = k
      BY <1>2, <2>1
    <3> QED
      BY <1>3, <2>1, <3>1
  <2>2. CASE k \notin (o + 1)..(o + m)
    <3>1. k \in 1..o
      BY <1>2, <2>2
    <3> QED
      BY <1>3, <1>4, <2>2, <3>1
  <2> QED
    BY <2>1, <2>2
<1>8. At(s, o, p) = [k \in 1..(o + m) |-> <<u, k>>]
  BY <1>6, <1>7
<1> QED
  BY <1>2, <1>3, <1>4, <1>8 DEF Beginning

\* All parts are the file.
LEMMA WholeIs ==
    ASSUME uploads \in Plans, NEW u \in Ids PROVE Beginning(u, Count(u)) = Whole(u)
BY OffsetIs DEF Beginning, Whole

\* The parts of a file are all there when its offsets have come to its size.
LEMMA SizeTells ==
    ASSUME uploads \in Plans, NEW u \in Ids, NEW i \in 1..Count(u)
    PROVE  Offset(u, i) + uploads[u].parts[i] = Size(u) <=> i = Count(u)
<1>1. Count(u) \in Nat \ {0} /\ Offset(u, i + 1) = Offset(u, i) + uploads[u].parts[i] /\ Size(u) = Offset(u, Count(u) + 1)
  BY UploadIs, OffsetIs
<1>2. i + 1 \in 1..(Count(u) + 1) /\ Count(u) + 1 \in 1..(Count(u) + 1)
  BY <1>1
<1>3. CASE i = Count(u)
  BY <1>1, <1>3
<1>4. CASE i # Count(u)
  <2>1. i + 1 < Count(u) + 1
    BY <1>1, <1>4
  <2>2. Offset(u, i + 1) < Offset(u, Count(u) + 1) /\ Offset(u, i + 1) \in Nat /\ Offset(u, Count(u) + 1) \in Nat
    BY <1>2, <2>1, OffsetGrows
  <2> QED
    BY <1>1, <1>4, <2>2
<1> QED
  BY <1>3, <1>4

\* A first part completes a file of one part, and no other.
LEMMA FirstCompletesIs ==
    ASSUME ChatTypes, NEW w \in Workers, pc[w] = "write", Number(w) = 1, Regular(Upload(w)),
           Kind(w) = "GOS" => got[w].num = KindOfBlock(w)
    PROVE  FirstCompletes(w) <=> Count(Upload(w)) = 1
<1>1. PICK u : u = Upload(w)
  OBVIOUS
<1>2. /\ u \in Ids /\ uploads \in Plans /\ Kind(w) \in Noted \cup {"Yahoo"} /\ Count(u) \in Nat \ {0}
      /\ Kind(w) = uploads[u].kind
  BY <1>1, HandIs DEF StageFor, Busy, ChatTypes, PlanOK, Kind
<1>3. CASE Kind(w) \in {"Q13", "Q14"}
  <2>1. 1 \in 1..Count(u) /\ Offset(u, 1) = 0 /\ uploads[u].parts[1] \in Nat
    BY <1>2, OffsetIs, UploadIs
  <2>2. 0 + uploads[u].parts[1] = Size(u) <=> 1 = Count(u)
    BY <1>2, <2>1, SizeTells
  <2>3. Length(w) = uploads[u].parts[1]
    BY <1>1 DEF Length
  <2>4. Length(w) = Size(u) <=> Count(u) = 1
    BY <2>1, <2>2, <2>3
  <2>5. FirstCompletes(w) <=> Length(w) = Size(Upload(w))
    BY <1>3 DEF FirstCompletes
  <2> QED
    BY <1>1, <2>4, <2>5
<1>4. CASE Kind(w) = "GOS"
  <2>1. got[w].num = KindOfBlock(w) /\ KindOfBlock(w) \in {2, 4} /\ uploads[u].block \in {2, 4}
    BY <1>2, <1>4, UploadIs DEF KindOfBlock
  <2>2. CASE Count(u) = 1
    <3>1. EndFlag(w) = 1
      BY <1>1, <2>2 DEF EndFlag, IsLast
    <3> QED
      BY <1>1, <1>4, <2>1, <2>2, <3>1 DEF FirstCompletes, Ended
  <2>3. CASE Count(u) # 1
    <3>1. EndFlag(w) = uploads[u].block
      BY <1>1, <2>3 DEF EndFlag, IsLast
    <3>2. uploads[u].parts[1] = uploads[u].block
      <4>1. 1 \in 1..(Count(u) - 1)
        BY <1>2, <2>3
      <4> QED
        BY <1>2, <1>4, <4>1, UploadIs
    <3>3. KindOfBlock(w) = uploads[u].block
      BY <1>1, <2>1, <3>2 DEF KindOfBlock, Length
    <3> QED
      BY <1>1, <1>4, <2>1, <2>3, <3>1, <3>3 DEF FirstCompletes, Ended
  <2> QED
    BY <2>2, <2>3
<1>5. CASE Kind(w) = "Fei5"
  BY <1>1, <1>5 DEF FirstCompletes, IsLast
<1>6. CASE Kind(w) = "Fei"
  <2>1. Count(u) \in uploads[u].marked /\ ~EndsFirstBlock(u)
    BY <1>1, <1>2, <1>6, UploadIs DEF Regular
  <2>2. Marked(w) <=> Count(u) = 1
    BY <1>1, <1>2, <1>6, <2>1 DEF Marked, EndsFirstBlock
  <2> QED
    BY <1>1, <1>6, <2>2 DEF FirstCompletes
<1>7. CASE Kind(w) = "Yahoo"
  <2>1. Count(u) = 1
    BY <1>2, <1>7, UploadIs DEF Single
  <2> QED
    BY <1>1, <1>7, <2>1 DEF FirstCompletes
<1> QED
  BY <1>2, <1>3, <1>4, <1>5, <1>6, <1>7 DEF Noted

\* All marked parts are counted when the last part has come.
LEMMA MeasuredIs ==
    ASSUME uploads \in Plans, NEW u \in Ids, uploads[u].kind = "Fei", NEW i \in 1..Count(u)
    PROVE  /\ Marks(u) \in Nat /\ IsFiniteSet(uploads[u].marked)
           /\ Measured(u, i) \in Nat
           /\ Measured(u, i) - 470 = Marks(u) <=> i = Count(u)
<1>1. PICK M, n, T : M = uploads[u].marked /\ n = Count(u) /\ T = M \cap (1..i)
  OBVIOUS
<1>2. M \subseteq 1..n /\ n \in M /\ n \in Nat /\ i \in 1..n
  BY <1>1, UploadIs
<1>3. IsFiniteSet(M)
  <2>1. IsFiniteSet(1..n)
    BY <1>2, FS_Interval
  <2> QED
    BY <1>2, <2>1, FS_Subset
<1>4. /\ IsFiniteSet(T) /\ Cardinality(T) \in Nat /\ Cardinality(M) \in Nat
      /\ M = T \/ Cardinality(T) < Cardinality(M)
  <2>1. T \subseteq M
    BY <1>1
  <2> QED
    BY <1>3, <2>1, FS_Subset, FS_CardinalityType
<1>5. CASE i \notin M
  <2>1. Measured(u, i) = 0 /\ i # n
    BY <1>1, <1>2, <1>5 DEF Measured
  <2> QED
    BY <1>1, <1>3, <1>4, <2>1 DEF Marks
<1>6. CASE i \in M
  <2>1. Measured(u, i) = 470 + Cardinality(T)
    BY <1>1, <1>6 DEF Measured
  <2>2. CASE i = n
    <3>1. T = M
      BY <1>1, <1>2, <2>2
    <3>2. Measured(u, i) = 470 + Marks(u) /\ Marks(u) \in Nat
      BY <1>1, <1>4, <2>1, <3>1 DEF Marks
    <3> QED
      BY <1>1, <1>3, <2>2, <3>2
  <2>3. CASE i # n
    <3>1. n \notin T
      BY <1>1, <1>2, <2>3
    <3>2. Cardinality(T) < Cardinality(M)
      BY <1>2, <1>4, <3>1
    <3> QED
      BY <1>1, <1>3, <1>4, <2>1, <2>3, <3>2 DEF Marks
  <2> QED
    BY <2>2, <2>3
<1> QED
  BY <1>5, <1>6

\* A later part completes a file if it is the last one.
LEMMA NextCompletesIs ==
    ASSUME ChatTypes, NEW w \in Workers, pc[w] = "rewrite", Number(w) # 1,
           NEW u, u = Upload(w),
           Kind(w) = "GOS" => got[w].num = uploads[u].block,
           Kind(w) = "Fei" => got[w].num = Marks(u) /\ got[w].flen = Measured(u, Number(w))
    PROVE  NextCompletes(w) <=> Number(w) = Count(u)
<1>1. /\ u \in Ids /\ uploads \in Plans /\ Kind(w) \in Noted /\ Count(u) \in Nat \ {0}
      /\ Kind(w) = uploads[u].kind /\ Number(w) \in 1..Count(u)
  BY HandIs DEF StageFor, Busy, ChatTypes, PlanOK, Kind, PartPlaces
<1>2. CASE Kind(w) = "Q13"
  <2>1. Place(w) = Offset(u, Number(w)) /\ Length(w) = uploads[u].parts[Number(w)]
    BY DEF Place, Length
  <2> QED
    BY <1>1, <1>2, <2>1, SizeTells DEF NextCompletes
<1>3. CASE Kind(w) = "Q14"
  <2>1. uploads[u].block = 2
    BY <1>1, <1>3, UploadIs
  <2> QED
    BY <1>1, <1>3, <2>1 DEF NextCompletes, EndFlag, IsLast
<1>4. CASE Kind(w) = "GOS"
  <2>1. uploads[u].block \in {2, 4} /\ got[w].num = uploads[u].block
    BY <1>1, <1>4, UploadIs
  <2> QED
    BY <1>1, <1>4, <2>1 DEF NextCompletes, Ended, EndFlag, IsLast
<1>5. CASE Kind(w) = "Fei5"
  BY <1>5 DEF NextCompletes, IsLast
<1>6. CASE Kind(w) = "Fei"
  <2>1. NextCompletes(w) <=> Measured(u, Number(w)) - 470 = Marks(u)
    BY <1>6 DEF NextCompletes
  <2> QED
    BY <1>1, <1>6, <2>1, MeasuredIs, ZenonT(60)
<1> QED
  BY <1>1, <1>2, <1>3, <1>4, <1>5, <1>6 DEF Noted

-----------------------------------------------------------------------------
(* What each step does *)

\* The steps of a worker: what it looks up,
LEMMA LookDoes ==
    ASSUME ChatTypes, NEW w \in Workers, Look(w)
    PROVE  /\ pc[w] = "look"
           /\ note[Name(w)] = 0 =>
                 /\ pc'[w] = IF Kind(w) = "Fei" THEN "session" ELSE "begin"
                 /\ got'[w] = got[w]
           /\ note[Name(w)] # 0 =>
                 /\ pc'[w] = IF Kind(w) \in {"Fei", "Fei5"} THEN "reopen" ELSE "rewrite"
                 /\ got'[w].uid = Read(Items(w)).uid /\ got'[w].num = Read(Items(w)).num
<1>1. pc[w] = "look" /\ got[w] \in Locals
  BY HandIs DEF Look, Busy
<1>2. CASE note[Name(w)] = 0
  <2>1. PICK place : place = (IF Kind(w) = "Fei" THEN "session" ELSE "begin") /\ GoWith(w, place, got[w])
    BY <1>2 DEF Look, Goto
  <2>2. place # "idle"
    BY <2>1
  <2>3. pc'[w] = place /\ got'[w] = got[w]
    BY <2>1, <2>2, GoneIs
  <2> QED
    BY <1>1, <1>2, <2>1, <2>3
<1>3. CASE note[Name(w)] # 0
  <2>1. PICK place, h : /\ place = (IF Kind(w) \in {"Fei", "Fei5"} THEN "reopen" ELSE "rewrite")
                        /\ h = Read(Items(w))
                        /\ GoWith(w, place, [got[w] EXCEPT !.uid = h.uid, !.num = h.num])
    BY <1>3 DEF Look
  <2>2. PICK g : g = [got[w] EXCEPT !.uid = h.uid, !.num = h.num]
    OBVIOUS
  <2>3. pc'[w] = place /\ got'[w] = g
    <3>1. GoWith(w, place, g) /\ place # "idle"
      BY <2>1, <2>2
    <3> QED
      BY <3>1, GoneIs
  <2>4. g.uid = h.uid /\ g.num = h.num
    BY <1>1, <2>2 DEF Locals
  <2> QED
    BY <1>1, <1>3, <2>1, <2>3, <2>4
<1> QED
  BY <1>1, <1>2, <1>3

\* find_hash finds a session of that connection, if there is one.
LEMMA FindDoes ==
    ASSUME ChatTypes, NEW w \in Workers, FindSession(w)
    PROVE  /\ pc[w] = "session" /\ Kind(w) = "Fei"
           /\ got'[w].uid \in {0, got[w].uid}
           /\ \/ pc'[w] = "idle" /\ \A b \in In(tbl) : tbl.key[b] # Conn(w)
              \/ pc'[w] = "begin" /\ got'[w].bucket \in In(tbl) /\ tbl.key[got'[w].bucket] = Conn(w)
<1>1. pc[w] = "session" /\ got[w] \in Locals /\ Kind(w) = "Fei" /\ Conn(w) \in Keys
  BY HandIs DEF FindSession, Busy, StageFor
<1>2. PICK b, place : /\ b = FindHash(tbl, Conn(w)) /\ place = (IF b = NULL THEN "idle" ELSE "begin")
                      /\ GoWith(w, place, [got[w] EXCEPT !.bucket = b])
  BY DEF FindSession
<1>3. PICK g : g = [got[w] EXCEPT !.bucket = b]
  OBVIOUS
<1>4. pc'[w] = place /\ got'[w] = IF place = "idle" THEN Nothing ELSE g
  <2>1. GoWith(w, place, g)
    BY <1>2, <1>3
  <2> QED
    BY <2>1, GoneIs
<1>5. g.bucket = b /\ g.uid = got[w].uid
  BY <1>1, <1>3 DEF Locals
<1>6. \/ b \in In(tbl) /\ tbl.key[b] = Conn(w)
      \/ b = NULL /\ \A c \in In(tbl) : tbl.key[c] # Conn(w)
  BY <1>1, <1>2, FindIs DEF ChatTypes, SessionOK
<1>7. b \in In(tbl) => b # NULL
  BY SessionIs DEF ChatTypes, SessionOK, NULL
<1> QED
  BY <1>1, <1>2, <1>4, <1>5, <1>6, <1>7, NothingIs

\* what it makes,
LEMMA BeginGives ==
    ASSUME ChatTypes, NEW w \in Workers, Begin(w)
    PROVE  /\ Kind(w) = "Fei" => /\ uuids' = uuids
                                 /\ \E s \in Contents(got[w].bucket) :
                                       /\ got'[w].uid = s.uid /\ got'[w].num = s.block + 1
                                       /\ got'[w].fn = s.fn /\ got'[w].fs = s.fs
                                 /\ got[w].bucket \in 1..Len(sessions)
           /\ Kind(w) # "Fei" => /\ uuids' = uuids + 1 /\ got'[w].uid = uuids + 1
                                 /\ got'[w].num = KindOfBlock(w)
<1>1. pc[w] = "begin" /\ Busy(w) /\ OpenNote(w, Kind(w) # "Fei")
  BY DEF Begin, Busy
<1>2. /\ got[w] \in Locals /\ (Kind(w) = "Fei" => got[w].bucket \in 1..Len(sessions))
      /\ Name(w) \in NoteNames /\ uuids \in Nat
  <2>1. /\ got[w].bucket \in Nat /\ got[w].bucket <= Len(sessions) /\ Len(sessions) \in Nat
        /\ got[w] \in Locals /\ Name(w) \in NoteNames /\ uuids \in Nat
        /\ (Kind(w) = "Fei" => got[w].bucket # 0)
    BY <1>1, HandIs DEF StageFor, NULL
  <2> QED
    BY <2>1
<1>3. PICK old, fd : old = got[w] /\ fd = Opened(Name(w)) /\ fd \in Nat
  <2>1. PICK emptied \in BOOLEAN : OpenNote(w, emptied)
    BY <1>1
  <2> QED
    BY <1>2, <2>1, OpenIs DEF ChatTypes
<1>4. CASE Kind(w) = "Fei"
  <2>1. /\ uuids' = uuids
        /\ \E s \in Contents(got[w].bucket) :
             GoWith(w, "fill", [got[w] EXCEPT !.uid = s.uid, !.num = s.block + 1, !.fn = s.fn,
                                              !.fs = s.fs, !.fd = Opened(Name(w))])
    BY <1>4 DEF Begin
  <2>2. PICK s \in Contents(got[w].bucket) :
          GoWith(w, "fill", [got[w] EXCEPT !.uid = s.uid, !.num = s.block + 1, !.fn = s.fn,
                                           !.fs = s.fs, !.fd = Opened(Name(w))])
    BY <2>1
  <2>3. s \in Record
    BY <1>2, <1>4, <2>2, ContentsIs DEF ChatTypes
  <2>4. PICK n, uid, fn, fs : /\ n = s.block + 1 /\ uid = s.uid /\ fn = s.fn /\ fs = s.fs
                              /\ n \in Nat /\ uid \in Nat /\ fn \in Titles /\ fs \in Nat
    BY <2>3 DEF Record
  <2>5. PICK g : g = Telling(old, uid, n, fn, fs, fd)
    OBVIOUS
  <2>6. GoWith(w, "fill", g)
    BY <1>3, <2>2, <2>4, <2>5 DEF Telling
  <2>7. g.uid = uid /\ g.num = n /\ g.fn = fn /\ g.fs = fs
    BY <1>2, <1>3, <2>4, <2>5, TellingIs
  <2>8. got'[w] = g
    BY <2>6, GoneIs
  <2> QED
    BY <1>2, <1>4, <2>1, <2>2, <2>4, <2>7, <2>8
<1>5. CASE Kind(w) # "Fei"
  <2>1. uuids' = uuids + 1 /\ KindOfBlock(w) \in Nat
    BY <1>5 DEF Begin, KindOfBlock
  <2>2. PICK n, uid : n = KindOfBlock(w) /\ uid = uuids' /\ n \in Nat /\ uid \in Nat
    BY <1>2, <2>1
  <2>3. PICK g : g = Noting(old, uid, n, fd)
    OBVIOUS
  <2>4. GoWith(w, "fill", g)
    BY <1>3, <1>5, <2>2, <2>3 DEF Begin, Noting
  <2>5. g.uid = uid /\ g.num = n
    BY <1>2, <1>3, <2>2, <2>3, NotingIs
  <2>6. got'[w] = g
    BY <2>4, GoneIs
  <2> QED
    BY <1>5, <2>1, <2>2, <2>5, <2>6
<1> QED
  BY <1>4, <1>5

\* What a worker has in hand when it has opened an old note.
LEMMA ReopenGives ==
    ASSUME ChatTypes, NEW w \in Workers, Reopen(w)
    PROVE  /\ Kind(w) = "Fei" => got'[w].uid = got[w].uid
           /\ Kind(w) = "Fei5" /\ note[Name(w)] = 0 => pc'[w] = "idle" /\ got'[w] = Nothing
           /\ Kind(w) = "Fei5" /\ note[Name(w)] # 0 =>
                 pc'[w] = "rewrite" /\ got'[w].uid = Read(Items(w)).uid
<1>1. got[w] \in Locals /\ Busy(w)
  BY HandIs DEF Reopen, Busy
<1>2. CASE Kind(w) = "Fei"
  <2>1. GoWith(w, "count", Reopened(w))
    BY <1>2 DEF Reopen
  <2>2. PICK a, b, g : g = [got[w] EXCEPT !.fd = a, !.flen = b] /\ g = Reopened(w)
    BY DEF Reopened
  <2>3. got'[w] = g
    BY <2>1, <2>2, GoneIs
  <2>4. g.uid = got[w].uid
    BY <1>1, <2>2 DEF Locals
  <2> QED
    BY <1>2, <2>3, <2>4
<1>3. CASE Kind(w) = "Fei5" /\ note[Name(w)] = 0
  <2>1. GoWith(w, "idle", got[w])
    BY <1>3 DEF Reopen, Leave, Goto
  <2> QED
    BY <1>3, <2>1, GoneIs
<1>4. CASE Kind(w) = "Fei5" /\ note[Name(w)] # 0
  <2>1. PICK x, g : /\ x = Read(Items(w)).uid /\ g = [got[w] EXCEPT !.uid = x]
                    /\ GoWith(w, "rewrite", g)
    BY <1>4 DEF Reopen
  <2>2. pc'[w] = "rewrite" /\ got'[w] = g
    BY <2>1, GoneIs
  <2>3. g.uid = x
    BY <1>1, <2>1 DEF Locals
  <2> QED
    BY <1>4, <2>1, <2>2, <2>3
<1> QED
  BY <1>2, <1>3, <1>4

\* When it has counted a block.
LEMMA CountGives ==
    ASSUME ChatTypes, NEW w \in Workers, CountBlock(w)
    PROVE  got'[w].uid = Read(notes'[got[w].fd]).uid
<1>1. got[w] \in Locals /\ Busy(w)
  BY HandIs DEF CountBlock, Busy
<1>2. PICK a, b, g : /\ a = Read(notes'[got[w].fd]).uid
                     /\ g = [got[w] EXCEPT !.uid = a, !.num = b]
                     /\ GoWith(w, "rewrite", g)
  BY DEF CountBlock
<1>3. got'[w] = g
  BY <1>2, GoneIs
<1>4. g.uid = a
  BY <1>1, <1>2 DEF Locals
<1> QED
  BY <1>2, <1>3, <1>4

\* what it writes,
LEMMA WriteFirstDoes ==
    ASSUME ChatTypes, NEW w \in Workers, WriteFirst(w)
    PROVE  /\ pc[w] = "write"
           /\ data' \in {data, FirstData(w)}
           /\ Upload(w) \notin disturbed' =>
                 data' = FirstData(w) /\ pc'[w] = IF FirstCompletes(w) THEN "tell" ELSE "idle"
           /\ pc'[w] \in {"tell", "idle"}
           /\ got'[w] = IF pc'[w] = "idle" THEN Nothing ELSE FirstInf(w)
<1>1. pc[w] = "write"
  BY DEF WriteFirst
<1>2. \A place : GoWith(w, place, FirstInf(w)) =>
         pc'[w] = place /\ got'[w] = IF place = "idle" THEN Nothing ELSE FirstInf(w)
  <2> TAKE place
  <2> HAVE GoWith(w, place, FirstInf(w))
  <2> QED
    BY GoneIs
<1>3. CASE data' = FirstData(w) /\ GoWith(w, IF FirstCompletes(w) THEN "tell" ELSE "idle", FirstInf(w))
  <2>1. PICK place : place = (IF FirstCompletes(w) THEN "tell" ELSE "idle") /\ GoWith(w, place, FirstInf(w))
    BY <1>3
  <2>2. pc'[w] = place /\ got'[w] = (IF place = "idle" THEN Nothing ELSE FirstInf(w)) /\ place \in {"tell", "idle"}
    BY <1>2, <2>1
  <2> QED
    BY <1>1, <1>3, <2>1, <2>2
<1>4. CASE /\ Failure("body", Upload(w)) /\ data' = data
           /\ GoWith(w, IF FirstCompletes(w) /\ ~Asks(w) THEN "tell" ELSE "idle", FirstInf(w))
  <2>1. PICK place : place = (IF FirstCompletes(w) /\ ~Asks(w) THEN "tell" ELSE "idle") /\ GoWith(w, place, FirstInf(w))
    BY <1>4
  <2>2. pc'[w] = place /\ got'[w] = (IF place = "idle" THEN Nothing ELSE FirstInf(w)) /\ place \in {"tell", "idle"}
    BY <1>2, <2>1
  <2>3. Upload(w) \in disturbed'
    BY <1>4 DEF Failure
  <2> QED
    BY <1>1, <1>4, <2>2, <2>3
<1> QED
  BY <1>3, <1>4 DEF WriteFirst

\* What the writing of another part does.
LEMMA WriteNextDoes ==
    ASSUME ChatTypes, NEW w \in Workers, WriteNext(w)
    PROVE  /\ pc[w] = "rewrite"
           /\ data' = data \/ (data' = NextData(w) /\ got[w].uid \in DOMAIN data)
           /\ Upload(w) \notin disturbed' /\ got[w].uid \in DOMAIN data =>
                 data' = NextData(w) /\ pc'[w] = IF NextCompletes(w) THEN "reread" ELSE "idle"
           /\ got'[w] = IF pc'[w] = "idle" THEN Nothing ELSE got[w]
<1>1. pc[w] = "rewrite"
  BY DEF WriteNext
<1>2. \A place : Goto(w, place) => pc'[w] = place /\ got'[w] = IF place = "idle" THEN Nothing ELSE got[w]
  <2> TAKE place
  <2> HAVE Goto(w, place)
  <2>1. GoWith(w, place, got[w])
    BY DEF Goto
  <2> QED
    BY <2>1, GoneIs
<1>3. ASSUME Failure("body", Upload(w)) PROVE Upload(w) \in disturbed'
  BY <1>3 DEF Failure
<1>4. CASE got[w].uid \in DOMAIN data /\ data' = NextData(w)
          /\ Goto(w, IF NextCompletes(w) THEN "reread" ELSE "idle")
  <2>1. PICK place : place = (IF NextCompletes(w) THEN "reread" ELSE "idle") /\ Goto(w, place)
    BY <1>4
  <2>2. pc'[w] = place /\ got'[w] = IF place = "idle" THEN Nothing ELSE got[w]
    BY <1>2, <2>1
  <2> QED
    BY <1>1, <1>4, <2>1, <2>2
<1>5. CASE /\ Failure("body", Upload(w)) \/ got[w].uid \notin DOMAIN data
           /\ data' = data
           /\ Goto(w, IF NextCompletes(w) /\ ~Asks(w) THEN "reread" ELSE "idle")
  <2>1. PICK place : Goto(w, place)
    BY <1>5
  <2>2. pc'[w] = place /\ got'[w] = IF place = "idle" THEN Nothing ELSE got[w]
    BY <1>2, <2>1
  <2> QED
    BY <1>1, <1>3, <1>5, <2>2
<1> QED
  BY <1>4, <1>5 DEF WriteNext

\* What a POST that is a file does.
LEMMA WholeFileDoes ==
    ASSUME ChatTypes, NEW w \in Workers, WholeFile(w)
    PROVE  pc[w] = "whole" /\ pc'[w] = "write" /\ uuids' = uuids + 1 /\ got'[w].uid = uuids + 1
<1>1. got[w] \in Locals /\ pc[w] = "whole" /\ uuids' = uuids + 1
  BY HandIs DEF WholeFile, Busy
<1>2. PICK a, g : a = uuids' /\ g = [got[w] EXCEPT !.uid = a] /\ GoWith(w, "write", g)
  BY DEF WholeFile
<1>3. pc'[w] = "write" /\ got'[w] = g
  BY <1>2, GoneIs
<1>4. g.uid = a
  BY <1>1, <1>2 DEF Locals
<1> QED
  BY <1>1, <1>2, <1>3, <1>4

\* What a POST that is a text does.
LEMMA BlogDoes ==
    ASSUME ChatTypes, NEW w \in Workers, Blog(w)
    PROVE  /\ pc[w] = "blog" /\ uuids' = uuids + 1
           /\ \/ /\ data' = With(data, uuids + 1, Units(Upload(w), 1))
                 /\ pc'[w] = "tell" /\ got'[w].uid = uuids + 1
              \/ data' = data /\ pc'[w] = "idle" /\ got'[w] = Nothing
<1>1. got[w] \in Locals /\ pc[w] = "blog" /\ uuids' = uuids + 1
  BY HandIs DEF Blog, Busy
<1>2. CASE data' = With(data, uuids', Units(Upload(w), 1)) /\ GoWith(w, "tell", [got[w] EXCEPT !.uid = uuids'])
  <2>1. PICK a, g : a = uuids' /\ g = [got[w] EXCEPT !.uid = a] /\ GoWith(w, "tell", g)
    BY <1>2
  <2>2. pc'[w] = "tell" /\ got'[w] = g
    BY <2>1, GoneIs
  <2>3. g.uid = a
    BY <1>1, <2>1 DEF Locals
  <2> QED
    BY <1>1, <1>2, <2>1, <2>2, <2>3
<1>3. CASE Leave(w) /\ data' = data
  <2>1. GoWith(w, "idle", got[w])
    BY <1>3 DEF Leave, Goto
  <2> QED
    BY <1>1, <1>3, <2>1, GoneIs
<1> QED
  BY <1>2, <1>3 DEF Blog

\* and what it announces.
LEMMA RereadDoes ==
    ASSUME ChatTypes, NEW w \in Workers, Reread(w)
    PROVE  /\ pc[w] = "reread"
           /\ note[Name(w)] # 0 => pc'[w] = "tell"
           /\ pc'[w] # "idle" =>
                 /\ pc'[w] = "tell" /\ got'[w].uid = got[w].uid
                 /\ got'[w].fn = IF Kind(w) = "Fei" THEN Read(Items(w)).fn ELSE uploads[Upload(w)].name
                 /\ got'[w].fs = IF Kind(w) = "Fei" THEN Read(Items(w)).fs ELSE Size(Upload(w))
           /\ pc'[w] = "idle" => got'[w] = Nothing
<1>1. got[w] \in Locals /\ pc[w] = "reread"
  BY HandIs DEF Reread, Busy
<1>2. PICK place, a, b, g :
         /\ place = (IF note[Name(w)] = 0 /\ Kind(w) # "Fei5" THEN "idle" ELSE "tell")
         /\ a = (IF Kind(w) = "Fei" THEN Read(Items(w)).fn ELSE uploads[Upload(w)].name)
         /\ b = (IF Kind(w) = "Fei" THEN Read(Items(w)).fs ELSE Size(Upload(w)))
         /\ g = [got[w] EXCEPT !.fn = a, !.fs = b]
         /\ GoWith(w, place, g)
  BY DEF Reread
<1>3. pc'[w] = place /\ got'[w] = IF place = "idle" THEN Nothing ELSE g
  BY <1>2, GoneIs
<1>4. g.fn = a /\ g.fs = b /\ g.uid = got[w].uid
  BY <1>1, <1>2 DEF Locals
<1> QED
  BY <1>1, <1>2, <1>3, <1>4

\* What the announcing of a file does.
LEMMA TellDoes ==
    ASSUME ChatTypes, NEW w \in Workers, Tell(w)
    PROVE  /\ pc[w] = "tell"
           /\ pc'[w] = IF Kind(w) \in Single THEN "idle" ELSE "remove"
           /\ got'[w] = IF pc'[w] = "idle" THEN Nothing ELSE got[w]
           /\ Upload(w) \notin disturbed' =>
                 announced' = Append(announced, [upload |-> Upload(w), uid |-> got[w].uid,
                                                 fn |-> got[w].fn, fs |-> got[w].fs,
                                                 counted |-> got[w].flen # 0])
<1>1. PICK place : place = (IF Kind(w) \in Single THEN "idle" ELSE "remove") /\ GoWith(w, place, got[w])
  BY DEF Tell, Goto
<1>2. pc'[w] = place /\ got'[w] = IF place = "idle" THEN Nothing ELSE got[w]
  BY <1>1, GoneIs
<1>3. ASSUME Failure("memory", Upload(w)) PROVE Upload(w) \in disturbed'
  BY <1>3 DEF Failure
<1> QED
  BY <1>1, <1>2, <1>3 DEF Tell

\* What the first request of Fei does.
LEMMA InitSessionDoes ==
    ASSUME ChatTypes, NEW w \in Workers, InitSession(w)
    PROVE  /\ pc[w] = "init" /\ pc'[w] \in {"idle", "insert"}
           /\ pc'[w] = "idle" => got'[w] = Nothing
           /\ pc'[w] # "idle" => got'[w] = got[w]
           /\ Upload(w) \notin disturbed' /\ (\A b \in In(tbl) : tbl.key[b] # Conn(w)) => pc'[w] = "insert"
<1>1. pc[w] = "init" /\ Conn(w) \in Keys
  BY HandIs DEF InitSession, Busy
<1>2. \A place : Goto(w, place) => pc'[w] = place /\ got'[w] = IF place = "idle" THEN Nothing ELSE got[w]
  <2> TAKE place
  <2> HAVE Goto(w, place)
  <2>1. GoWith(w, place, got[w])
    BY DEF Goto
  <2> QED
    BY <2>1, GoneIs
<1>3. CASE Goto(w, IF FindHash(tbl, Conn(w)) = NULL THEN "insert" ELSE "idle")
  <2>1. PICK place : place = (IF FindHash(tbl, Conn(w)) = NULL THEN "insert" ELSE "idle") /\ Goto(w, place)
    BY <1>3
  <2>2. pc'[w] = place /\ got'[w] = IF place = "idle" THEN Nothing ELSE got[w]
    BY <1>2, <2>1
  <2>3. (\A b \in In(tbl) : tbl.key[b] # Conn(w)) => FindHash(tbl, Conn(w)) = NULL
    BY <1>1, FindIs DEF ChatTypes, SessionOK
  <2> QED
    BY <1>1, <2>1, <2>2, <2>3
<1>4. CASE Failure("body", Upload(w)) /\ Leave(w)
  <2>1. Upload(w) \in disturbed' /\ Goto(w, "idle")
    BY <1>4 DEF Failure, Leave
  <2>2. pc'[w] = "idle" /\ got'[w] = Nothing
    BY <1>2, <2>1
  <2> QED
    BY <1>1, <2>1, <2>2
<1> QED
  BY <1>3, <1>4 DEF InitSession

\* Three steps are the last of their POST.
LEMMA LeavingDoes ==
    ASSUME ChatTypes, NEW w \in Workers, RemoveNote(w) \/ InsertSession(w) \/ FinishSession(w)
    PROVE  pc'[w] = "idle" /\ got'[w] = Nothing
<1>1. GoWith(w, "idle", got[w])
  BY DEF RemoveNote, InsertSession, FinishSession, Leave, Goto
<1> QED
  BY <1>1, GoneIs

-----------------------------------------------------------------------------
(* Who comes to know a uuid *)

\* What is read of a note stands in it.
LEMMA ReadFrom ==
    ASSUME ChatTypes, NEW w \in Workers, Busy(w), NEW y, y = Read(Items(w)).uid
    PROVE  y = 0 \/ InNotes(y, Name(w))
<1>1. Name(w) \in NoteNames /\ note[Name(w)] \in 0..Len(notes)
  BY HandIs
<1>2. CASE Items(w) # <<>> /\ Items(w)[1].len = 470
  <2>1. PICK n : n = note[Name(w)] /\ n # 0 /\ Items(w) = notes[n] /\ n \in 1..Len(notes)
    BY <1>1, <1>2 DEF Items
  <2>2. notes[n] \in Seq(Item) /\ y = notes[n][1].uid
    BY <1>2, <2>1, NoteIs DEF Read, ChatTypes
  <2>3. 1 \in DOMAIN notes[n]
    BY <1>2, <2>1, <2>2
  <2>4. n \in Refs(Name(w))
    BY <2>1 DEF Refs
  <2> QED
    BY <2>2, <2>3, <2>4 DEF InNotes
<1>3. CASE ~(Items(w) # <<>> /\ Items(w)[1].len = 470)
  BY <1>3, OneIs DEF Read
<1> QED
  BY <1>2, <1>3

\* A worker gets the uuid it had, one of a note of its name, or a new one.
LEMMA UidMoves ==
    ASSUME ChatTypes, NEW w \in Workers, Work(w), NEW y, y = got'[w].uid
    PROVE  y \in {0, uuids + 1} \/ Sees(w, y) \/ InNotes(y, Name(w))
<1>1. Busy(w) /\ (y = got[w].uid => Sees(w, y)) /\ Nothing.uid = 0
  BY WorkIs, NothingIs DEF Sees
<1>2. ASSUME Look(w) PROVE y = got[w].uid \/ y = Read(Items(w)).uid
  BY <1>2, LookDoes
<1>3. ASSUME FindSession(w) PROVE y \in {0, got[w].uid}
  BY <1>3, FindDoes
<1>4. ASSUME Begin(w) PROVE y = uuids + 1 \/ Sees(w, y)
  <2>1. CASE Kind(w) = "Fei"
    <3>1. PICK s \in Contents(got[w].bucket) : y = s.uid
      BY <1>4, <2>1, BeginGives
    <3>2. y = sessions[got[w].bucket].uid
      BY <1>4, <2>1, <3>1, BeginGives, ContentsIs DEF ChatTypes
    <3> QED
      BY <1>1, <1>4, <2>1, <3>2, BeginDoes DEF Sees
  <2>2. CASE Kind(w) # "Fei"
    BY <1>4, <2>2, BeginGives
  <2> QED
    BY <2>1, <2>2
<1>5. ASSUME Fill(w) PROVE y = got[w].uid
  BY <1>5, FillDoes
<1>6. ASSUME Reopen(w) PROVE y \in {0, got[w].uid, Read(Items(w)).uid}
  BY <1>1, <1>6, ReopenDoes, ReopenGives
<1>7. ASSUME CountBlock(w) PROVE y = 0 \/ InNotes(y, Name(w))
  <2>1. PICK n, items : n = got[w].fd /\ items = notes'[n] /\ y = Read(items).uid
    BY <1>7, CountGives
  <2>2. n \in 1..Len(notes) /\ items = Counted(w, notes[n]) /\ notes[n] \in Seq(Item)
    BY <1>7, <2>1, CountIs
  <2>3. CASE items # <<>> /\ items[1].len = 470
    <3>1. y = items[1].uid
      BY <2>1, <2>3 DEF Read
    <3>2. notes[n] # <<>> /\ items[1] = notes[n][1]
      <4>1. CASE items = notes[n]
        BY <2>3, <4>1
      <4>2. CASE items = Append(notes[n], One)
        <5>1. notes[n] # <<>>
          BY <2>2, <2>3, <4>2, OneIs
        <5> QED
          BY <2>2, <4>2, <5>1
      <4> QED
        BY <2>2, <4>1, <4>2 DEF Counted
    <3>3. n \in Refs(Name(w))
      BY <1>1, <2>1, <2>2, RefsAre
    <3>4. 1 \in DOMAIN notes[n]
      BY <2>2, <3>2
    <3> QED
      BY <3>1, <3>2, <3>3, <3>4 DEF InNotes
  <2>4. CASE ~(items # <<>> /\ items[1].len = 470)
    BY <2>1, <2>4, OneIs DEF Read
  <2> QED
    BY <2>3, <2>4
<1>8. ASSUME WriteFirst(w) PROVE y \in {0, got[w].uid}
  <2>1. pc[w] = "write"
    BY <1>8, WriteFirstDoes
  <2> QED
    BY <1>1, <1>8, <2>1, WriteFirstDoes, FirstInfIs
<1>9. ASSUME WriteNext(w) PROVE y \in {0, got[w].uid}
  BY <1>1, <1>9, WriteNextDoes
<1>10. ASSUME WholeFile(w) PROVE y = uuids + 1
  BY <1>10, WholeFileDoes
<1>11. ASSUME Blog(w) PROVE y \in {0, uuids + 1}
  BY <1>1, <1>11, BlogDoes
<1>12. ASSUME Reread(w) PROVE y \in {0, got[w].uid}
  BY <1>1, <1>12, RereadDoes
<1>13. ASSUME Tell(w) PROVE y \in {0, got[w].uid}
  BY <1>1, <1>13, TellDoes
<1>14. ASSUME RemoveNote(w) \/ InsertSession(w) \/ FinishSession(w) PROVE y = 0
  BY <1>1, <1>14, LeavingDoes
<1>15. ASSUME InitSession(w) PROVE y \in {0, got[w].uid}
  BY <1>1, <1>15, InitSessionDoes
<1>16. y = Read(Items(w)).uid => y = 0 \/ InNotes(y, Name(w))
  BY <1>1, ReadFrom
<1> QED
  BY <1>1, <1>2, <1>3, <1>4, <1>5, <1>6, <1>7, <1>8, <1>9, <1>10, <1>11, <1>12, <1>13, <1>14, <1>15, <1>16
     DEF Work

\* Sessions are added and taken out, and do not change.
LEMMA SessionsGrow ==
    ASSUME ChatTypes, NEW w \in Workers, Work(w)
    PROVE  /\ \A b \in 1..Len(sessions) : sessions'[b] = sessions[b]
           /\ \A b \in In(tbl') : \/ b \in In(tbl) /\ sessions'[b] = sessions[b]
                                  \/ InsertSession(w) /\ b = Len(sessions) + 1
           /\ \A b \in In(tbl) : b \in In(tbl') \/ (FinishSession(w) /\ tbl.key[b] = Conn(w))
<1>1. /\ In(tbl) = DOMAIN sessions \ freed /\ sessions \in Seq(Record) /\ DOMAIN sessions = 1..Len(sessions)
      /\ In(tbl') = DOMAIN sessions' \ freed'
  <2>1. ChatTypes'
    BY NextTypes DEF Next
  <2> QED
    BY <2>1 DEF ChatTypes, SessionOK
<1>2. CASE sessions' = sessions /\ freed' = freed
  BY <1>1, <1>2
<1>3. CASE InsertSession(w)
  BY <1>1, <1>3, InsertSessionIs
<1>4. CASE FinishSession(w)
  <2>1. sessions' = sessions
    BY <1>4, FinishIs
  <2>2. CASE tbl' = tbl
    BY <1>1, <2>1, <2>2
  <2>3. CASE tbl' # tbl
    <3>1. PICK c \in In(tbl) : tbl.key[c] = Conn(w) /\ In(tbl') = In(tbl) \ {c}
      BY <1>4, <2>3, FinishIs
    <3> QED
      BY <1>1, <1>4, <2>1, <3>1
  <2> QED
    BY <2>2, <2>3
<1> QED
  BY <1>2, <1>3, <1>4, SessionsMove

\* Uuids are counted upwards.
LEMMA UuidsGrow ==
    ASSUME ChatTypes, NEW w \in Workers, Work(w)
    PROVE  uuids \in Nat /\ uuids' \in {uuids, uuids + 1}
<1>1. uuids \in Nat
  BY DEF ChatTypes, FileOK
<1> QED
  BY <1>1 DEF Work, Look, FindSession, Begin, Fill, Reopen, CountBlock, WriteFirst, WriteNext, WholeFile, Blog,
              Reread, Tell, RemoveNote, InitSession, InsertSession, FinishSession, fileVars

\* How a worker comes to see a uuid.
LEMMA SeesMoves ==
    ASSUME ChatTypes, NEW w \in Workers, Work(w), NEW x, x \in 1..uuids, Sees(w, x)'
    PROVE  \/ Sees(w, x) \/ InNotes(x, Name(w))
           \/ Kind(w) = "Fei" /\ \E b \in In(tbl) : sessions[b].uid = x /\ tbl.key[b] = Conn(w)
<1>1. Busy(w) /\ uuids \in Nat /\ uploads' = uploads
  BY WorkIs, UuidsGrow
<1>2. CASE got'[w].uid = x
  BY <1>1, <1>2, UidMoves
<1>3. CASE got'[w].uid # x
  <2>1. pc'[w] = "begin" /\ Kind(w)' = "Fei" /\ sessions'[got'[w].bucket].uid = x /\ Busy(w)'
    BY <1>3 DEF Sees
  <2>2. Kind(w) = "Fei"
    BY <2>1, OthersAre
  <2>3. FindSession(w)
    <3>1. CASE Quiet(w)
      BY <2>1, <2>2, <3>1 DEF Quiet
    <3>2. CASE Begin(w) \/ Fill(w) \/ CountBlock(w) \/ RemoveNote(w)
      BY <2>1, <3>2, BeginDoes, FillDoes, CountDoes, RemoveDoes
    <3>3. CASE Reopen(w)
      BY <2>1, <2>2, <3>3, ReopenDoes
    <3> QED
      BY <3>1, <3>2, <3>3, MostAreQuiet
  <2>4. PICK b : b = got'[w].bucket /\ b \in In(tbl) /\ tbl.key[b] = Conn(w)
    BY <2>1, <2>3, FindDoes
  <2>5. sessions' = sessions
    BY <2>3 DEF FindSession, sessionVars
  <2> QED
    BY <2>1, <2>2, <2>4, <2>5
<1> QED
  BY <1>2, <1>3

\* Other workers see what they saw.
LEMMA OthersSee ==
    ASSUME ChatTypes, NEW w \in Workers, Work(w), NEW v \in Workers, v # w, NEW x, Sees(v, x)'
    PROVE  Sees(v, x) /\ Upload(v)' = Upload(v)
<1>1. /\ pc'[v] = pc[v] /\ post'[v] = post[v] /\ got'[v] = got[v] /\ Busy(v) /\ Busy(v)'
      /\ Upload(v)' = Upload(v) /\ Kind(v)' = Kind(v)
  BY OthersAre DEF Sees
<1>2. CASE got'[v].uid = x
  BY <1>1, <1>2 DEF Sees
<1>3. CASE got'[v].uid # x
  <2>1. pc[v] = "begin" /\ Kind(v) = "Fei" /\ sessions'[got[v].bucket].uid = x
    BY <1>1, <1>3 DEF Sees
  <2>2. got[v].bucket \in 1..Len(sessions)
    <3>1. /\ got[v].bucket \in Nat /\ got[v].bucket <= Len(sessions) /\ Len(sessions) \in Nat
          /\ got[v].bucket # 0
      BY <1>1, <2>1, HandIs DEF StageFor, NULL
    <3> QED
      BY <3>1
  <2>3. sessions'[got[v].bucket] = sessions[got[v].bucket]
    BY <2>2, SessionsGrow
  <2> QED
    BY <1>1, <2>1, <2>3 DEF Sees
<1> QED
  BY <1>2, <1>3

\* What stands in a note was there before, or its writer knew it.
LEMMA NotesLearn ==
    ASSUME ChatTypes, RefsApart, NEW w \in Workers, Work(w), NEW f \in NoteNames,
           NEW n \in Refs(f)', NEW k \in DOMAIN notes'[n], NEW y, y = notes'[n][k].uid
    PROVE  y = 0 \/ InNotes(y, f) \/ (f = Name(w) /\ Sees(w, y))
<1>1. /\ Busy(w) /\ uploads' = uploads /\ Name(w) \in NoteNames /\ Len(notes) \in Nat
      /\ \A g \in NoteNames : Refs(g) \subseteq 1..Len(notes)
  BY WorkIs, RefsAre
<1>2. \A m \in Refs(f) : notes'[m] = notes[m] /\ n = m => InNotes(y, f)
  BY DEF InNotes
<1>3. CASE f # Name(w)
  <2>1. n \in Refs(f) /\ n \notin Refs(Name(w))
    BY <1>1, <1>3, RefsMove DEF RefsApart
  <2>2. notes'[n] = notes[n]
    BY <1>1, <2>1, WorkTouches DEF Touches
  <2> QED
    BY <1>2, <2>1, <2>2
<1>4. CASE f = Name(w)
  <2>1. n \in Refs(f) \cup {Len(notes) + 1} /\ n \in 1..Len(notes')
    <3>1. ChatTypes'
      BY NextTypes DEF Next
    <3>2. n \in Refs(f) \cup {Len(notes) + 1}
      BY <1>1, <1>4, RefsMove
    <3>3. n # 0 /\ (n = note'[f] \/ \E v \in Workers : n = got'[v].fd)
      BY DEF Refs
    <3>4. note'[f] \in 0..Len(notes') /\ \A v \in Workers : got'[v].fd <= Len(notes')
      BY <1>1, <3>1 DEF ChatTypes, FileOK, HeldOK, NoteNames, Ids
    <3> QED
      BY <1>1, <3>2, <3>3, <3>4
  <2>2. CASE notes' = notes
    BY <1>1, <1>2, <2>1, <2>2
  <2>3. ASSUME NEW emptied \in BOOLEAN, OpenNote(w, emptied) PROVE InNotes(y, f)
    <3>1. PICK o : o = Opened(Name(w))
      OBVIOUS
    <3>2. /\ notes'[o] = IF note[Name(w)] = 0 \/ emptied THEN <<>> ELSE notes[note[Name(w)]]
          /\ \A m \in 1..Len(notes) : m # o => notes'[m] = notes[m]
          /\ Len(notes') = IF note[Name(w)] = 0 THEN Len(notes) + 1 ELSE Len(notes)
          /\ o = IF note[Name(w)] = 0 THEN Len(notes) + 1 ELSE note[Name(w)]
      BY <1>1, <2>3, <3>1, OpenIs DEF ChatTypes, Opened
    <3>3. CASE n = o
      <4>1. note[Name(w)] # 0 /\ o = note[Name(w)] /\ notes'[o] = notes[o]
        BY <3>2, <3>3
      <4>2. o \in Refs(f)
        BY <1>4, <4>1 DEF Refs
      <4> QED
        BY <1>2, <3>3, <4>1, <4>2
    <3>4. CASE n # o
      <4>1. n \in 1..Len(notes)
        BY <1>1, <2>1, <3>2, <3>4
      <4> QED
        BY <1>1, <1>2, <2>1, <3>2, <3>4, <4>1
    <3> QED
      BY <3>3, <3>4
  <2>4. ASSUME Fill(w) PROVE InNotes(y, f) \/ Sees(w, y)
    <3>1. PICK m, items, h : /\ m = got[w].fd /\ items = notes[m]
                             /\ h = Header(got[w].uid, got[w].num, got[w].fn, got[w].fs)
      OBVIOUS
    <3>2. /\ m \in 1..Len(notes) /\ items \in Seq(Item) /\ h \in Item /\ h.uid = got[w].uid
          /\ notes'[m] = IF Kind(w) = "Fei" THEN Append(items, h) ELSE <<h>>
          /\ \A l \in 1..Len(notes) : l # m => notes'[l] = notes[l]
          /\ Len(notes') = Len(notes)
      BY <2>4, <3>1, FillIs, FillDoes DEF Filled, Header, ChatTypes, FileOK
    <3>3. m \in Refs(f)
      BY <1>1, <1>4, <3>1, <3>2, RefsAre
    <3>4. CASE n # m
      BY <1>1, <1>2, <2>1, <3>2, <3>4
    <3>5. CASE n = m
      <4>1. CASE notes'[m][k] = h
        BY <1>1, <3>2, <3>5, <4>1 DEF Sees
      <4>2. CASE notes'[m][k] # h
        <5>1. ASSUME Kind(w) = "Fei" PROVE k \in DOMAIN items /\ notes'[m][k] = items[k]
          <6>1. notes'[m] = Append(items, h) /\ k \in DOMAIN Append(items, h)
            BY <3>2, <3>5, <5>1
          <6>2. k \in 1..(Len(items) + 1) /\ Append(items, h)[Len(items) + 1] = h
            BY <3>2, <6>1
          <6>3. k \in 1..Len(items)
            BY <3>2, <4>2, <6>1, <6>2
          <6> QED
            BY <3>2, <6>1, <6>3
        <5>2. ASSUME Kind(w) # "Fei" PROVE FALSE
          <6>1. notes'[m] = <<h>> /\ k \in DOMAIN <<h>>
            BY <3>2, <3>5, <5>2
          <6>2. k = 1
            BY <6>1
          <6> QED
            BY <4>2, <6>1, <6>2
        <5>3. k \in DOMAIN items /\ notes'[m][k] = items[k]
          BY <5>1, <5>2
        <5> QED
          BY <3>1, <3>3, <3>5, <5>3 DEF InNotes
      <4> QED
        BY <4>1, <4>2
    <3> QED
      BY <3>4, <3>5
  <2>5. ASSUME CountBlock(w) PROVE y = 0 \/ InNotes(y, f)
    <3>1. PICK m, items : m = got[w].fd /\ items = notes[m]
      OBVIOUS
    <3>2. /\ m \in 1..Len(notes) /\ items \in Seq(Item)
          /\ notes'[m] = Append(items, One) \/ notes'[m] = items
          /\ \A l \in 1..Len(notes) : l # m => notes'[l] = notes[l]
          /\ Len(notes') = Len(notes)
      <4>1. /\ m \in 1..Len(notes) /\ items \in Seq(Item) /\ notes'[m] = Counted(w, items)
            /\ \A l \in 1..Len(notes) : l # m => notes'[l] = notes[l]
        BY <2>5, <3>1, CountIs, CountDoes
      <4>2. notes' = [notes EXCEPT ![m] = Counted(w, items)] /\ notes \in Seq(Seq(Item))
        BY <2>5, <3>1, CountIs DEF ChatTypes, FileOK
      <4>3. Len(notes') = Len(notes)
        BY <4>2
      <4> QED
        BY <4>1, <4>3 DEF Counted
    <3>3. m \in Refs(f)
      BY <1>1, <1>4, <3>1, <3>2, RefsAre
    <3>4. CASE n # m
      BY <1>1, <1>2, <2>1, <3>2, <3>4
    <3>5. CASE n = m
      <4>1. CASE notes'[m][k] = One
        BY <3>5, <4>1, OneIs
      <4>2. CASE notes'[m][k] # One
        <5>1. k \in DOMAIN items /\ notes'[m][k] = items[k]
          BY <3>2, <3>5, <4>2
        <5> QED
          BY <3>1, <3>3, <3>5, <5>1 DEF InNotes
      <4> QED
        BY <4>1, <4>2
    <3> QED
      BY <3>4, <3>5
  <2>6. CASE Begin(w)
    <3>1. PICK emptied \in BOOLEAN : OpenNote(w, emptied)
      BY <2>6, BeginDoes
    <3> QED
      BY <2>3, <3>1
  <2>7. CASE Reopen(w)
    <3>1. notes' = notes \/ OpenNote(w, FALSE)
      BY <2>7, ReopenDoes
    <3> QED
      BY <2>2, <2>3, <3>1
  <2> QED
    BY <1>4, <2>2, <2>4, <2>5, <2>6, <2>7, MostAreQuiet, RemoveDoes DEF Quiet
<1> QED
  BY <1>3, <1>4

\* Only those that meet an upload come to know its uuid.
LEMMA KnownStays ==
    ASSUME ChatTypes, RefsApart, SessionsOK, NEW w \in Workers, Work(w),
           NEW U, U \subseteq Ids, Upload(w) \in U \/ \A u \in U : Upload(w) \notin Met(u),
           NEW x, KnownTo(x, U)
    PROVE  KnownTo(x, U)'
<1>1. /\ Busy(w) /\ uploads' = uploads /\ Name(w) = uploads[Upload(w)].note /\ Conn(w) = uploads[Upload(w)].conn
      /\ Kind(w) = uploads[Upload(w)].kind /\ Upload(w) \in Ids /\ x \in 1..uuids /\ x # 0
      /\ uuids \in Nat /\ uuids' \in {uuids, uuids + 1} /\ NoteNames' = NoteNames
  BY WorkIs, HandIs, UuidsGrow DEF KnownTo, Name, Conn, Kind, NoteNames, Ids
<1>2. Sees(w, x) => Upload(w) \in U
  BY DEF KnownTo
<1>3. InNotes(x, Name(w)) => Upload(w) \in U
  <2>1. Name(w) \in NoteNames
    BY <1>1, HandIs
  <2> QED
    BY <1>1, <2>1 DEF KnownTo, Met
<1>4. (Kind(w) = "Fei" /\ \E b \in In(tbl) : sessions[b].uid = x /\ tbl.key[b] = Conn(w)) => Upload(w) \in U
  <2> SUFFICES ASSUME Kind(w) = "Fei", NEW b \in In(tbl), sessions[b].uid = x, tbl.key[b] = Conn(w)
               PROVE  Upload(w) \in U
    OBVIOUS
  <2>1. /\ sessions[b].of \in U /\ b \in DOMAIN sessions
        /\ uploads[sessions[b].of].conn = Conn(w) /\ uploads[sessions[b].of].kind = "Fei"
    BY DEF KnownTo, ChatTypes, SessionOK, SessionsOK
  <2> QED
    BY <1>1, <2>1 DEF Met
<1>5. ASSUME NEW v \in Workers, Sees(v, x)' PROVE Upload(v)' \in U
  <2>1. CASE v = w
    <3>1. Upload(w) \in U
      BY <1>1, <1>2, <1>3, <1>4, <1>5, <2>1, SeesMoves
    <3>2. Upload(w)' = Upload(w)
      BY <1>5, <2>1, OthersAre DEF Sees
    <3> QED
      BY <2>1, <3>1, <3>2
  <2>2. CASE v # w
    BY <1>5, <2>2, OthersSee DEF KnownTo
  <2> QED
    BY <2>1, <2>2
<1>6. ASSUME NEW f \in NoteNames, InNotes(x, f)' PROVE \E u \in U : f = uploads[u].note
  <2>1. PICK n \in Refs(f)' : \E k \in DOMAIN notes'[n] : notes'[n][k].uid = x
    BY <1>6 DEF InNotes
  <2>2. PICK k \in DOMAIN notes'[n] : x = notes'[n][k].uid
    BY <2>1
  <2>3. InNotes(x, f) \/ (f = Name(w) /\ Sees(w, x))
    BY <1>1, <2>2, NotesLearn
  <2> QED
    BY <1>1, <1>2, <2>3 DEF KnownTo
<1>7. ASSUME NEW b \in In(tbl'), sessions'[b].uid = x PROVE sessions'[b].of \in U
  <2>1. ~(InsertSession(w) /\ b = Len(sessions) + 1)
    BY <1>1, <1>7, InsertSessionIs
  <2>2. b \in In(tbl) /\ sessions'[b] = sessions[b]
    BY <2>1, SessionsGrow
  <2> QED
    BY <1>7, <2>2 DEF KnownTo
<1>8. x \in 1..uuids'
  BY <1>1
<1>9. In(tbl)' = In(tbl')
  BY DEF In
<1> QED
  BY <1>1, <1>5, <1>6, <1>7, <1>8, <1>9 DEF KnownTo

\* A new uuid is known to its upload alone.
LEMMA KnownFresh ==
    ASSUME ChatTypes, RefsApart, NEW w \in Workers, Work(w), uuids' = uuids + 1,
           NEW u, u = Upload(w), NEW x, x = uuids + 1
    PROVE  KnownTo(x, {u})'
<1>1. /\ Busy(w) /\ uploads' = uploads /\ Name(w) = uploads[u].note /\ u \in Ids
      /\ uuids \in Nat /\ NoteNames' = NoteNames /\ x \notin 1..uuids /\ x # 0
  BY WorkIs, HandIs, UuidsGrow DEF Name, NoteNames, Ids
<1>2. \A v \in Workers : ~Sees(v, x)
  <2> SUFFICES ASSUME NEW v \in Workers, Sees(v, x) PROVE FALSE
    OBVIOUS
  <2>1. Busy(v) /\ got[v].uid <= uuids /\ got[v].uid \in Nat /\ got[v].bucket \in Nat
        /\ got[v].bucket <= Len(sessions) /\ Len(sessions) \in Nat
        /\ (pc[v] = "begin" /\ Kind(v) = "Fei" => got[v].bucket # 0)
    BY HandIs DEF Sees, StageFor, NULL
  <2>2. got[v].uid # x
    BY <1>1, <2>1
  <2>3. got[v].bucket \in 1..Len(sessions) /\ sessions[got[v].bucket].uid = x
    BY <2>1, <2>2 DEF Sees
  <2>4. DOMAIN sessions = 1..Len(sessions)
    BY DEF ChatTypes, SessionOK
  <2> QED
    BY <1>1, <2>3, <2>4 DEF ChatTypes, HeldOK
<1>3. \A f \in NoteNames : ~InNotes(x, f)
  <2> SUFFICES ASSUME NEW f \in NoteNames, NEW n \in Refs(f), NEW k \in DOMAIN notes[n], notes[n][k].uid = x
               PROVE  FALSE
    BY DEF InNotes
  <2>1. n \in 1..Len(notes)
    BY <1>1, RefsAre
  <2>2. notes[n][k].uid <= uuids /\ notes[n] \in Seq(Item)
    BY <2>1, NoteIs DEF ChatTypes
  <2>3. notes[n][k] \in Item
    BY <2>2
  <2>4. notes[n][k].uid \in Nat
    BY <2>3 DEF Item
  <2> QED
    BY <1>1, <2>2, <2>4
<1>4. ASSUME NEW v \in Workers, Sees(v, x)' PROVE Upload(v)' = u
  <2>1. v = w
    BY <1>2, <1>4, OthersSee
  <2> QED
    BY <1>4, <2>1, OthersAre DEF Sees
<1>5. ASSUME NEW f \in NoteNames, InNotes(x, f)' PROVE FALSE
  <2>1. PICK n \in Refs(f)' : \E k \in DOMAIN notes'[n] : notes'[n][k].uid = x
    BY <1>5 DEF InNotes
  <2>2. PICK k \in DOMAIN notes'[n] : x = notes'[n][k].uid
    BY <2>1
  <2> QED
    BY <1>1, <1>2, <1>3, <2>2, NotesLearn
<1>6. ASSUME NEW b \in In(tbl'), sessions'[b].uid = x PROVE sessions'[b].of = u
  <2>1. CASE b \in In(tbl) /\ sessions'[b] = sessions[b]
    <3>1. b \in DOMAIN sessions
      BY <2>1 DEF ChatTypes, SessionOK
    <3> QED
      BY <1>1, <1>6, <2>1, <3>1 DEF ChatTypes, HeldOK
  <2>2. CASE InsertSession(w) /\ b = Len(sessions) + 1
    BY <2>2, InsertSessionIs
  <2> QED
    BY <2>1, <2>2, SessionsGrow
<1>7. x \in 1..uuids' /\ In(tbl)' = In(tbl')
  BY <1>1 DEF In
<1> QED
  BY <1>1, <1>4, <1>5, <1>6, <1>7 DEF KnownTo

\* What a plan says does not change.
LEMMA PlanSame ==
    ASSUME uploads' = uploads, NEW u
    PROVE  /\ Ids' = Ids /\ NoteNames' = NoteNames /\ Count(u)' = Count(u) /\ Size(u)' = Size(u) /\ Posts(u)' = Posts(u)
           /\ FirstPost(u)' = FirstPost(u)
           /\ Marks(u)' = Marks(u) /\ Whole(u)' = Whole(u) /\ Met(u)' = Met(u)
           /\ \A n : Beginning(u, n)' = Beginning(u, n)
           /\ \A n : Measured(u, n)' = Measured(u, n)
           /\ Regular(u)' = Regular(u)
<1>1. Ids' = Ids /\ NoteNames' = NoteNames /\ Met(u)' = Met(u)
  BY DEF Ids, NoteNames, Met
<1>2. Count(u)' = Count(u) /\ Size(u)' = Size(u) /\ Marks(u)' = Marks(u)
  BY DEF Count, Size, Marks
<1>3. Posts(u)' = Posts(u) /\ Whole(u)' = Whole(u) /\ FirstPost(u)' = FirstPost(u)
  BY <1>2 DEF Posts, Whole, FirstPost
<1>4. \A n : Beginning(u, n)' = Beginning(u, n)
  BY DEF Beginning, Offset
<1>5. \A n : Measured(u, n)' = Measured(u, n)
  BY DEF Measured
<1>6. Regular(u)' = Regular(u)
  BY DEF Regular, EndsFirstBlock, Ids, Count
<1> QED
  BY <1>1, <1>2, <1>3, <1>4, <1>5, <1>6

\* Only a worker that has the uuid writes the file.
LEMMA DataMoves ==
    ASSUME ChatTypes, NEW w \in Workers, Work(w), NEW x \in 1..uuids, ~Sees(w, x),
           NEW units, Holds(x, units)
    PROVE  Holds(x, units)'
<1>1. Busy(w) /\ got[w].uid # x /\ uuids \in Nat /\ x # uuids + 1
  BY WorkIs, UuidsGrow DEF Sees
<1>2. CASE data' = data
  BY <1>2 DEF Holds
<1>3. CASE WriteFirst(w)
  <2>1. data' = data \/ data' = With(data, got[w].uid, At(<<>>, FirstRange(w), Units(Upload(w), Number(w))))
    BY <1>3, WriteFirstDoes DEF FirstData
  <2> QED
    BY <1>1, <2>1 DEF Holds, With
<1>4. CASE WriteNext(w)
  <2>1. data' = data \/ data' = NextData(w)
    BY <1>4, WriteNextDoes
  <2> QED
    BY <1>1, <2>1 DEF Holds, NextData
<1>5. CASE Blog(w)
  <2>1. data' = data \/ data' = With(data, uuids + 1, Units(Upload(w), 1))
    BY <1>5, BlogDoes
  <2> QED
    BY <1>1, <2>1 DEF Holds, With
<1>6. data' = data \/ WriteFirst(w) \/ WriteNext(w) \/ Blog(w)
  BY DEF Work, Look, FindSession, Begin, Fill, Reopen, CountBlock, WholeFile, Reread, Tell, RemoveNote,
         InitSession, InsertSession, FinishSession, fileVars
<1> QED
  BY <1>2, <1>3, <1>4, <1>5, <1>6

-----------------------------------------------------------------------------
(* Steps that do not touch an upload *)

\* Nothing that is said of u changes.
Same(u) ==
    /\ uploads' = uploads /\ uuids <= uuids'
    /\ \A k \in About(u)' : k \in About(u) /\ announced'[k] = announced[k]
    /\ NoNote(u)' = NoNote(u) /\ note'[uploads[u].note] = note[uploads[u].note]
    /\ ~NoNote(u) => notes'[note[uploads[u].note]] = notes[note[uploads[u].note]]
    /\ \A x, U : U \in {{}, {u}} /\ KnownTo(x, U) =>
          KnownTo(x, U)' /\ \A units : Holds(x, units) => Holds(x, units)'
    /\ uploads[u].kind = "Fei" =>
          /\ NoSession(u) => NoSession(u)'
          /\ \A b \in In(tbl) : sessions[b].of = u => b \in In(tbl') /\ sessions'[b] = sessions[b]

\* What is announced of it goes on being right.
LEMMA SameTold ==
    ASSUME NEW u \in Ids, Same(u), NEW U \in {{}, {u}}, Told(u, U)
    PROVE  Told(u, U)'
<1>1. Size(u)' = Size(u) /\ Whole(u)' = Whole(u) /\ uploads' = uploads
  BY PlanSame DEF Same
<1>2. ASSUME NEW k \in About(u)'
      PROVE  /\ k \in About(u) /\ announced'[k] = announced[k]
             /\ Holds(announced[k].uid, Whole(u)) /\ KnownTo(announced[k].uid, U)
             /\ uploads[u].kind # "Blog" => announced[k].fn = uploads[u].name /\ announced[k].fs = Size(u)
  BY <1>2 DEF Same, Told
<1>3. ASSUME NEW k \in About(u)'
      PROVE  /\ Holds(announced[k].uid, Whole(u))' /\ KnownTo(announced[k].uid, U)'
             /\ announced'[k].uid = announced[k].uid
  <2>1. PICK x : x = announced[k].uid
    OBVIOUS
  <2>2. Holds(x, Whole(u)) /\ KnownTo(x, U)
    BY <1>2, <2>1
  <2>3. Holds(x, Whole(u))' /\ KnownTo(x, U)'
    <3>1. PICK units : units = Whole(u)
      OBVIOUS
    <3>2. Holds(x, units)' /\ KnownTo(x, U)'
      BY <2>2, <3>1 DEF Same
    <3> QED
      BY <1>1, <3>1, <3>2
  <2>4. announced'[k].uid = x
    BY <1>2, <2>1
  <2> QED
    BY <2>1, <2>3, <2>4
<1> QED
  BY <1>1, <1>2, <1>3 DEF Told

\* Nor what its note and its session say.
LEMMA SameOwns ==
    ASSUME NEW u \in Ids, Same(u), NEW x
    PROVE  /\ Owns(u, x) => Owns(u, x)' /\ x \in 1..uuids'
           /\ \A n : NoteSays(u, x, n) => NoteSays(u, x, n)'
           /\ \A n : Owns(u, x) /\ Holds(x, Beginning(u, n)) => Holds(x, Beginning(u, n))'
           /\ Owns(u, x) /\ Holds(x, Whole(u)) => Holds(x, Whole(u))'
<1>1. /\ uploads' = uploads /\ Marks(u)' = Marks(u) /\ Size(u)' = Size(u) /\ Count(u)' = Count(u)
      /\ Whole(u)' = Whole(u) /\ \A n : Beginning(u, n)' = Beginning(u, n)
  BY PlanSame DEF Same
<1>2. KnownTo(x, {u}) => KnownTo(x, {u})' /\ x \in 1..uuids'
  <2>1. KnownTo(x, {u}) => KnownTo(x, {u})'
    BY DEF Same
  <2> QED
    BY <2>1 DEF KnownTo
<1>3. ASSUME uploads[u].kind = "Fei", SessionSays(u, x) PROVE SessionSays(u, x)'
  <2>1. PICK b \in In(tbl) :
           /\ sessions[b].of = u /\ sessions[b].uid = x /\ sessions[b].block + 1 = Marks(u)
           /\ sessions[b].fn = uploads[u].name /\ sessions[b].fs = Size(u)
    BY <1>3 DEF SessionSays
  <2>2. b \in In(tbl') /\ sessions'[b] = sessions[b]
    BY <1>3, <2>1 DEF Same
  <2>3. In(tbl)' = In(tbl')
    BY DEF In
  <2> QED
    BY <1>1, <2>1, <2>2, <2>3 DEF SessionSays
<1>4. ASSUME NEW n, NoteSays(u, x, n) PROVE NoteSays(u, x, n)'
  <2>1. PICK items : items = notes[note[uploads[u].note]]
    OBVIOUS
  <2>2. ~NoNote(u) /\ Says(u, x, n, items)
    BY <1>4, <2>1 DEF NoteSays
  <2>3. ~NoNote(u)' /\ items = notes'[note'[uploads'[u].note]]
    BY <1>1, <2>1, <2>2 DEF Same
  <2>4. Says(u, x, n, items)'
    BY <1>1, <2>2 DEF Says
  <2> QED
    BY <2>3, <2>4 DEF NoteSays
<1>5. ASSUME NEW units, Owns(u, x), Holds(x, units) PROVE Holds(x, units)'
  BY <1>5 DEF Same, Owns
<1>6. \A n : Owns(u, x) /\ Holds(x, Beginning(u, n)) => Holds(x, Beginning(u, n))'
  <2> SUFFICES ASSUME NEW n, Owns(u, x), Holds(x, Beginning(u, n)) PROVE Holds(x, Beginning(u, n))'
    OBVIOUS
  <2>1. PICK units : units = Beginning(u, n)
    OBVIOUS
  <2>2. Holds(x, units)'
    BY <1>5, <2>1
  <2> QED
    BY <1>1, <2>1, <2>2
<1>7. Owns(u, x) /\ Holds(x, Whole(u)) => Holds(x, Whole(u))'
  <2> SUFFICES ASSUME Owns(u, x), Holds(x, Whole(u)) PROVE Holds(x, Whole(u))'
    OBVIOUS
  <2>1. PICK units : units = Whole(u)
    OBVIOUS
  <2>2. Holds(x, units)'
    BY <1>5, <2>1
  <2> QED
    BY <1>1, <2>1, <2>2
<1>8. Owns(u, x) => Owns(u, x)' /\ x \in 1..uuids'
  BY <1>1, <1>2, <1>3 DEF Owns
<1> QED
  BY <1>4, <1>6, <1>7, <1>8

\* So what holds between two POSTs holds on.
LEMMA SameBetween ==
    ASSUME NEW u \in Ids, Same(u)
    PROVE  /\ uploads[u].kind = "Fei" /\ Unopened(u) => Unopened(u)'
           /\ Opening(u) => Opening(u)'
           /\ \A n : Underway(u, n) => Underway(u, n)'
           /\ Over(u) => Over(u)'
           /\ \A i : Between(u, i) => Between(u, i)'
<1>1. uploads' = uploads /\ Count(u)' = Count(u)
  BY PlanSame DEF Same
<1>2. About(u) = {} => About(u)' = {}
  BY DEF Same
<1>3. NoNote(u)' = NoNote(u)
  BY DEF Same
<1>4. uploads[u].kind = "Fei" /\ NoSession(u) => NoSession(u)'
  BY DEF Same
<1>5. ASSUME Opening(u) PROVE Opening(u)'
  <2>1. uploads[u].kind = "Fei" => \E x \in 1..uuids' : Owns(u, x)'
    <3> SUFFICES ASSUME uploads[u].kind = "Fei" PROVE \E x \in 1..uuids' : Owns(u, x)'
      OBVIOUS
    <3>1. PICK x \in 1..uuids : Owns(u, x)
      BY <1>5 DEF Opening
    <3> QED
      BY <3>1, SameOwns
  <2> QED
    BY <1>1, <1>2, <1>3, <1>5, <2>1 DEF Opening
<1>6. ASSUME NEW n, Underway(u, n) PROVE Underway(u, n)'
  <2>1. PICK x \in 1..uuids : Owns(u, x) /\ NoteSays(u, x, n) /\ Holds(x, Beginning(u, n))
    BY <1>6 DEF Underway
  <2>2. x \in 1..uuids' /\ Owns(u, x)' /\ NoteSays(u, x, n)' /\ Holds(x, Beginning(u, n))'
    BY <2>1, SameOwns
  <2> QED
    BY <1>2, <1>6, <2>2 DEF Underway
<1>7. Over(u) => Over(u)'
  BY <1>3, SameTold DEF Over
<1>8. ASSUME NEW i, Between(u, i) PROVE Between(u, i)'
  BY <1>1, <1>5, <1>6, <1>7, <1>8 DEF Between
<1>9. uploads[u].kind = "Fei" /\ Unopened(u) => Unopened(u)'
  BY <1>2, <1>3, <1>4 DEF Unopened
<1> QED
  BY <1>5, <1>6, <1>7, <1>8, <1>9

\* So does what holds for a worker on it that stays where it is.
LEMMA SameStage ==
    ASSUME ChatTypes, NEW u \in Ids, Same(u), NEW v \in Workers, Busy(v), Upload(v) = u,
           pc'[v] = pc[v], post'[v] = post[v], got'[v] = got[v], Stage(u, v)
    PROVE  Stage(u, v)'
<1>1. PICK p, x, n, g : p = pc[v] /\ g = got[v] /\ x = g.uid /\ n = Number(v)
  OBVIOUS
<1>2. /\ uploads' = uploads /\ Count(u)' = Count(u) /\ Marks(u)' = Marks(u) /\ Size(u)' = Size(u)
      /\ Whole(u)' = Whole(u) /\ Measured(u, n)' = Measured(u, n)
      /\ Beginning(u, n - 1)' = Beginning(u, n - 1)
  BY PlanSame DEF Same
<1>3. Number(v)' = n /\ pc'[v] = p /\ got'[v] = g /\ Kind(v)' = Kind(v) /\ KindOfBlock(v)' = KindOfBlock(v)
  BY <1>1, <1>2 DEF Number, Kind, Upload, KindOfBlock, Length
<1>4. About(u) = {} => About(u)' = {}
  BY DEF Same
<1>5. /\ NoNote(u)' = NoNote(u) /\ note'[uploads[u].note] = note[uploads[u].note]
      /\ ~NoNote(u) => notes'[note[uploads[u].note]] = notes[note[uploads[u].note]]
  BY DEF Same
<1>6. /\ Owns(u, x) => Owns(u, x)'
      /\ \A m : NoteSays(u, x, m) => NoteSays(u, x, m)'
      /\ Owns(u, x) /\ Holds(x, Beginning(u, n - 1)) => Holds(x, Beginning(u, n - 1))'
      /\ Owns(u, x) /\ Holds(x, Whole(u)) => Holds(x, Whole(u))'
  BY SameOwns
<1>7. /\ uploads[u].kind = "Fei" /\ Unopened(u) => Unopened(u)'
      /\ Opening(u) => Opening(u)'
      /\ Underway(u, n - 1) => Underway(u, n - 1)'
      /\ Over(u) => Over(u)'
  BY SameBetween
<1>8. Told(u, {u}) => Told(u, {u})'
  BY SameTold
<1>9. StageAt(u, v, p)
  BY <1>1 DEF Stage
<1>10. p \in {"init", "insert"} => Unopened(u)'
  <2>1. p \in {"init", "insert"} => uploads[u].kind = "Fei"
    <3>1. StageFor(v, p, g) /\ Kind(v) = uploads[u].kind
      BY <1>1, HandIs DEF Kind
    <3> QED
      BY <3>1 DEF StageFor
  <2> QED
    BY <1>7, <1>9, <2>1 DEF StageAt
<1>11. p \in {"session", "begin", "whole", "blog"} => n = 1 /\ Opening(u)'
  BY <1>1, <1>7, <1>9 DEF StageAt
<1>12. p = "begin" => AtBegin(u, v)'
  <2> SUFFICES ASSUME p = "begin", uploads[u].kind = "Fei"
               PROVE  g.bucket \in In(tbl)' /\ sessions'[g.bucket].of = u
    BY <1>2, <1>3 DEF AtBegin
  <2>1. g.bucket \in In(tbl) /\ sessions[g.bucket].of = u
    BY <1>1, <1>9 DEF StageAt, AtBegin
  <2> QED
    BY <2>1 DEF Same, In
<1>13. AtFill(u, v) => AtFill(u, v)'
  BY <1>1, <1>2, <1>3, <1>4, <1>6 DEF AtFill
<1>14. NoteIsNew(u, v) => NoteIsNew(u, v)'
  BY <1>1, <1>2, <1>3, <1>5 DEF NoteIsNew
<1>15. NoteIsMade(u, v) => NoteIsMade(u, v)'
  BY <1>1, <1>2, <1>3, <1>5, <1>6 DEF NoteIsMade
<1>16. AtCount(u, v) => AtCount(u, v)'
  BY <1>1, <1>2, <1>3, <1>5 DEF AtCount
<1>17. AtRewrite(u, v) => AtRewrite(u, v)'
  BY <1>1, <1>2, <1>3, <1>4, <1>6 DEF AtRewrite
<1>18. AtReread(u, v) => AtReread(u, v)'
  BY <1>1, <1>2, <1>3, <1>4, <1>6 DEF AtReread
<1>19. AtTell(u, v) => AtTell(u, v)'
  BY <1>1, <1>2, <1>3, <1>4, <1>5, <1>6 DEF AtTell
<1>20. p = "look" => IF n = 1 THEN Opening(u)' ELSE Underway(u, n - 1)'
  BY <1>1, <1>7, <1>9 DEF StageAt
<1>21. p \in {"reopen", "count"} => n # 1 /\ Underway(u, n - 1)'
  BY <1>1, <1>7, <1>9 DEF StageAt
<1>22. p = "remove" => n = Count(u) /\ Told(u, {u})'
  BY <1>1, <1>8, <1>9 DEF StageAt
<1>23. p = "finish" => Over(u)'
  BY <1>7, <1>9 DEF StageAt
<1>24. StageAt(u, v, p)'
  <2>1. \A m, k : m = k => Underway(u, m - 1)' = Underway(u, k - 1)'
    OBVIOUS
  <2> QED
    BY <1>1, <1>2, <1>3, <1>9, <1>10, <1>11, <1>12, <1>13, <1>14, <1>15, <1>16, <1>17, <1>18, <1>19, <1>20,
       <1>21, <1>22, <1>23 DEF StageAt
<1> QED
  BY <1>3, <1>24 DEF Stage

\* A worker on an upload that u does not meet changes nothing of u.
LEMMA WorkSame ==
    ASSUME ChatTypes, RefsApart, SessionsOK, NEW w \in Workers, Work(w), NEW u \in Ids, Upload(w) \notin Met(u)
    PROVE  Same(u)
<1>1. /\ Busy(w) /\ uploads' = uploads /\ Upload(w) \in Ids /\ Name(w) = uploads[Upload(w)].note
      /\ Kind(w) = uploads[Upload(w)].kind /\ Conn(w) = uploads[Upload(w)].conn /\ Name(w) \in NoteNames
      /\ uuids \in Nat /\ uuids' \in {uuids, uuids + 1}
  BY WorkIs, HandIs, UuidsGrow DEF Name, Kind, Conn
<1>2. PICK f \in NoteNames : f = uploads[u].note
  BY DEF NoteNames
<1>3. f # Name(w) /\ Upload(w) # u
  BY <1>1, <1>2 DEF Met
<1>4. note'[f] = note[f]
  BY <1>3, WorkTouches DEF Touches
<1>5. note[f] # 0 => notes'[note[f]] = notes[note[f]]
  <2> SUFFICES ASSUME note[f] # 0 PROVE notes'[note[f]] = notes[note[f]]
    OBVIOUS
  <2>1. note[f] \in Refs(f)
    BY DEF Refs
  <2>2. note[f] \in 1..Len(notes) /\ note[f] \notin Refs(Name(w))
    BY <1>1, <1>3, <2>1, RefsAre DEF RefsApart
  <2> QED
    BY <2>2, WorkTouches DEF Touches
<1>6. \A k \in About(u)' : k \in About(u) /\ announced'[k] = announced[k]
  BY <1>3, AnnouncedByOthers DEF About
<1>7. ASSUME NEW x, NEW U, U \in {{}, {u}}, KnownTo(x, U)
      PROVE  KnownTo(x, U)' /\ \A units : Holds(x, units) => Holds(x, units)'
  <2>1. U \subseteq Ids /\ \A a \in U : Upload(w) \notin Met(a)
    BY <1>7
  <2>2. KnownTo(x, U)'
    BY <1>7, <2>1, KnownStays
  <2>3. x \in 1..uuids /\ ~Sees(w, x)
    BY <1>3, <1>7 DEF KnownTo
  <2> QED
    BY <2>2, <2>3, DataMoves
<1>8. ASSUME uploads[u].kind = "Fei", NoSession(u) PROVE NoSession(u)'
  <2> SUFFICES ASSUME NEW b \in In(tbl') PROVE uploads[sessions'[b].of].conn # uploads[u].conn
    BY <1>1 DEF NoSession, In
  <2>1. CASE b \in In(tbl) /\ sessions'[b] = sessions[b]
    BY <1>8, <2>1 DEF NoSession
  <2>2. CASE InsertSession(w) /\ b = Len(sessions) + 1
    <3>1. sessions'[b].of = Upload(w) /\ Kind(w) = "Fei"
      BY <2>2, InsertSessionIs
    <3> QED
      BY <1>1, <1>8, <3>1 DEF Met
  <2> QED
    BY <2>1, <2>2, SessionsGrow
<1>9. ASSUME uploads[u].kind = "Fei", NEW b \in In(tbl), sessions[b].of = u
      PROVE  b \in In(tbl') /\ sessions'[b] = sessions[b]
  <2>1. b \in DOMAIN sessions /\ DOMAIN sessions = 1..Len(sessions) /\ tbl.key[b] = uploads[u].conn
    BY <1>9 DEF ChatTypes, SessionOK
  <2>2. ~(FinishSession(w) /\ tbl.key[b] = Conn(w))
    <3>1. FinishSession(w) => Kind(w) = "Fei"
      BY FinishIs
    <3> QED
      BY <1>1, <1>9, <2>1, <3>1 DEF Met
  <2> QED
    BY <2>1, <2>2, SessionsGrow
<1>10. uuids <= uuids'
  BY <1>1
<1>11. NoNote(u)' = NoNote(u) /\ note'[uploads[u].note] = note[uploads[u].note]
       /\ (~NoNote(u) => notes'[note[uploads[u].note]] = notes[note[uploads[u].note]])
  BY <1>1, <1>2, <1>4, <1>5 DEF NoNote
<1> QED
  BY <1>1, <1>6, <1>7, <1>8, <1>9, <1>10, <1>11 DEF Same

\* Neither does a worker that takes a POST,
LEMMA TakeSame ==
    ASSUME ChatTypes, NEW w \in Workers, Take(w), NEW u \in Ids PROVE Same(u)
<1>1. /\ pc[w] = "idle" /\ got[w] = Nothing /\ uploads' = uploads /\ got' = got /\ note' = note
      /\ notes' = notes /\ data' = data /\ uuids' = uuids /\ tbl' = tbl /\ sessions' = sessions
      /\ announced' = announced /\ got[w].uid = 0 /\ got[w].fd = 0
  BY TakeIs, NothingIs DEF fileVars, sessionVars
<1>2. \A v \in Workers : v # w => pc'[v] = pc[v] /\ post'[v] = post[v]
  BY TakeIs
<1>3. pc'[w] # "begin"
  BY TakeIs DEF Dispatch
<1>4. NoteNames' = NoteNames /\ uuids \in Nat
  BY <1>1, PlanSame DEF ChatTypes, FileOK
<1>5. ASSUME NEW x \in 1..uuids, NEW v \in Workers, Sees(v, x)' PROVE Sees(v, x) /\ Upload(v)' = Upload(v)
  <2>1. v # w
    BY <1>1, <1>3, <1>4, <1>5 DEF Sees
  <2>2. pc'[v] = pc[v] /\ post'[v] = post[v]
    BY <1>2, <2>1
  <2> QED
    BY <1>1, <1>5, <2>2 DEF Sees, Busy, Kind, Upload
<1>6. ASSUME NEW f \in NoteNames, NEW n \in Refs(f)' PROVE n \in Refs(f)
  <2>1. CASE n = note[f]
    BY <1>1, <1>6, <2>1 DEF Refs
  <2>2. CASE n # note[f]
    <3>1. PICK v \in Workers : n = got[v].fd /\ Busy(v)' /\ Name(v)' = f /\ n # 0
      BY <1>1, <1>6, <2>2 DEF Refs
    <3>2. v # w
      BY <1>1, <3>1
    <3>3. Busy(v) /\ Name(v) = f
      BY <1>1, <1>2, <3>1, <3>2 DEF Busy, Name, Upload
    <3> QED
      BY <3>1, <3>3 DEF Refs
  <2> QED
    BY <2>1, <2>2
<1>7. ASSUME NEW x, NEW U, KnownTo(x, U) PROVE KnownTo(x, U)' /\ \A units : Holds(x, units) => Holds(x, units)'
  <2>1. x \in 1..uuids'
    BY <1>1, <1>7 DEF KnownTo
  <2>2. \A v \in Workers : Sees(v, x)' => Upload(v)' \in U
    BY <1>1, <1>5, <1>7, <2>1 DEF KnownTo
  <2>3. \A f \in NoteNames : InNotes(x, f)' => InNotes(x, f)
    BY <1>1, <1>6 DEF InNotes
  <2>4. KnownTo(x, U)'
    BY <1>1, <1>4, <1>7, <2>1, <2>2, <2>3 DEF KnownTo
  <2>5. \A units : Holds(x, units) => Holds(x, units)'
    BY <1>1 DEF Holds
  <2> QED
    BY <2>4, <2>5
<1>8. NoSession(u) => NoSession(u)'
  BY <1>1 DEF NoSession
<1>9. NoNote(u)' = NoNote(u) /\ About(u)' = About(u)
  BY <1>1 DEF NoNote, About
<1> QED
  BY <1>1, <1>4, <1>7, <1>8, <1>9 DEF Same

\* nor a step that leaves the workers, the files and the sessions alone.
LEMMA StillSame ==
    ASSUME ChatTypes, UNCHANGED <<uploads, workVars, fileVars, sessionVars, announced>>, NEW u \in Ids
    PROVE  Same(u)
<1>1. /\ uploads' = uploads /\ UNCHANGED workVars /\ UNCHANGED fileVars /\ UNCHANGED sessionVars
      /\ announced' = announced /\ uuids \in Nat
  BY DEF ChatTypes, FileOK
<1>2. \A x, U : KnownTo(x, U) => KnownTo(x, U)'
  BY <1>1 DEF KnownTo, Sees, Busy, Kind, Upload, InNotes, Refs, Name, NoteNames, Ids, workVars, fileVars, sessionVars, In
<1>3. \A x, units : Holds(x, units) => Holds(x, units)'
  BY <1>1 DEF Holds, fileVars
<1>4. NoSession(u) => NoSession(u)'
  BY <1>1 DEF NoSession, sessionVars
<1>5. NoNote(u)' = NoNote(u) /\ About(u)' = About(u)
  BY <1>1 DEF NoNote, About, fileVars
<1> QED
  BY <1>1, <1>2, <1>3, <1>4, <1>5 DEF Same, fileVars, sessionVars

-----------------------------------------------------------------------------
(* Steps on the upload itself *)

\* A worker on an upload that nobody disturbed.
LEMMA MineIs ==
    ASSUME ChatTypes, OrderOK, NEW w \in Workers, Work(w), NEW u, u = Upload(w), u \notin disturbed',
           WholeOf(u)
    PROVE  /\ u \in Ids /\ u \notin disturbed /\ Busy(w) /\ w \in Held(u) /\ Stage(u, w)
           /\ \A v \in Held(u) : v = w
           /\ \A v \in Met(u) \ {u} : Held(v) = {} /\ (taken[v] = {} \/ (taken[v] = Posts(v) /\ v \notin disturbed))
           /\ Name(w) = uploads[u].note /\ Kind(w) = uploads[u].kind /\ Conn(w) = uploads[u].conn
           /\ Name(w) \in NoteNames /\ Number(w) \in Nat /\ Count(u) \in Nat \ {0}
           /\ (pc[w] \in PartPlaces => Number(w) \in 1..Count(u))
           /\ \A k \in taken[u] : k <= Number(w)
           /\ Number(w) \in taken[u]
           /\ uploads' = uploads /\ taken' = taken
<1>1. /\ Busy(w) /\ u \in Ids /\ u \notin disturbed /\ uploads' = uploads /\ taken' = taken
      /\ Name(w) = uploads[u].note /\ Kind(w) = uploads[u].kind /\ Conn(w) = uploads[u].conn
      /\ Number(w) \in Nat /\ Number(w) \in taken[u] /\ Count(u) \in Nat \ {0} /\ Name(w) \in NoteNames
  BY WorkIs, HandIs DEF Name, Kind, Conn
<1>2. w \in Held(u)
  BY <1>1 DEF Held
<1>3. (\A v \in Held(u) : v = w) /\ Active(u)
  BY <1>1, LastAlone
<1>4. /\ \A v \in Met(u) \ {u} : Held(v) = {} /\ (taken[v] = {} \/ (taken[v] = Posts(v) /\ v \notin disturbed))
      /\ \A k \in taken[u] : k <= Number(w)
  BY <1>1, <1>2, <1>3 DEF OrderOK
<1>5. pc[w] \in PartPlaces => Number(w) \in 1..Count(u)
  BY <1>1, HandIs DEF StageFor
<1>6. Stage(u, w)
  BY <1>2 DEF WholeOf
<1> QED
  BY <1>1, <1>2, <1>3, <1>4, <1>5, <1>6

\* What of it no step changes, and what most do not.
LEMMA OwnKeeps ==
    ASSUME ChatTypes, RefsApart, SessionsOK, NEW w \in Workers, Work(w), NEW u, u = Upload(w)
    PROVE  /\ \A x : KnownTo(x, {u}) => KnownTo(x, {u})' /\ x \in 1..uuids'
           /\ pc[w] # "finish" => \A x : Owns(u, x) => Owns(u, x)'
           /\ pc[w] # "tell" => announced' = announced /\ About(u)' = About(u)
           /\ pc[w] \notin {"write", "rewrite", "blog"} => data' = data
           /\ NoNote(u) /\ note' = note => NoNote(u)'
           /\ note' = note /\ notes' = notes => \A x, n : NoteSays(u, x, n) => NoteSays(u, x, n)'
<1>1. /\ Busy(w) /\ u \in Ids /\ uploads' = uploads /\ Marks(u)' = Marks(u) /\ Size(u)' = Size(u)
      /\ Count(u)' = Count(u) /\ uuids \in Nat /\ uuids' \in {uuids, uuids + 1}
  BY WorkIs, HandIs, PlanSame, UuidsGrow
<1>2. ASSUME NEW x, KnownTo(x, {u}) PROVE KnownTo(x, {u})' /\ x \in 1..uuids'
  <2>1. KnownTo(x, {u})'
    BY <1>1, <1>2, KnownStays
  <2>2. x \in 1..uuids
    BY <1>2 DEF KnownTo
  <2> QED
    BY <1>1, <2>1, <2>2
<1>3. ASSUME pc[w] # "finish", NEW x, Owns(u, x) PROVE Owns(u, x)'
  <2>1. ASSUME uploads[u].kind = "Fei" PROVE SessionSays(u, x)'
    <3>1. PICK b \in In(tbl) :
             /\ sessions[b].of = u /\ sessions[b].uid = x /\ sessions[b].block + 1 = Marks(u)
             /\ sessions[b].fn = uploads[u].name /\ sessions[b].fs = Size(u)
      BY <1>3, <2>1 DEF SessionSays, Owns
    <3>2. b \in 1..Len(sessions)
      BY DEF ChatTypes, SessionOK
    <3>3. b \in In(tbl') /\ sessions'[b] = sessions[b]
      BY <1>3, <3>2, SessionsGrow DEF FinishSession
    <3>4. In(tbl)' = In(tbl')
      BY DEF In
    <3> QED
      BY <1>1, <3>1, <3>3, <3>4 DEF SessionSays
  <2> QED
    BY <1>1, <1>2, <1>3, <2>1 DEF Owns
<1>4. ASSUME pc[w] # "tell" PROVE announced' = announced /\ About(u)' = About(u)
  BY <1>4, WorkTells DEF Tells, About
<1>5. ASSUME pc[w] \notin {"write", "rewrite", "blog"} PROVE data' = data
  BY <1>5 DEF Work, Look, FindSession, Begin, Fill, Reopen, CountBlock, WriteFirst, WriteNext, WholeFile, Blog,
              Reread, Tell, RemoveNote, InitSession, InsertSession, FinishSession, fileVars
<1>6. NoNote(u) /\ note' = note => NoNote(u)'
  BY <1>1 DEF NoNote
<1>7. note' = note /\ notes' = notes => \A x, n : NoteSays(u, x, n) => NoteSays(u, x, n)'
  <2> SUFFICES ASSUME note' = note, notes' = notes, NEW x, NEW n, NoteSays(u, x, n) PROVE NoteSays(u, x, n)'
    OBVIOUS
  <2>1. PICK items : items = notes[note[uploads[u].note]]
    OBVIOUS
  <2>2. ~NoNote(u) /\ Says(u, x, n, items)
    BY <2>1 DEF NoteSays
  <2>3. Says(u, x, n, items)'
    BY <1>1, <2>2 DEF Says
  <2>4. ~NoNote(u)' /\ items = notes'[note'[uploads'[u].note]]
    BY <1>1, <2>1, <2>2 DEF NoNote
  <2> QED
    BY <2>3, <2>4 DEF NoteSays
<1> QED
  BY <1>2, <1>3, <1>4, <1>5, <1>6, <1>7

\* Before the first part, and between two.
LEMMA OwnWaits ==
    ASSUME ChatTypes, RefsApart, SessionsOK, NEW w \in Workers, Work(w), NEW u, u = Upload(w),
           pc[w] \notin {"finish", "tell", "write", "rewrite", "blog"}
    PROVE  /\ Opening(u) /\ NoNote(u)' => Opening(u)'
           /\ note' = note /\ notes' = notes => \A n : Underway(u, n) => Underway(u, n)'
<1>1. uploads' = uploads /\ data' = data /\ About(u)' = About(u)
  BY WorkIs, OwnKeeps
<1>2. ASSUME NEW x, Owns(u, x) PROVE Owns(u, x)' /\ x \in 1..uuids'
  BY <1>2, OwnKeeps DEF Owns
<1>3. Opening(u) /\ NoNote(u)' => Opening(u)'
  BY <1>1, <1>2 DEF Opening
<1>4. ASSUME note' = note, notes' = notes, NEW n, Underway(u, n) PROVE Underway(u, n)'
  <2>1. PICK x \in 1..uuids : Owns(u, x) /\ NoteSays(u, x, n) /\ Holds(x, Beginning(u, n))
    BY <1>4 DEF Underway
  <2>2. Owns(u, x)' /\ x \in 1..uuids'
    BY <1>2, <2>1
  <2>3. NoteSays(u, x, n)'
    BY <1>4, <2>1, OwnKeeps
  <2>4. Beginning(u, n)' = Beginning(u, n)
    BY <1>1, PlanSame
  <2>5. Holds(x, Beginning(u, n))'
    BY <1>1, <2>1, <2>4 DEF Holds
  <2> QED
    BY <1>1, <1>4, <2>2, <2>3, <2>5 DEF Underway
<1> QED
  BY <1>3, <1>4

\* The worker w goes on with POST n of u, or has done with it.
Goes(u, w, n) == IF pc'[w] = "idle" THEN Between(u, n)' ELSE Stage(u, w)'

\* What is said of all steps on u.
LEMMA GoingIs ==
    ASSUME ChatTypes, OrderOK, NEW w \in Workers, Work(w), NEW u, u = Upload(w), u \notin disturbed',
           WholeOf(u), NEW n, n = Number(w)
    PROVE  /\ StageAt(u, w, pc[w]) /\ StageFor(w, pc[w], got[w])
           /\ pc'[w] # "idle" => Number(w)' = n /\ Kind(w)' = uploads[u].kind
           /\ Count(u)' = Count(u) /\ Marks(u)' = Marks(u) /\ Size(u)' = Size(u) /\ Whole(u)' = Whole(u)
           /\ \A k : Beginning(u, k)' = Beginning(u, k)
           /\ \A k : Measured(u, k)' = Measured(u, k)
<1>1. uploads' = uploads /\ Busy(w) /\ Kind(w) = uploads[u].kind /\ Stage(u, w)
  BY MineIs
<1>2. pc'[w] # "idle" => Number(w)' = n /\ Kind(w)' = uploads[u].kind
  BY <1>1, OthersAre DEF Busy
<1>3. StageFor(w, pc[w], got[w])
  BY <1>1, HandIs
<1> QED
  BY <1>1, <1>2, <1>3, PlanSame DEF Stage

\* Another part leaves of the header what it was.
LEMMA SaysMore ==
    ASSUME NEW u, NEW x, NEW n, NEW items, Says(u, x, n - 1, items), n \in 1..Count(u), Count(u) \in Nat,
           uploads[u].kind # "Fei"
    PROVE  Says(u, x, n, items) /\ (uploads[u].kind = "GOS" => items[1].num = uploads[u].block)
<1>1. n - 1 < Count(u)
  OBVIOUS
<1> QED
  BY <1>1 DEF Says

\* What is read of a note that says u.
LEMMA SaysRead ==
    ASSUME NEW u, NEW x, NEW n, NEW w, NEW items, Says(u, x, n, items), ~NoNote(u), Name(w) = uploads[u].note,
           items = notes[note[uploads[u].note]]
    PROVE  Items(w) = items /\ Read(Items(w)) = items[1] /\ items[1].uid = x
<1>1. items # <<>> /\ items[1].len = 470 /\ items[1].uid = x
  BY DEF Says
<1>2. Items(w) = items
  BY DEF Items, NoNote
<1> QED
  BY <1>1, <1>2 DEF Read

\* The worker has looked for the note.
LEMMA LookGoes ==
    ASSUME ChatTypes, OrderOK, RefsApart, SessionsOK, NEW w \in Workers, Look(w), NEW u, u = Upload(w),
           u \notin disturbed', Regular(u), WholeOf(u), NEW n, n = Number(w)
    PROVE  Goes(u, w, n)
<1>1. Work(w) /\ pc[w] = "look" /\ note' = note /\ notes' = notes
  BY LookDoes DEF Work, fileVars, Look
<1>2. /\ n \in 1..Count(u) /\ Count(u) \in Nat /\ Name(w) = uploads[u].note /\ Kind(w) = uploads[u].kind
      /\ Kind(w) \in Noted /\ uploads' = uploads
      /\ IF n = 1 THEN Opening(u) ELSE Underway(u, n - 1)
      /\ pc'[w] # "idle" => Number(w)' = n /\ Kind(w)' = uploads[u].kind
  <2>1. /\ StageAt(u, w, "look") /\ StageFor(w, "look", got[w])
        /\ pc'[w] # "idle" => Number(w)' = n /\ Kind(w)' = uploads[u].kind
    BY <1>1, GoingIs
  <2>2. /\ n \in 1..Count(u) /\ Count(u) \in Nat /\ Name(w) = uploads[u].note /\ Kind(w) = uploads[u].kind
        /\ uploads' = uploads
    BY <1>1, MineIs DEF PartPlaces
  <2> QED
    BY <2>1, <2>2 DEF StageAt, StageFor
<1>3. ASSUME n = 1 PROVE Goes(u, w, n)
  <2>1. note[Name(w)] = 0 /\ NoNote(u)'
    BY <1>1, <1>2, <1>3, OwnKeeps DEF Opening, NoNote
  <2>2. pc'[w] = (IF Kind(w) = "Fei" THEN "session" ELSE "begin")
    BY <2>1, LookDoes
  <2>3. Opening(u)'
    BY <1>1, <1>2, <1>3, <2>1, OwnWaits
  <2>4. CASE Kind(w) = "Fei"
    BY <1>2, <1>3, <2>2, <2>3, <2>4 DEF Goes, Stage, StageAt
  <2>5. CASE Kind(w) # "Fei"
    <3>1. AtBegin(u, w)'
      BY <1>2, <2>5 DEF AtBegin
    <3> QED
      BY <1>2, <1>3, <2>2, <2>3, <2>5, <3>1 DEF Goes, Stage, StageAt
  <2> QED
    BY <2>4, <2>5
<1>4. ASSUME n # 1 PROVE Goes(u, w, n)
  <2>1. PICK x \in 1..uuids : Owns(u, x) /\ NoteSays(u, x, n - 1) /\ Holds(x, Beginning(u, n - 1))
    BY <1>2, <1>4 DEF Underway
  <2>2. PICK items : items = notes[note[uploads[u].note]]
    OBVIOUS
  <2>3. ~NoNote(u) /\ Says(u, x, n - 1, items)
    BY <2>1, <2>2 DEF NoteSays
  <2>4. note[Name(w)] # 0
    BY <1>2, <2>3 DEF NoNote
  <2>5. pc'[w] = (IF Kind(w) \in {"Fei", "Fei5"} THEN "reopen" ELSE "rewrite")
    BY <2>4, LookDoes
  <2>6. CASE Kind(w) \in {"Fei", "Fei5"}
    <3>1. Underway(u, n - 1)'
      BY <1>1, <1>2, <1>4, OwnWaits
    <3>2. \A k : k = n => Underway(u, k - 1)'
      BY <3>1
    <3> QED
      BY <1>2, <1>4, <2>5, <2>6, <3>2 DEF Goes, Stage, StageAt
  <2>7. CASE Kind(w) \notin {"Fei", "Fei5"}
    <3>1. Read(Items(w)) = items[1] /\ items[1].uid = x
      BY <1>2, <2>2, <2>3, SaysRead
    <3>2. got'[w].uid = x /\ got'[w].num = items[1].num
      BY <2>4, <3>1, LookDoes
    <3>3. Says(u, x, n, items) /\ (uploads[u].kind = "GOS" => items[1].num = uploads[u].block)
      BY <1>2, <2>3, <2>7, SaysMore
    <3>4. Owns(u, x)' /\ NoteSays(u, x, n)' /\ About(u)' = {} /\ data' = data
      <4>1. NoteSays(u, x, n)
        BY <2>2, <2>3, <3>3 DEF NoteSays
      <4>2. About(u) = {}
        BY <1>2, <1>4 DEF Underway
      <4> QED
        BY <1>1, <2>1, <4>1, <4>2, OwnKeeps
    <3>5. Holds(x, Beginning(u, n - 1))'
      <4>1. Beginning(u, n - 1)' = Beginning(u, n - 1)
        BY <1>2, PlanSame
      <4> QED
        BY <2>1, <3>4, <4>1 DEF Holds
    <3>6. pc'[w] = "rewrite" /\ Number(w)' = n
      BY <1>2, <2>5, <2>7
    <3>7. AtRewrite(u, w)'
      BY <1>2, <1>4, <2>7, <3>2, <3>3, <3>4, <3>5, <3>6 DEF AtRewrite
    <3> QED
      BY <3>6, <3>7 DEF Goes, Stage, StageAt
  <2> QED
    BY <2>6, <2>7
<1> QED
  BY <1>3, <1>4

\* find_hash finds the session of u: no other of that connection is in the table.
LEMMA SessionFound ==
    ASSUME ChatTypes, OrderOK, SessionsOK, NEW w \in Workers, Work(w), NEW u, u = Upload(w),
           u \notin disturbed', WholeOf(u), uploads[u].kind = "Fei",
           NEW b \in In(tbl), tbl.key[b] = Conn(w)
    PROVE  sessions[b].of = u
<1>1. PICK v : v = sessions[b].of
  OBVIOUS
<1>2. b \in DOMAIN sessions /\ v \in Ids /\ uploads[v].conn = Conn(w)
  <2>1. b \in DOMAIN sessions /\ tbl.key[b] = uploads[v].conn
    BY <1>1 DEF ChatTypes, SessionOK
  <2> QED
    BY <1>1, <2>1, SessionIs
<1>3. uploads[v].kind = "Fei" /\ 0 \in taken[v]
  BY <1>1, <1>2 DEF SessionsOK
<1>4. SUFFICES ASSUME v # u PROVE FALSE
  BY <1>1
<1>5. v \in Met(u) \ {u}
  BY <1>2, <1>3, <1>4, MineIs DEF Met
<1>6. Held(v) = {} /\ taken[v] = Posts(v) /\ v \notin disturbed
  BY <1>3, <1>5, MineIs
<1>7. Count(v) + 1 \in taken[v]
  <2>1. Count(v) \in Nat
    BY <1>2, UploadIs DEF ChatTypes, PlanOK
  <2> QED
    BY <1>3, <1>6, <2>1 DEF Posts
<1> QED
  BY <1>1, <1>2, <1>3, <1>6, <1>7 DEF SessionsOK

\* find_hash.
LEMMA FindGoes ==
    ASSUME ChatTypes, OrderOK, RefsApart, SessionsOK, NEW w \in Workers, FindSession(w), NEW u, u = Upload(w),
           u \notin disturbed', Regular(u), WholeOf(u), NEW n, n = Number(w)
    PROVE  Goes(u, w, n)
<1>1. Work(w) /\ pc[w] = "session" /\ note' = note /\ tbl' = tbl /\ sessions' = sessions
  BY FindDoes DEF Work, fileVars, sessionVars, FindSession
<1>2. /\ Kind(w) = "Fei" /\ uploads[u].kind = "Fei" /\ n = 1 /\ Opening(u) /\ uploads' = uploads
      /\ Conn(w) = uploads[u].conn
      /\ pc'[w] # "idle" => Number(w)' = n /\ Kind(w)' = uploads[u].kind
  <2>1. /\ StageAt(u, w, "session")
        /\ pc'[w] # "idle" => Number(w)' = n /\ Kind(w)' = uploads[u].kind
    BY <1>1, GoingIs
  <2>2. Kind(w) = uploads[u].kind /\ uploads' = uploads /\ Conn(w) = uploads[u].conn
    BY <1>1, MineIs
  <2> QED
    BY <2>1, <2>2, FindDoes DEF StageAt
<1>3. \E b \in In(tbl) : tbl.key[b] = Conn(w)
  <2>1. PICK x \in 1..uuids : Owns(u, x)
    BY <1>2 DEF Opening
  <2>2. PICK b \in In(tbl) : sessions[b].of = u
    BY <1>2, <2>1 DEF Owns, SessionSays
  <2>3. tbl.key[b] = uploads[u].conn
    BY <2>2 DEF ChatTypes, SessionOK
  <2> QED
    BY <1>2, <2>3
<1>4. PICK b : b = got'[w].bucket /\ pc'[w] = "begin" /\ b \in In(tbl) /\ tbl.key[b] = Conn(w)
  BY <1>3, FindDoes
<1>5. sessions[b].of = u
  BY <1>1, <1>2, <1>4, SessionFound
<1>6. AtBegin(u, w)'
  BY <1>1, <1>4, <1>5 DEF AtBegin, In
<1>7. NoNote(u)' /\ Opening(u)'
  <2>1. NoNote(u)'
    BY <1>1, <1>2, OwnKeeps DEF Opening
  <2> QED
    BY <1>1, <1>2, <2>1, OwnWaits
<1> QED
  BY <1>2, <1>4, <1>6, <1>7 DEF Goes, Stage, StageAt

\* The note is new.
LEMMA BeginGoes ==
    ASSUME ChatTypes, OrderOK, RefsApart, SessionsOK, NEW w \in Workers, Begin(w), NEW u, u = Upload(w),
           u \notin disturbed', Regular(u), WholeOf(u), NEW n, n = Number(w)
    PROVE  Goes(u, w, n)
<1>1. Work(w) /\ pc[w] = "begin" /\ pc'[w] = "fill"
  BY BeginDoes DEF Work
<1>2. /\ Kind(w) = uploads[u].kind /\ n = 1 /\ Opening(u) /\ AtBegin(u, w) /\ uploads' = uploads
      /\ Name(w) = uploads[u].note /\ Name(w) \in NoteNames /\ Kind(w) \in Noted
      /\ Number(w)' = n /\ Kind(w)' = uploads[u].kind /\ Marks(u)' = Marks(u) /\ Size(u)' = Size(u)
  <2>1. /\ StageAt(u, w, "begin") /\ StageFor(w, "begin", got[w])
        /\ Number(w)' = n /\ Kind(w)' = uploads[u].kind /\ Marks(u)' = Marks(u) /\ Size(u)' = Size(u)
    BY <1>1, GoingIs
  <2>2. Kind(w) = uploads[u].kind /\ uploads' = uploads /\ Name(w) = uploads[u].note /\ Name(w) \in NoteNames
    BY <1>1, MineIs
  <2> QED
    BY <2>1, <2>2 DEF StageAt, StageFor
<1>3. NoteIsNew(u, w)'
  <2>1. PICK o, emptied : o = Opened(Name(w)) /\ emptied = (Kind(w) # "Fei")
    OBVIOUS
  <2>2. note[Name(w)] = 0
    BY <1>2 DEF Opening, NoNote
  <2>3. emptied \in BOOLEAN /\ OpenNote(w, emptied) /\ got'[w].fd = o
    BY <2>1, BeginDoes
  <2>4. /\ o # 0 /\ note' = [note EXCEPT ![Name(w)] = o] /\ notes'[o] = <<>>
    BY <1>2, <2>1, <2>2, <2>3, OpenIs DEF ChatTypes
  <2>5. note'[uploads[u].note] = o
    BY <1>2, <2>4 DEF ChatTypes, FileOK
  <2> QED
    BY <1>2, <2>3, <2>4, <2>5 DEF NoteIsNew, NoNote
<1>4. About(u)' = {}
  BY <1>1, <1>2, OwnKeeps DEF Opening
<1>5. CASE Kind(w) = "Fei"
  <2>1. PICK b, s : /\ b = got[w].bucket /\ s \in Contents(b) /\ b \in 1..Len(sessions)
                    /\ got'[w].uid = s.uid /\ got'[w].num = s.block + 1 /\ got'[w].fn = s.fn /\ got'[w].fs = s.fs
    BY <1>5, BeginGives
  <2>2. b \in In(tbl) /\ sessions[b].of = u /\ b \notin freed /\ b \in DOMAIN sessions
    BY <1>2, <1>5, <2>1 DEF AtBegin, ChatTypes, SessionOK
  <2>3. s = sessions[b]
    BY <2>1, <2>2, ContentsIs DEF ChatTypes
  <2>4. PICK x \in 1..uuids : Owns(u, x)
    BY <1>2, <1>5 DEF Opening
  <2>5. PICK c \in In(tbl) :
           /\ sessions[c].of = u /\ sessions[c].uid = x /\ sessions[c].block + 1 = Marks(u)
           /\ sessions[c].fn = uploads[u].name /\ sessions[c].fs = Size(u)
    BY <1>2, <1>5, <2>4 DEF Owns, SessionSays
  <2>6. c = b
    <3>1. c \in DOMAIN sessions
      BY DEF ChatTypes, SessionOK
    <3> QED
      BY <2>2, <2>5, <3>1 DEF SessionsOK
  <2>7. got'[w].uid = x /\ got'[w].num = Marks(u) /\ got'[w].fn = uploads[u].name /\ got'[w].fs = Size(u)
    BY <2>1, <2>3, <2>5, <2>6
  <2>8. Owns(u, x)'
    BY <1>1, <2>4, OwnKeeps
  <2>9. AtFill(u, w)'
    BY <1>2, <1>4, <1>5, <2>7, <2>8 DEF AtFill
  <2> QED
    BY <1>1, <1>3, <2>9 DEF Goes, Stage, StageAt
<1>6. CASE Kind(w) # "Fei"
  <2>1. PICK x : x = uuids + 1
    OBVIOUS
  <2>2. uuids' = uuids + 1 /\ got'[w].uid = x /\ got'[w].num = KindOfBlock(w)
    BY <1>6, <2>1, BeginGives
  <2>3. KnownTo(x, {u})'
    BY <1>1, <2>1, <2>2, KnownFresh
  <2>4. Owns(u, x)'
    BY <1>2, <1>6, <2>3 DEF Owns
  <2>5. KindOfBlock(w)' = KindOfBlock(w)
    <3>1. Upload(w)' = Upload(w) /\ Number(w)' = Number(w)
      BY <1>1, OthersAre DEF Busy
    <3> QED
      BY <1>2, <3>1 DEF KindOfBlock, Length
  <2>6. AtFill(u, w)'
    BY <1>2, <1>4, <1>6, <2>2, <2>4, <2>5 DEF AtFill
  <2> QED
    BY <1>1, <1>3, <2>6 DEF Goes, Stage, StageAt
<1> QED
  BY <1>5, <1>6

\* The length of a new note.
LEMMA LengthFirst ==
    ASSUME NEW h, h \in Item PROVE LengthOf(<<h>>) = h.len
<1>1. <<>> \in Seq(Item) /\ Append(<<>>, h) = <<h>>
  OBVIOUS
<1>2. LengthOf(<<>>) = 0
  <2>1. [k \in DOMAIN <<>> |-> <<>>[k].len] = <<>>
    OBVIOUS
  <2> QED
    BY <2>1, SumEmpty DEF LengthOf
<1>3. h.len \in Nat
  BY DEF Item
<1>4. LengthOf(Append(<<>>, h)) = LengthOf(<<>>) + h.len
  BY <1>1, LengthAppend
<1>5. LengthOf(<<h>>) = 0 + h.len
  BY <1>1, <1>2, <1>4
<1> QED
  BY <1>3, <1>5

\* The header of a new note says u.
LEMMA HeaderSays ==
    ASSUME ChatTypes, NEW u \in Ids, Regular(u), NEW w \in Workers, u = Upload(w), Number(w) = 1,
           NEW x, x \in Nat, NEW h, h = Header(x, got[w].num, got[w].fn, got[w].fs), h \in Item,
           uploads[u].kind = "GOS" => got[w].num = KindOfBlock(w),
           uploads[u].kind = "Fei" =>
               got[w].num = Marks(u) /\ got[w].fn = uploads[u].name /\ got[w].fs = Size(u)
    PROVE  Says(u, x, 1, <<h>>)
<1>1. h.len = 470 /\ h.uid = x /\ h.num = got[w].num /\ h.fn = got[w].fn /\ h.fs = got[w].fs
  BY DEF Header
<1>2. <<h>> # <<>> /\ <<h>>[1] = h
  OBVIOUS
<1>3. uploads[u].kind = "GOS" /\ 1 < Count(u) => h.num = uploads[u].block
  <2> SUFFICES ASSUME uploads[u].kind = "GOS", 1 < Count(u) PROVE KindOfBlock(w) = uploads[u].block
    BY <1>1
  <2>1. uploads[u].block \in {2, 4} /\ Count(u) \in Nat
    BY UploadIs DEF ChatTypes, PlanOK
  <2>2. uploads[u].parts[1] = uploads[u].block
    <3>1. 1 \in 1..(Count(u) - 1)
      BY <2>1
    <3> QED
      BY <3>1, UploadIs DEF ChatTypes, PlanOK
  <2>3. Length(w) = uploads[u].block
    BY <2>2 DEF Length
  <2> QED
    BY <2>1, <2>3 DEF KindOfBlock
<1>4. ASSUME uploads[u].kind = "Fei", 1 < Count(u)
      PROVE  LengthOf(<<h>>) = 470 + Cardinality(uploads[u].marked \cap (1..1))
  <2>1. 1 \notin uploads[u].marked
    BY <1>4 DEF Regular, EndsFirstBlock
  <2>2. uploads[u].marked \cap (1..1) = {}
    BY <2>1
  <2>3. LengthOf(<<h>>) = 470
    BY <1>1, LengthFirst
  <2> QED
    BY <2>2, <2>3, FS_EmptySet
<1> QED
  BY <1>1, <1>2, <1>3, <1>4 DEF Says

\* The new note is closed.
LEMMA FillGoes ==
    ASSUME ChatTypes, OrderOK, RefsApart, SessionsOK, NEW w \in Workers, Fill(w), NEW u, u = Upload(w),
           u \notin disturbed', Regular(u), WholeOf(u), NEW n, n = Number(w)
    PROVE  Goes(u, w, n)
<1>1. Work(w) /\ pc[w] = "fill" /\ pc'[w] = "write" /\ note' = note /\ got'[w] = got[w]
  BY FillDoes DEF Work
<1>2. /\ Kind(w) = uploads[u].kind /\ AtFill(u, w) /\ NoteIsNew(u, w) /\ uploads' = uploads /\ u \in Ids
      /\ Name(w) = uploads[u].note /\ Kind(w) \in Noted
      /\ Number(w)' = n /\ Kind(w)' = uploads[u].kind /\ Marks(u)' = Marks(u) /\ Size(u)' = Size(u)
      /\ Count(u)' = Count(u)
  <2>1. /\ StageAt(u, w, "fill") /\ StageFor(w, "fill", got[w])
        /\ Number(w)' = n /\ Kind(w)' = uploads[u].kind /\ Marks(u)' = Marks(u) /\ Size(u)' = Size(u)
        /\ Count(u)' = Count(u)
    BY <1>1, GoingIs
  <2>2. Kind(w) = uploads[u].kind /\ uploads' = uploads /\ Name(w) = uploads[u].note /\ u \in Ids
    BY <1>1, MineIs
  <2> QED
    BY <2>1, <2>2 DEF StageAt, StageFor
<1>3. PICK x, m, h : /\ x = got[w].uid /\ m = got[w].fd
                     /\ h = Header(got[w].uid, got[w].num, got[w].fn, got[w].fs)
  OBVIOUS
<1>4. n = 1 /\ Owns(u, x) /\ About(u) = {} /\ m = note[uploads[u].note] /\ notes[m] = <<>> /\ ~NoNote(u)
  BY <1>2, <1>3 DEF AtFill, NoteIsNew
<1>5. notes'[m] = <<h>>
  <2>1. notes'[m] = Filled(w, notes[m])
    BY <1>3, FillDoes
  <2>2. Filled(w, notes[m]) = IF Kind(w) = "Fei" THEN Append(notes[m], h) ELSE <<h>>
    BY <1>3 DEF Filled
  <2>3. Append(<<>>, h) = <<h>>
    <3>1. h \in Item
      BY <1>1, <1>3, FillIs
    <3> QED
      BY <3>1
  <2> QED
    BY <1>4, <2>1, <2>2, <2>3
<1>6. Says(u, x, 1, <<h>>)
  <2>1. h \in Item /\ x \in Nat /\ h = Header(x, got[w].num, got[w].fn, got[w].fs)
    BY <1>1, <1>3, FillIs, HandIs DEF Busy
  <2> QED
    BY <1>2, <1>4, <2>1, HeaderSays DEF AtFill
<1>7. NoteSays(u, x, 1)'
  <2>1. PICK items : items = <<h>>
    OBVIOUS
  <2>2. Says(u, x, 1, items)
    BY <1>6, <2>1
  <2>3. Says(u, x, 1, items)'
    BY <1>2, <2>2 DEF Says
  <2>4. ~NoNote(u)' /\ notes'[note'[uploads'[u].note]] = items
    BY <1>1, <1>2, <1>4, <1>5, <2>1 DEF NoNote
  <2> QED
    BY <2>3, <2>4 DEF NoteSays
<1>8. Owns(u, x)' /\ About(u)' = {}
  BY <1>1, <1>4, OwnKeeps
<1>9. KindOfBlock(w)' = KindOfBlock(w)
  <2>1. Upload(w)' = Upload(w) /\ Number(w)' = Number(w)
    BY <1>1, OthersAre DEF Busy
  <2> QED
    BY <1>2, <2>1 DEF KindOfBlock, Length
<1>10. AtFill(u, w)'
  BY <1>1, <1>2, <1>3, <1>4, <1>8, <1>9 DEF AtFill
<1>11. NoteIsMade(u, w)'
  BY <1>1, <1>2, <1>3, <1>7 DEF NoteIsMade, Noted
<1> QED
  BY <1>1, <1>10, <1>11 DEF Goes, Stage, StageAt

\* A file of one POST gets a uuid.
LEMMA WholeFileGoes ==
    ASSUME ChatTypes, OrderOK, RefsApart, SessionsOK, NEW w \in Workers, WholeFile(w), NEW u, u = Upload(w),
           u \notin disturbed', Regular(u), WholeOf(u), NEW n, n = Number(w)
    PROVE  Goes(u, w, n)
<1>1. Work(w) /\ pc[w] = "whole" /\ pc'[w] = "write" /\ note' = note
  BY WholeFileDoes DEF Work, WholeFile
<1>2. /\ n = 1 /\ uploads[u].kind = "Yahoo" /\ Opening(u) /\ uploads' = uploads /\ Number(w)' = n
  <2>1. StageAt(u, w, "whole") /\ StageFor(w, "whole", got[w])
    BY <1>1, GoingIs
  <2>2. pc'[w] # "idle" => Number(w)' = n
    BY <1>1, GoingIs
  <2>3. Kind(w) = uploads[u].kind /\ uploads' = uploads
    BY <1>1, MineIs
  <2> QED
    BY <1>1, <2>1, <2>2, <2>3 DEF StageAt, StageFor
<1>3. PICK x : x = uuids + 1
  OBVIOUS
<1>4. uuids' = uuids + 1 /\ got'[w].uid = x
  BY <1>3, WholeFileDoes
<1>5. KnownTo(x, {u})'
  BY <1>1, <1>3, <1>4, KnownFresh
<1>6. Owns(u, x)'
  BY <1>2, <1>5 DEF Owns
<1>7. About(u)' = {} /\ NoNote(u)'
  BY <1>1, <1>2, OwnKeeps DEF Opening
<1>8. AtFill(u, w)' /\ NoteIsMade(u, w)'
  BY <1>2, <1>4, <1>6, <1>7 DEF AtFill, NoteIsMade
<1> QED
  BY <1>1, <1>8 DEF Goes, Stage, StageAt

\* A file of one part has its length.
LEMMA OnePart ==
    ASSUME uploads \in Plans, NEW u \in Ids, Count(u) = 1
    PROVE  /\ uploads[u].parts[1] = Size(u) /\ Units(u, 1) = Whole(u)
           /\ Beginning(u, 1) = Whole(u) /\ Offset(u, 1) = 0
<1>1. Offset(u, 1) = 0 /\ Size(u) = Offset(u, 2) /\ Offset(u, 2) = Offset(u, 1) + uploads[u].parts[1]
  <2>1. Size(u) = Offset(u, 1 + 1) /\ Offset(u, 1 + 1) = Offset(u, 1) + uploads[u].parts[1] /\ Offset(u, 1) = 0
    BY OffsetIs
  <2> QED
    BY <2>1
<1>2. uploads[u].parts[1] \in Nat
  BY UploadIs
<1>3. uploads[u].parts[1] = Size(u)
  BY <1>1, <1>2
<1>4. Units(u, 1) = Whole(u)
  <2>1. \A k \in 1..Size(u) : Offset(u, 1) + k = k
    BY <1>1
  <2> QED
    BY <1>3, <2>1 DEF Units, Whole
<1>5. Beginning(u, 1) = Whole(u)
  BY WholeIs
<1> QED
  BY <1>1, <1>3, <1>4, <1>5

\* The first part is written.
LEMMA WriteFirstGoes ==
    ASSUME ChatTypes, OrderOK, RefsApart, SessionsOK, NEW w \in Workers, WriteFirst(w), NEW u, u = Upload(w),
           u \notin disturbed', Regular(u), WholeOf(u), NEW n, n = Number(w)
    PROVE  Goes(u, w, n)
<1>1. Work(w) /\ pc[w] = "write" /\ note' = note /\ notes' = notes /\ data' = FirstData(w)
      /\ pc'[w] = IF FirstCompletes(w) THEN "tell" ELSE "idle"
  BY WriteFirstDoes DEF Work, WriteFirst
<1>2. PICK x : x = got[w].uid
  OBVIOUS
<1>3. /\ n = 1 /\ AtFill(u, w) /\ NoteIsMade(u, w) /\ uploads' = uploads /\ Kind(w) = uploads[u].kind
      /\ u \in Ids /\ Count(u) \in Nat \ {0} /\ uploads \in Plans /\ Kind(w) \in Noted \cup {"Yahoo"}
      /\ Owns(u, x) /\ About(u) = {} /\ x # 0
  <2>1. StageAt(u, w, "write") /\ StageFor(w, "write", got[w])
    BY <1>1, GoingIs
  <2>2. /\ uploads' = uploads /\ Kind(w) = uploads[u].kind /\ u \in Ids /\ Count(u) \in Nat \ {0}
    BY <1>1, MineIs
  <2>3. uploads \in Plans
    BY DEF ChatTypes, PlanOK
  <2>4. AtFill(u, w) /\ NoteIsMade(u, w) /\ Kind(w) \in Noted \cup {"Yahoo"} /\ x # 0
    BY <1>2, <2>1 DEF StageAt, StageFor
  <2> QED
    BY <1>2, <2>2, <2>3, <2>4 DEF AtFill
<1>4. Owns(u, x)' /\ About(u)' = {}
  BY <1>1, <1>3, OwnKeeps
<1>5. FirstCompletes(w) <=> Count(u) = 1
  BY <1>1, <1>3, FirstCompletesIs DEF AtFill
<1>6. Holds(x, Beginning(u, 1))'
  <2>1. Beginning(u, 1)' = Beginning(u, 1)
    BY <1>3, PlanSame
  <2>2. FirstRange(w) = 0
    BY <1>3, OffsetIs DEF FirstRange, Place
  <2>3. At(<<>>, FirstRange(w), Units(Upload(w), Number(w))) = Beginning(u, 1)
    BY <1>3, <2>2, FirstUnits
  <2>4. data' = With(data, x, Beginning(u, 1))
    BY <1>1, <1>2, <2>3 DEF FirstData
  <2>5. x \in DOMAIN data' /\ data'[x] = Beginning(u, 1)
    BY <2>4 DEF With
  <2> QED
    BY <2>1, <2>5 DEF Holds
<1>7. ASSUME Count(u) = 1 PROVE Goes(u, w, n)
  <2>1. pc'[w] = "tell" /\ got'[w] = FirstInf(w) /\ Number(w)' = n
    <3>1. pc'[w] = "tell"
      BY <1>1, <1>5, <1>7
    <3> QED
      BY <1>1, <3>1, WriteFirstDoes, GoingIs
  <2>2. /\ got'[w].uid = x
        /\ got'[w].fn = uploads[u].name /\ got'[w].fs = Size(u)
    <3>1. /\ FirstInf(w).uid = got[w].uid
          /\ FirstInf(w).fn = IF Kind(w) = "Fei" THEN got[w].fn ELSE uploads[Upload(w)].name
          /\ FirstInf(w).fs = IF Kind(w) = "Fei" THEN got[w].fs
                              ELSE IF Kind(w) \in {"GOS", "Yahoo"} THEN Length(w) ELSE Size(Upload(w))
      BY <1>1, FirstInfIs DEF Busy
    <3>2. Length(w) = Size(u)
      BY <1>3, <1>7, OnePart DEF Length
    <3> QED
      BY <1>2, <1>3, <2>1, <3>1, <3>2 DEF AtFill
  <2>3. Holds(x, Whole(u))'
    BY <1>3, <1>6, <1>7, OnePart, PlanSame
  <2>4. uploads[u].kind \in Single => NoNote(u)'
    <3>1. uploads[u].kind \in Single => NoNote(u)
      BY <1>3 DEF NoteIsMade, Single, Noted
    <3> QED
      BY <1>1, <3>1, OwnKeeps
  <2>5. Count(u)' = Count(u) /\ Size(u)' = Size(u)
    BY <1>3, PlanSame
  <2>6. AtTell(u, w)'
    BY <1>3, <1>4, <1>7, <2>1, <2>2, <2>3, <2>4, <2>5 DEF AtTell
  <2> QED
    BY <2>1, <2>6 DEF Goes, Stage, StageAt
<1>8. ASSUME Count(u) # 1 PROVE Goes(u, w, n)
  <2>1. pc'[w] = "idle"
    BY <1>1, <1>5, <1>8
  <2>2. NoteSays(u, x, 1)'
    <3>1. uploads[u].kind # "Yahoo"
      BY <1>3, <1>8, UploadIs DEF Single
    <3>2. NoteSays(u, x, 1)
      BY <1>2, <1>3, <3>1 DEF NoteIsMade
    <3> QED
      BY <1>1, <3>2, OwnKeeps
  <2>3. x \in 1..uuids'
    BY <1>4 DEF Owns, KnownTo
  <2>4. Underway(u, 1)'
    BY <1>4, <1>6, <2>2, <2>3 DEF Underway
  <2>5. n = 1 /\ 1 # 0 /\ ~(1 >= Count(u)')
    BY <1>3, <1>8, PlanSame
  <2>6. \A k : k = n => Underway(u, k)'
    BY <1>3, <2>4
  <2>7. Between(u, n)'
    BY <1>3, <2>5, <2>6 DEF Between
  <2> QED
    BY <2>1, <2>7 DEF Goes
<1> QED
  BY <1>7, <1>8

\* A text is a file of its own, if it fits.
LEMMA BlogGoes ==
    ASSUME ChatTypes, OrderOK, RefsApart, SessionsOK, NEW w \in Workers, Blog(w), NEW u, u = Upload(w),
           u \notin disturbed', Regular(u), WholeOf(u), NEW n, n = Number(w)
    PROVE  Goes(u, w, n)
<1>1. Work(w) /\ pc[w] = "blog" /\ note' = note /\ uuids' = uuids + 1
  BY BlogDoes DEF Work, Blog
<1>2. PICK x : x = uuids + 1
  OBVIOUS
<1>3. /\ n = 1 /\ uploads' = uploads /\ uploads[u].kind = "Blog" /\ Opening(u)
      /\ u \in Ids /\ uploads \in Plans
  <2>1. StageAt(u, w, "blog") /\ StageFor(w, "blog", got[w])
    BY <1>1, GoingIs
  <2>2. uploads' = uploads /\ Kind(w) = uploads[u].kind /\ u \in Ids
    BY <1>1, MineIs
  <2>3. uploads \in Plans
    BY DEF ChatTypes, PlanOK
  <2> QED
    BY <2>1, <2>2, <2>3 DEF StageAt, StageFor
<1>4. Count(u) = 1 /\ Count(u)' = 1
  BY <1>3, UploadIs, PlanSame DEF Single
<1>5. About(u)' = {} /\ NoNote(u)'
  BY <1>1, <1>3, OwnKeeps DEF Opening
<1>6. CASE data' = With(data, uuids + 1, Units(Upload(w), 1)) /\ pc'[w] = "tell" /\ got'[w].uid = uuids + 1
  <2>1. Owns(u, x)'
    <3>1. KnownTo(x, {u})'
      BY <1>1, <1>2, KnownFresh
    <3> QED
      BY <1>3, <3>1 DEF Owns
  <2>2. Holds(x, Whole(u))'
    <3>1. Whole(u)' = Units(u, 1)
      BY <1>3, <1>4, OnePart, PlanSame
    <3> QED
      BY <1>2, <1>6, <3>1 DEF Holds, With
  <2>3. Number(w)' = n
    BY <1>1, <1>6, GoingIs
  <2>4. AtTell(u, w)'
    BY <1>2, <1>3, <1>4, <1>5, <1>6, <2>1, <2>2, <2>3 DEF AtTell
  <2> QED
    BY <1>6, <2>4 DEF Goes, Stage, StageAt
<1>7. CASE pc'[w] = "idle"
  <2>1. Over(u)'
    BY <1>5 DEF Over, Told
  <2>2. Between(u, n)'
    BY <1>3, <1>4, <2>1 DEF Between
  <2> QED
    BY <1>7, <2>2 DEF Goes
<1> QED
  BY <1>6, <1>7, BlogDoes

\* One mark more, or none.
LEMMA MarksUpTo ==
    ASSUME uploads \in Plans, NEW u \in Ids, NEW n \in 1..Count(u)
    PROVE  /\ Cardinality(uploads[u].marked \cap (1..(n - 1))) \in Nat
           /\ Cardinality(uploads[u].marked \cap (1..n)) =
                 Cardinality(uploads[u].marked \cap (1..(n - 1))) + (IF n \in uploads[u].marked THEN 1 ELSE 0)
<1>1. PICK M, A, B : /\ M = uploads[u].marked
                     /\ A = M \cap (1..(n - 1)) /\ B = M \cap (1..n)
  OBVIOUS
<1>2. Count(u) \in Nat /\ n \in Nat
  BY UploadIs
<1>3. IsFiniteSet(A) /\ Cardinality(A) \in Nat
  <2>1. IsFiniteSet(1..(n - 1))
    BY <1>2, FS_Interval
  <2>2. IsFiniteSet(A)
    BY <1>1, <2>1, FS_Subset
  <2> QED
    BY <2>2, FS_CardinalityType
<1>4. CASE n \in M
  <2>1. B = A \cup {n} /\ n \notin A
    BY <1>1, <1>2, <1>4
  <2>2. Cardinality(B) = Cardinality(A) + 1
    BY <1>3, <2>1, FS_AddElement
  <2> QED
    BY <1>1, <1>3, <1>4, <2>2
<1>5. CASE n \notin M
  <2>1. \A k \in M : k \in 1..n <=> k \in 1..(n - 1)
    <3> SUFFICES ASSUME NEW k \in M PROVE k \in 1..n <=> k \in 1..(n - 1)
      OBVIOUS
    <3>1. k # n
      BY <1>5
    <3> QED
      BY <1>2, <3>1
  <2>2. B = A
    BY <1>1, <2>1
  <2>3. Cardinality(B) = Cardinality(A) + 0
    BY <1>3, <2>2
  <2> QED
    BY <1>1, <1>3, <1>5, <2>3
<1> QED
  BY <1>4, <1>5

\* A note with the "1" of another part.
LEMMA SaysCounted ==
    ASSUME uploads \in Plans, NEW u \in Ids, NEW n \in 1..Count(u), uploads[u].kind = "Fei",
           NEW x, NEW items, items \in Seq(Item), Says(u, x, n - 1, items),
           NEW more, n \in uploads[u].marked => more = Append(items, One),
           n \notin uploads[u].marked => more = items
    PROVE  /\ Says(u, x, n, more) /\ more[1].num = Marks(u)
           /\ Measured(u, n) = IF n \in uploads[u].marked THEN LengthOf(items) + 1 ELSE 0
<1>1. Count(u) \in Nat /\ n \in Nat /\ n - 1 < Count(u)
  BY UploadIs
<1>2. PICK a, b : /\ a = Cardinality(uploads[u].marked \cap (1..(n - 1)))
                  /\ b = Cardinality(uploads[u].marked \cap (1..n))
  OBVIOUS
<1>3. a \in Nat /\ b = a + (IF n \in uploads[u].marked THEN 1 ELSE 0)
  BY <1>2, MarksUpTo
<1>4. LengthOf(items) = 470 + a
  BY <1>1, <1>2 DEF Says
<1>5. LengthOf(more) = 470 + b
  <2>1. CASE n \in uploads[u].marked
    <3>1. One \in Item /\ One.len = 1
      BY OneIs
    <3>2. LengthOf(Append(items, One)) = LengthOf(items) + One.len
      BY <3>1, LengthAppend
    <3>3. more = Append(items, One) /\ b = a + 1
      BY <1>3, <2>1
    <3> QED
      BY <1>3, <1>4, <3>1, <3>2, <3>3
  <2>2. CASE n \notin uploads[u].marked
    BY <1>3, <1>4, <2>2
  <2> QED
    BY <2>1, <2>2
<1>6. more # <<>> /\ more[1] = items[1]
  <2>1. items # <<>>
    BY DEF Says
  <2>2. One \in Item
    BY OneIs
  <2> QED
    BY <2>1, <2>2
<1>7. items[1].len = 470 /\ items[1].uid = x /\ items[1].num = Marks(u) /\ items[1].fn = uploads[u].name
      /\ items[1].fs = Size(u)
  BY DEF Says
<1>8. Says(u, x, n, more) /\ more[1].num = Marks(u)
  BY <1>2, <1>5, <1>6, <1>7 DEF Says
<1>9. Measured(u, n) = IF n \in uploads[u].marked THEN LengthOf(items) + 1 ELSE 0
  BY <1>2, <1>3, <1>4 DEF Measured
<1> QED
  BY <1>8, <1>9

\* The old note is opened.
LEMMA ReopenGoes ==
    ASSUME ChatTypes, OrderOK, RefsApart, SessionsOK, NEW w \in Workers, Reopen(w), NEW u, u = Upload(w),
           u \notin disturbed', Regular(u), WholeOf(u), NEW n, n = Number(w)
    PROVE  Goes(u, w, n)
<1>1. Work(w) /\ pc[w] = "reopen"
  BY ReopenDoes DEF Work
<1>2. /\ n # 1 /\ Underway(u, n - 1) /\ uploads' = uploads /\ u \in Ids /\ uploads \in Plans
      /\ Kind(w) = uploads[u].kind /\ Kind(w) \in {"Fei", "Fei5"} /\ n \in 1..Count(u) /\ Count(u) \in Nat
      /\ Name(w) = uploads[u].note /\ Name(w) \in NoteNames
  <2>1. StageAt(u, w, "reopen") /\ StageFor(w, "reopen", got[w])
    BY <1>1, GoingIs
  <2>2. /\ uploads' = uploads /\ Kind(w) = uploads[u].kind /\ u \in Ids /\ n \in 1..Count(u) /\ Count(u) \in Nat
        /\ Name(w) = uploads[u].note /\ Name(w) \in NoteNames
    BY <1>1, MineIs DEF PartPlaces
  <2>3. uploads \in Plans
    BY DEF ChatTypes, PlanOK
  <2> QED
    BY <2>1, <2>2, <2>3 DEF StageAt, StageFor
<1>3. PICK x \in 1..uuids : Owns(u, x) /\ NoteSays(u, x, n - 1) /\ Holds(x, Beginning(u, n - 1))
  BY <1>2 DEF Underway
<1>4. PICK m, items : m = note[uploads[u].note] /\ items = notes[m]
  OBVIOUS
<1>5. m # 0 /\ Says(u, x, n - 1, items) /\ m \in 1..Len(notes) /\ items \in Seq(Item)
  <2>1. m # 0 /\ Says(u, x, n - 1, items)
    BY <1>3, <1>4 DEF NoteSays, NoNote
  <2>2. m \in 0..Len(notes) /\ Len(notes) \in Nat
    BY <1>1, <1>2, <1>4, HandIs DEF Busy
  <2>3. m \in 1..Len(notes)
    BY <2>1, <2>2
  <2> QED
    BY <1>4, <2>1, <2>3, NoteIs DEF ChatTypes
<1>6. Items(w) = items /\ Read(Items(w)) = items[1] /\ items[1].uid = x
  <2>1. ~NoNote(u) /\ items = notes[note[uploads[u].note]]
    BY <1>4, <1>5 DEF NoNote
  <2>2. PICK k : k = n - 1 /\ Says(u, x, k, items)
    BY <1>5
  <2>3. Name(w) = uploads[u].note
    BY <1>2
  <2> QED
    BY <2>1, <2>2, <2>3, SaysRead
<1>7. CASE Kind(w) = "Fei"
  <2>1. OpenNote(w, FALSE) /\ pc'[w] = "count" /\ got'[w].fd = Opened(Name(w))
        /\ got'[w].flen = IF Marked(w) THEN LengthOf(Items(w)) + 1 ELSE 0
    BY <1>7, ReopenDoes
  <2>2. Opened(Name(w)) = m
    BY <1>2, <1>4, <1>5 DEF Opened
  <2>3. note' = note /\ notes' = notes
    <3>1. note' = [note EXCEPT ![Name(w)] = m] /\ notes' = notes
      BY <1>2, <1>4, <1>5, <2>1, <2>2 DEF OpenNote
    <3>2. note' = note
      BY <1>2, <1>4, <3>1 DEF ChatTypes, FileOK
    <3> QED
      BY <3>1, <3>2
  <2>4. Underway(u, n - 1)'
    BY <1>1, <1>2, <2>3, OwnWaits
  <2>5. Number(w)' = n /\ Measured(u, n)' = Measured(u, n)
    BY <1>1, <2>1, GoingIs
  <2>6. Measured(u, n) = got'[w].flen
    <3>1. PICK more : /\ n \in uploads[u].marked => more = Append(items, One)
                      /\ n \notin uploads[u].marked => more = items
      OBVIOUS
    <3>2. Measured(u, n) = IF n \in uploads[u].marked THEN LengthOf(items) + 1 ELSE 0
      BY <1>2, <1>5, <1>7, <3>1, SaysCounted
    <3> QED
      BY <1>6, <2>1, <3>2 DEF Marked
  <2>7. AtCount(u, w)'
    <3>1. got'[w].fd = note'[uploads'[u].note]
      BY <1>2, <1>4, <2>1, <2>2, <2>3
    <3> QED
      BY <2>5, <2>6, <3>1 DEF AtCount
  <2>8. \A k : k = n => Underway(u, k - 1)'
    BY <2>4
  <2> QED
    BY <1>2, <2>1, <2>5, <2>7, <2>8 DEF Goes, Stage, StageAt
<1>8. CASE Kind(w) = "Fei5"
  <2>1. pc'[w] = "rewrite" /\ got'[w].uid = x /\ note' = note /\ notes' = notes
    <3>1. note[Name(w)] # 0
      BY <1>2, <1>4, <1>5
    <3>2. pc'[w] = "rewrite" /\ got'[w].uid = Read(Items(w)).uid
      BY <1>8, <3>1, ReopenGives
    <3>3. note' = note /\ notes' = notes
      BY <1>8, ReopenDoes
    <3> QED
      BY <1>6, <3>2, <3>3
  <2>2. Says(u, x, n, items)
    BY <1>2, <1>5, <1>8, SaysMore
  <2>3. Owns(u, x)' /\ NoteSays(u, x, n)' /\ About(u)' = {} /\ data' = data
    <3>1. NoteSays(u, x, n)
      BY <1>4, <1>5, <2>2 DEF NoteSays, NoNote
    <3>2. About(u) = {}
      BY <1>2 DEF Underway
    <3> QED
      BY <1>1, <1>3, <2>1, <3>1, <3>2, OwnKeeps
  <2>4. Holds(x, Beginning(u, n - 1))'
    <3>1. Beginning(u, n - 1)' = Beginning(u, n - 1)
      BY <1>2, PlanSame
    <3> QED
      BY <1>3, <2>3, <3>1 DEF Holds
  <2>5. Number(w)' = n
    BY <1>1, <2>1, GoingIs
  <2>6. AtRewrite(u, w)'
    BY <1>2, <1>8, <2>1, <2>3, <2>4, <2>5 DEF AtRewrite
  <2> QED
    BY <2>1, <2>6 DEF Goes, Stage, StageAt
<1> QED
  BY <1>2, <1>7, <1>8

\* The "1" of a block is written.
LEMMA CountGoes ==
    ASSUME ChatTypes, OrderOK, RefsApart, SessionsOK, NEW w \in Workers, CountBlock(w), NEW u, u = Upload(w),
           u \notin disturbed', Regular(u), WholeOf(u), NEW n, n = Number(w)
    PROVE  Goes(u, w, n)
<1>1. Work(w) /\ pc[w] = "count" /\ pc'[w] = "rewrite" /\ note' = note /\ got'[w].flen = got[w].flen
  BY CountDoes DEF Work
<1>2. /\ n # 1 /\ Underway(u, n - 1) /\ AtCount(u, w) /\ uploads' = uploads /\ u \in Ids /\ uploads \in Plans
      /\ uploads[u].kind = "Fei" /\ n \in 1..Count(u) /\ Count(u) \in Nat /\ Number(w)' = n
  <2>1. StageAt(u, w, "count") /\ StageFor(w, "count", got[w]) /\ Number(w)' = n
    BY <1>1, GoingIs
  <2>2. /\ uploads' = uploads /\ Kind(w) = uploads[u].kind /\ u \in Ids /\ n \in 1..Count(u) /\ Count(u) \in Nat
    BY <1>1, MineIs DEF PartPlaces
  <2>3. uploads \in Plans
    BY DEF ChatTypes, PlanOK
  <2> QED
    BY <2>1, <2>2, <2>3 DEF StageAt, StageFor
<1>3. PICK x \in 1..uuids : Owns(u, x) /\ NoteSays(u, x, n - 1) /\ Holds(x, Beginning(u, n - 1))
  BY <1>2 DEF Underway
<1>4. PICK m, items, more : /\ m = note[uploads[u].note] /\ items = notes[m]
                            /\ more = IF n \in uploads[u].marked THEN Append(items, One) ELSE items
  OBVIOUS
<1>5. m # 0 /\ Says(u, x, n - 1, items) /\ got[w].fd = m /\ got[w].flen = Measured(u, n)
  BY <1>2, <1>3, <1>4 DEF NoteSays, NoNote, AtCount
<1>6. items \in Seq(Item) /\ notes'[m] = more
  <2>1. notes[m] \in Seq(Item) /\ notes'[m] = Counted(w, notes[m])
    BY <1>5, CountIs
  <2> QED
    BY <1>4, <2>1 DEF Counted, Marked
<1>7. Says(u, x, n, more) /\ more[1].num = Marks(u)
  <2>1. /\ uploads \in Plans /\ u \in Ids /\ n \in 1..Count(u) /\ uploads[u].kind = "Fei"
        /\ items \in Seq(Item) /\ Says(u, x, n - 1, items)
        /\ n \in uploads[u].marked => more = Append(items, One)
        /\ n \notin uploads[u].marked => more = items
    BY <1>2, <1>4, <1>5, <1>6
  <2> QED
    BY <2>1, SaysCounted
<1>8. got'[w].uid = x /\ got'[w].num = Marks(u)
  <2>1. Read(more) = more[1] /\ more[1].uid = x
    BY <1>7 DEF Says, Read
  <2>2. got'[w].uid = Read(notes'[got[w].fd]).uid /\ got'[w].num = Read(notes'[got[w].fd]).num
    BY CountGives, CountDoes
  <2>3. notes'[got[w].fd] = more
    BY <1>5, <1>6
  <2> QED
    BY <1>7, <2>1, <2>2, <2>3
<1>9. NoteSays(u, x, n)'
  <2>1. Says(u, x, n, more)'
    <3>1. Count(u)' = Count(u) /\ Marks(u)' = Marks(u) /\ Size(u)' = Size(u)
      BY <1>2, PlanSame
    <3> QED
      BY <1>2, <1>7, <3>1 DEF Says
  <2>2. ~NoNote(u)' /\ notes'[note'[uploads'[u].note]] = more
    BY <1>1, <1>2, <1>4, <1>5, <1>6 DEF NoNote
  <2> QED
    BY <2>1, <2>2 DEF NoteSays
<1>10. Owns(u, x)' /\ About(u)' = {} /\ data' = data
  <2>1. About(u) = {}
    BY <1>2 DEF Underway
  <2> QED
    BY <1>1, <1>3, <2>1, OwnKeeps
<1>11. Holds(x, Beginning(u, n - 1))' /\ Marks(u)' = Marks(u) /\ Measured(u, n)' = Measured(u, n)
  <2>1. Beginning(u, n - 1)' = Beginning(u, n - 1) /\ Marks(u)' = Marks(u) /\ Measured(u, n)' = Measured(u, n)
    BY <1>2, PlanSame
  <2> QED
    BY <1>3, <1>10, <2>1 DEF Holds
<1>12. AtRewrite(u, w)'
  BY <1>1, <1>2, <1>5, <1>8, <1>9, <1>10, <1>11 DEF AtRewrite
<1> QED
  BY <1>1, <1>12 DEF Goes, Stage, StageAt

\* Another part is written.
LEMMA WriteNextGoes ==
    ASSUME ChatTypes, OrderOK, RefsApart, SessionsOK, NEW w \in Workers, WriteNext(w), NEW u, u = Upload(w),
           u \notin disturbed', Regular(u), WholeOf(u), NEW n, n = Number(w)
    PROVE  Goes(u, w, n)
<1>1. Work(w) /\ pc[w] = "rewrite" /\ note' = note /\ notes' = notes
  BY WriteNextDoes DEF Work, WriteNext
<1>2. PICK x : x = got[w].uid
  OBVIOUS
<1>3. /\ n # 1 /\ About(u) = {} /\ Owns(u, x) /\ NoteSays(u, x, n) /\ Holds(x, Beginning(u, n - 1))
      /\ uploads[u].kind = "GOS" => got[w].num = uploads[u].block
      /\ uploads[u].kind = "Fei" => got[w].num = Marks(u) /\ got[w].flen = Measured(u, n)
      /\ uploads' = uploads /\ u \in Ids /\ uploads \in Plans /\ Kind(w) = uploads[u].kind
      /\ n \in 1..Count(u) /\ Count(u) \in Nat \ {0}
  <2>1. StageAt(u, w, "rewrite")
    BY <1>1, GoingIs
  <2>2. AtRewrite(u, w)
    BY <2>1 DEF StageAt
  <2>3. /\ uploads' = uploads /\ Kind(w) = uploads[u].kind /\ u \in Ids /\ n \in 1..Count(u)
        /\ Count(u) \in Nat \ {0}
    BY <1>1, MineIs DEF PartPlaces
  <2>4. uploads \in Plans
    BY DEF ChatTypes, PlanOK
  <2> QED
    BY <1>2, <2>2, <2>3, <2>4 DEF AtRewrite
<1>4. /\ data' = NextData(w) /\ pc'[w] = (IF NextCompletes(w) THEN "reread" ELSE "idle")
      /\ x \in DOMAIN data /\ data[x] = Beginning(u, n - 1)
  BY <1>2, <1>3, WriteNextDoes DEF Holds
<1>5. NextCompletes(w) <=> n = Count(u)
  BY <1>1, <1>3, NextCompletesIs
<1>6. Holds(x, Beginning(u, n))'
  <2>1. NextRange(w) = Offset(u, n)
    <3>1. NextRange(w) = Place(w)
      BY <1>1, <1>3, NextRangeIs
    <3> QED
      BY <3>1 DEF Place
  <2>2. At(Beginning(u, n - 1), Offset(u, n), Units(u, n)) = Beginning(u, n)
    BY <1>3, NextUnits
  <2>3. data' = [data EXCEPT ![x] = At(Beginning(u, n - 1), Offset(u, n), Units(u, n))]
    BY <1>2, <1>4, <2>1 DEF NextData
  <2>4. x \in DOMAIN data' /\ data'[x] = Beginning(u, n)
    BY <1>4, <2>2, <2>3
  <2>5. Beginning(u, n)' = Beginning(u, n)
    BY <1>3, PlanSame
  <2> QED
    BY <2>4, <2>5 DEF Holds
<1>7. Owns(u, x)' /\ About(u)' = {} /\ NoteSays(u, x, n)' /\ Count(u)' = Count(u)
  BY <1>1, <1>3, OwnKeeps, PlanSame
<1>8. ASSUME n = Count(u) PROVE Goes(u, w, n)
  <2>1. pc'[w] = "reread" /\ got'[w].uid = x /\ Number(w)' = n
    <3>1. pc'[w] = "reread"
      BY <1>4, <1>5, <1>8
    <3> QED
      BY <1>1, <1>2, <3>1, WriteNextDoes, GoingIs
  <2>2. Holds(x, Whole(u))'
    <3>1. Beginning(u, n)' = Whole(u) /\ Whole(u)' = Whole(u)
      BY <1>3, <1>8, WholeIs, PlanSame
    <3> QED
      BY <1>6, <3>1
  <2>3. NoteSays(u, x, Count(u))'
    BY <1>7, <1>8
  <2>4. AtReread(u, w)'
    BY <1>7, <1>8, <2>1, <2>2, <2>3 DEF AtReread
  <2> QED
    BY <2>1, <2>4 DEF Goes, Stage, StageAt
<1>9. ASSUME n # Count(u) PROVE Goes(u, w, n)
  <2>1. pc'[w] = "idle"
    BY <1>4, <1>5, <1>9
  <2>2. x \in 1..uuids'
    BY <1>7 DEF Owns, KnownTo
  <2>3. Underway(u, n)'
    BY <1>6, <1>7, <2>2 DEF Underway
  <2>4. n # 0 /\ ~(n >= Count(u)')
    BY <1>3, <1>7, <1>9
  <2>5. Between(u, n)'
    BY <2>3, <2>4 DEF Between
  <2> QED
    BY <2>1, <2>5 DEF Goes
<1> QED
  BY <1>8, <1>9

\* The note is read once more.
LEMMA RereadGoes ==
    ASSUME ChatTypes, OrderOK, RefsApart, SessionsOK, NEW w \in Workers, Reread(w), NEW u, u = Upload(w),
           u \notin disturbed', Regular(u), WholeOf(u), NEW n, n = Number(w)
    PROVE  Goes(u, w, n)
<1>1. Work(w) /\ pc[w] = "reread" /\ note' = note /\ notes' = notes
  BY RereadDoes DEF Work, Reread, fileVars
<1>2. PICK x : x = got[w].uid
  OBVIOUS
<1>3. /\ n = Count(u) /\ About(u) = {} /\ Owns(u, x) /\ Holds(x, Whole(u)) /\ NoteSays(u, x, n)
      /\ uploads' = uploads /\ Kind(w) = uploads[u].kind /\ Name(w) = uploads[u].note /\ Kind(w) \in Noted
  <2>1. StageAt(u, w, "reread") /\ StageFor(w, "reread", got[w])
    BY <1>1, GoingIs
  <2>2. AtReread(u, w)
    BY <2>1 DEF StageAt
  <2>3. NoteSays(u, x, n)
    BY <1>2, <2>2 DEF AtReread
  <2>4. uploads' = uploads /\ Kind(w) = uploads[u].kind /\ Name(w) = uploads[u].note
    BY <1>1, MineIs
  <2> QED
    BY <1>2, <2>1, <2>2, <2>3, <2>4 DEF AtReread, StageFor
<1>4. PICK items : items = notes[note[uploads[u].note]]
  OBVIOUS
<1>5. ~NoNote(u) /\ Says(u, x, n, items)
  BY <1>3, <1>4 DEF NoteSays
<1>6. Read(Items(w)) = items[1]
  BY <1>3, <1>4, <1>5, SaysRead
<1>7. /\ pc'[w] = "tell" /\ got'[w].uid = x
      /\ got'[w].fn = uploads[u].name /\ got'[w].fs = Size(u)
  <2>1. note[Name(w)] # 0
    BY <1>3, <1>5 DEF NoNote
  <2>2. pc'[w] = "tell"
    BY <2>1, RereadDoes
  <2>3. /\ got'[w].uid = got[w].uid
        /\ got'[w].fn = IF Kind(w) = "Fei" THEN Read(Items(w)).fn ELSE uploads[Upload(w)].name
        /\ got'[w].fs = IF Kind(w) = "Fei" THEN Read(Items(w)).fs ELSE Size(Upload(w))
    BY <2>2, RereadDoes
  <2>4. uploads[u].kind = "Fei" => items[1].fn = uploads[u].name /\ items[1].fs = Size(u)
    BY <1>5 DEF Says
  <2> QED
    BY <1>2, <1>3, <1>6, <2>2, <2>3, <2>4
<1>8. /\ Owns(u, x)' /\ About(u)' = {} /\ data' = data /\ Count(u)' = Count(u) /\ Size(u)' = Size(u)
      /\ Whole(u)' = Whole(u) /\ Number(w)' = n
  BY <1>1, <1>3, <1>7, OwnKeeps, PlanSame, GoingIs
<1>9. Holds(x, Whole(u))'
  BY <1>3, <1>8 DEF Holds
<1>10. AtTell(u, w)'
  BY <1>3, <1>7, <1>8, <1>9 DEF AtTell, Single, Noted
<1> QED
  BY <1>7, <1>10 DEF Goes, Stage, StageAt

\* The file is announced.
LEMMA TellGoes ==
    ASSUME ChatTypes, OrderOK, RefsApart, SessionsOK, NEW w \in Workers, Tell(w), NEW u, u = Upload(w),
           u \notin disturbed', Regular(u), WholeOf(u), NEW n, n = Number(w)
    PROVE  Goes(u, w, n)
<1>1. Work(w) /\ pc[w] = "tell" /\ note' = note /\ data' = data
  BY TellDoes DEF Work, Tell, fileVars
<1>2. PICK x : x = got[w].uid
  OBVIOUS
<1>3. /\ n = Count(u) /\ About(u) = {} /\ Owns(u, x) /\ Holds(x, Whole(u))
      /\ uploads[u].kind # "Blog" => got[w].fn = uploads[u].name /\ got[w].fs = Size(u)
      /\ uploads[u].kind \in Single => NoNote(u)
      /\ uploads' = uploads /\ Kind(w) = uploads[u].kind /\ Count(u) \in Nat \ {0}
  <2>1. StageAt(u, w, "tell")
    BY <1>1, GoingIs
  <2>2. AtTell(u, w)
    BY <2>1 DEF StageAt
  <2>3. uploads' = uploads /\ Kind(w) = uploads[u].kind /\ Count(u) \in Nat \ {0}
    BY <1>1, MineIs
  <2> QED
    BY <1>2, <2>2, <2>3 DEF AtTell
<1>4. Count(u)' = Count(u) /\ Size(u)' = Size(u) /\ Whole(u)' = Whole(u)
  BY <1>3, PlanSame
<1>5. KnownTo(x, {u})'
  BY <1>1, <1>3, OwnKeeps DEF Owns
<1>6. Holds(x, Whole(u))'
  BY <1>1, <1>3, <1>4 DEF Holds
<1>7. PICK r, k : /\ r = [upload |-> Upload(w), uid |-> got[w].uid, fn |-> got[w].fn, fs |-> got[w].fs,
                          counted |-> got[w].flen # 0]
                  /\ k = Len(announced) + 1
  OBVIOUS
<1>8. announced' = Append(announced, r) /\ announced \in Seq(Report) /\ Len(announced) \in Nat
  BY <1>7, TellDoes DEF ChatTypes, HistOK
<1>9. /\ announced'[k] = r
      /\ \A j \in DOMAIN announced' : j = k \/ (j \in DOMAIN announced /\ announced'[j] = announced[j])
  BY <1>7, <1>8
<1>10. \A j \in About(u)' : j = k
  BY <1>3, <1>9 DEF About
<1>11. r.uid = x /\ r.fn = got[w].fn /\ r.fs = got[w].fs
  BY <1>2, <1>7
<1>12. ASSUME NEW j \in About(u)'
       PROVE  /\ Holds(announced[j].uid, Whole(u))' /\ KnownTo(announced[j].uid, {u})'
              /\ uploads[u].kind # "Blog" => announced'[j].fn = uploads[u].name /\ announced'[j].fs = Size(u)
  <2>1. announced'[j] = r
    BY <1>9, <1>10
  <2>2. announced'[j].uid = x
    BY <1>11, <2>1
  <2> QED
    BY <1>3, <1>5, <1>6, <1>11, <2>1, <2>2
<1>13. Told(u, {u})'
  BY <1>3, <1>4, <1>10, <1>12 DEF Told
<1>14. CASE Kind(w) \in Single
  <2>1. pc'[w] = "idle"
    BY <1>14, TellDoes
  <2>2. NoNote(u)'
    BY <1>1, <1>3, <1>14, OwnKeeps
  <2>3. Over(u)'
    BY <1>13, <2>2 DEF Over
  <2>4. n # 0 /\ ~(n \in 1..(Count(u)' - 1))
    BY <1>3, <1>4
  <2>5. Between(u, n)'
    BY <2>3, <2>4 DEF Between
  <2> QED
    BY <2>1, <2>5 DEF Goes
<1>15. CASE Kind(w) \notin Single
  <2>1. pc'[w] = "remove"
    BY <1>15, TellDoes
  <2>2. Number(w)' = n
    BY <1>1, <2>1, GoingIs
  <2> QED
    BY <1>3, <1>4, <1>13, <2>1, <2>2 DEF Goes, Stage, StageAt
<1> QED
  BY <1>14, <1>15

\* What has been announced, when the worker goes on.
LEMMA OwnTold ==
    ASSUME ChatTypes, RefsApart, SessionsOK, NEW w \in Workers, Work(w), NEW u, u = Upload(w),
           pc[w] \notin {"tell", "write", "rewrite", "blog"}, Told(u, {u})
    PROVE  Told(u, {u})'
<1>1. /\ uploads' = uploads /\ data' = data /\ About(u)' = About(u) /\ announced' = announced
      /\ Whole(u)' = Whole(u) /\ Size(u)' = Size(u)
  BY WorkIs, OwnKeeps, PlanSame
<1>2. ASSUME NEW k \in About(u) PROVE Holds(announced[k].uid, Whole(u))' /\ KnownTo(announced[k].uid, {u})'
  <2>1. PICK x : x = announced[k].uid
    OBVIOUS
  <2>2. Holds(x, Whole(u)) /\ KnownTo(x, {u})
    BY <2>1 DEF Told
  <2>3. KnownTo(x, {u})'
    BY <2>2, OwnKeeps
  <2>4. Holds(x, Whole(u))'
    BY <1>1, <2>2 DEF Holds
  <2> QED
    BY <1>1, <2>1, <2>3, <2>4
<1> QED
  BY <1>1, <1>2 DEF Told

\* The note is removed.
LEMMA RemoveGoes ==
    ASSUME ChatTypes, OrderOK, RefsApart, SessionsOK, NEW w \in Workers, RemoveNote(w), NEW u, u = Upload(w),
           u \notin disturbed', Regular(u), WholeOf(u), NEW n, n = Number(w)
    PROVE  Goes(u, w, n)
<1>1. Work(w) /\ pc[w] = "remove" /\ pc'[w] = "idle" /\ note'[Name(w)] = 0
  BY RemoveDoes DEF Work
<1>2. /\ n = Count(u) /\ Told(u, {u}) /\ uploads' = uploads /\ Name(w) = uploads[u].note
      /\ Count(u) \in Nat \ {0}
  <2>1. StageAt(u, w, "remove")
    BY <1>1, GoingIs
  <2>2. uploads' = uploads /\ Name(w) = uploads[u].note /\ Count(u) \in Nat \ {0}
    BY <1>1, MineIs
  <2> QED
    BY <2>1, <2>2 DEF StageAt
<1>3. Over(u)'
  <2>1. NoNote(u)'
    BY <1>1, <1>2 DEF NoNote
  <2>2. Told(u, {u})'
    BY <1>1, <1>2, OwnTold
  <2> QED
    BY <2>1, <2>2 DEF Over
<1>4. n # 0 /\ ~(n \in 1..(Count(u)' - 1))
  BY <1>2, PlanSame
<1>5. Between(u, n)'
  BY <1>3, <1>4 DEF Between
<1> QED
  BY <1>1, <1>5 DEF Goes

\* The first request finds no session.
LEMMA InitGoes ==
    ASSUME ChatTypes, OrderOK, RefsApart, SessionsOK, NEW w \in Workers, InitSession(w), NEW u, u = Upload(w),
           u \notin disturbed', Regular(u), WholeOf(u), NEW n, n = Number(w)
    PROVE  Goes(u, w, n)
<1>1. Work(w) /\ pc[w] = "init" /\ note' = note /\ tbl' = tbl /\ sessions' = sessions
  BY InitSessionDoes DEF Work, InitSession, fileVars, sessionVars
<1>2. Unopened(u) /\ uploads' = uploads /\ Conn(w) = uploads[u].conn
  <2>1. StageAt(u, w, "init")
    BY <1>1, GoingIs
  <2>2. uploads' = uploads /\ Conn(w) = uploads[u].conn
    BY <1>1, MineIs
  <2> QED
    BY <2>1, <2>2 DEF StageAt
<1>3. pc'[w] = "insert"
  <2>1. \A b \in In(tbl) : tbl.key[b] # Conn(w)
    BY <1>2 DEF Unopened, NoSession, ChatTypes, SessionOK
  <2> QED
    BY <2>1, InitSessionDoes
<1>4. Unopened(u)'
  <2>1. About(u)' = {} /\ NoNote(u)'
    BY <1>1, <1>2, OwnKeeps DEF Unopened
  <2>2. NoSession(u)'
    BY <1>1, <1>2 DEF NoSession, Unopened
  <2> QED
    BY <2>1, <2>2 DEF Unopened
<1> QED
  BY <1>3, <1>4 DEF Goes, Stage, StageAt

\* The session is inserted.
LEMMA InsertGoes ==
    ASSUME ChatTypes, OrderOK, RefsApart, SessionsOK, NEW w \in Workers, InsertSession(w), NEW u, u = Upload(w),
           u \notin disturbed', Regular(u), WholeOf(u), NEW n, n = Number(w)
    PROVE  Goes(u, w, n)
<1>1. Work(w) /\ pc[w] = "insert" /\ pc'[w] = "idle" /\ note' = note /\ uuids' = uuids + 1 /\ uuids \in Nat
  BY LeavingDoes DEF Work, InsertSession, ChatTypes, FileOK
<1>2. /\ Unopened(u) /\ n = 0 /\ uploads' = uploads /\ Count(u) \in Nat \ {0} /\ u \in Ids
      /\ uploads[u].kind = "Fei"
  <2>1. StageAt(u, w, "insert") /\ StageFor(w, "insert", got[w])
    BY <1>1, GoingIs
  <2>2. uploads' = uploads /\ Count(u) \in Nat \ {0} /\ Kind(w) = uploads[u].kind /\ u \in Ids
    BY <1>1, MineIs
  <2> QED
    BY <2>1, <2>2 DEF StageAt, StageFor
<1>3. PICK x, b : x = uuids + 1 /\ b = Len(sessions) + 1
  OBVIOUS
<1>4. KnownTo(x, {u})'
  BY <1>1, <1>3, KnownFresh
<1>5. SessionSays(u, x)'
  <2>1. /\ b \in In(tbl') /\ sessions'[b].of = u /\ sessions'[b].uid = x
        /\ sessions'[b].block = Marks(u) - 1 /\ sessions'[b].fn = uploads[u].name
        /\ sessions'[b].fs = Size(u) /\ Marks(u) \in Nat
    BY <1>3, InsertSessionIs DEF Marks
  <2>2. Marks(u)' = Marks(u) /\ Size(u)' = Size(u) /\ In(tbl)' = In(tbl')
    BY <1>2, PlanSame DEF In
  <2>3. sessions'[b].block + 1 = Marks(u)
    BY <2>1
  <2> QED
    BY <1>2, <2>1, <2>2, <2>3 DEF SessionSays
<1>6. Opening(u)'
  <2>1. About(u)' = {} /\ NoNote(u)'
    BY <1>1, <1>2, OwnKeeps DEF Unopened
  <2>2. x \in 1..uuids' /\ Owns(u, x)'
    BY <1>1, <1>3, <1>4, <1>5 DEF Owns
  <2> QED
    BY <2>1, <2>2 DEF Opening
<1>7. ~(n >= Count(u)') /\ ~(n \in 1..(Count(u)' - 1))
  BY <1>2, PlanSame
<1>8. Between(u, n)'
  BY <1>6, <1>7 DEF Between
<1> QED
  BY <1>1, <1>8 DEF Goes

\* The session is taken out.
LEMMA FinishGoes ==
    ASSUME ChatTypes, OrderOK, RefsApart, SessionsOK, NEW w \in Workers, FinishSession(w), NEW u, u = Upload(w),
           u \notin disturbed', Regular(u), WholeOf(u), NEW n, n = Number(w)
    PROVE  Goes(u, w, n)
<1>1. Work(w) /\ pc[w] = "finish" /\ pc'[w] = "idle" /\ note' = note
  BY LeavingDoes DEF Work, FinishSession, fileVars
<1>2. Over(u) /\ n = Count(u) + 1 /\ uploads' = uploads /\ Count(u) \in Nat \ {0}
  <2>1. StageAt(u, w, "finish") /\ StageFor(w, "finish", got[w])
    BY <1>1, GoingIs
  <2>2. uploads' = uploads /\ Count(u) \in Nat \ {0}
    BY <1>1, MineIs
  <2> QED
    BY <2>1, <2>2 DEF StageAt, StageFor
<1>3. Over(u)'
  <2>1. NoNote(u)'
    BY <1>1, <1>2, OwnKeeps DEF Over
  <2>2. Told(u, {u})'
    BY <1>1, <1>2, OwnTold DEF Over
  <2> QED
    BY <2>1, <2>2 DEF Over
<1>4. n # 0 /\ ~(n \in 1..(Count(u)' - 1))
  BY <1>2, PlanSame
<1>5. Between(u, n)'
  BY <1>3, <1>4 DEF Between
<1> QED
  BY <1>1, <1>5 DEF Goes

\* So every step on an undisturbed upload brings it from one stage to the next.
LEMMA WorkGoes ==
    ASSUME ChatTypes, OrderOK, RefsApart, SessionsOK, NEW w \in Workers, Work(w), NEW u, u = Upload(w),
           u \notin disturbed', Regular(u), WholeOf(u), NEW n, n = Number(w)
    PROVE  Goes(u, w, n)
BY LookGoes, FindGoes, BeginGoes, FillGoes, ReopenGoes, CountGoes, WriteFirstGoes, WriteNextGoes, WholeFileGoes,
   BlogGoes, RereadGoes, TellGoes, RemoveGoes, InitGoes, InsertGoes, FinishGoes DEF Work

-----------------------------------------------------------------------------
(* All steps *)

\* What is said of an upload is kept when nobody touches it.
LEMMA StayWhole ==
    ASSUME ChatTypes, NEW u \in Ids, Same(u), taken'[u] = taken[u], Held(u)' = Held(u),
           \A v \in Held(u) : pc'[v] = pc[v] /\ post'[v] = post[v] /\ got'[v] = got[v],
           WholeOf(u)
    PROVE  WholeOf(u)'
<1>1. Posts(u)' = Posts(u)
  BY PlanSame DEF Same
<1>2. taken'[u] = {} => About(u)' = {}
  BY DEF WholeOf, Same
<1>3. ASSUME Active(u)', Held(u)' = {}, NEW i \in taken'[u], \A j \in taken'[u] : j <= i
      PROVE  Between(u, i)'
  <2>1. Active(u)
    BY <1>1, <1>3 DEF Active
  <2>2. Between(u, i)
    BY <1>3, <2>1 DEF WholeOf
  <2> QED
    BY <2>2, SameBetween
<1>4. ASSUME NEW v \in Held(u) PROVE Stage(u, v)'
  <2>1. Busy(v) /\ Upload(v) = u /\ v \in Workers
    BY DEF Held
  <2>2. Stage(u, v)
    BY DEF WholeOf
  <2> QED
    BY <2>1, <2>2, SameStage
<1>5. taken'[u] = Posts(u)' /\ Held(u)' = {} => Told(u, {})'
  BY <1>1, SameTold DEF WholeOf
<1> QED
  BY <1>2, <1>3, <1>4, <1>5 DEF WholeOf

\* When the last POST has been handled, nobody knows the uuid any more.
LEMMA OverTold ==
    ASSUME ChatTypes', SessionsOK', uploads' = uploads, NEW u \in Ids, u \notin disturbed', Over(u)',
           taken'[u] = Posts(u), \A v \in Met(u) : Held(v)' = {}
    PROVE  Told(u, {})'
<1>1. u \in Met(u) /\ Held(u)' = {}
  BY DEF Met
<1>2. Count(u)' = Count(u) /\ NoteNames' = NoteNames /\ Ids' = Ids
  BY PlanSame
<1>3. ASSUME NEW x, KnownTo(x, {u})' PROVE KnownTo(x, {})'
  <2>1. \A v \in Workers : ~Sees(v, x)'
    BY <1>1, <1>3 DEF KnownTo, Held, Sees
  <2>2. ASSUME NEW f \in NoteNames, InNotes(x, f)' PROVE FALSE
    <3>1. f = uploads[u].note
      BY <1>2, <1>3, <2>2 DEF KnownTo
    <3>2. PICK n \in Refs(f)' : TRUE
      BY <2>2 DEF InNotes
    <3>3. note'[f] = 0
      BY <3>1 DEF Over, NoNote
    <3>4. PICK v \in Workers : Busy(v)' /\ Name(v)' = f
      BY <3>2, <3>3 DEF Refs
    <3>5. PICK a : a = Upload(v)'
      OBVIOUS
    <3>6. a \in Ids
      BY <1>2, <3>4, <3>5 DEF ChatTypes, WorkOK, StageOK
    <3>7. uploads[a].note = f
      BY <3>4, <3>5 DEF Name
    <3>8. a \in Met(u)
      BY <3>1, <3>6, <3>7 DEF Met
    <3>9. v \in Held(a)'
      BY <3>4, <3>5 DEF Held
    <3> QED
      BY <3>8, <3>9
  <2>3. ASSUME NEW b \in In(tbl'), sessions'[b].uid = x PROVE FALSE
    <3>1. b \in DOMAIN sessions' /\ In(tbl)' = In(tbl')
      BY DEF ChatTypes, SessionOK, In
    <3>2. sessions'[b].of = u
      BY <1>3, <2>3, <3>1 DEF KnownTo
    <3>3. uploads[u].kind = "Fei"
      BY <3>1, <3>2 DEF SessionsOK
    <3>4. Count(u) \in Nat
      <4>1. uploads \in Plans
        BY DEF ChatTypes, PlanOK
      <4> QED
        BY <4>1, UploadIs
    <3>5. Count(u) + 1 \in taken'[u]
      BY <3>3, <3>4 DEF Posts
    <3> QED
      BY <1>1, <1>2, <3>1, <3>2, <3>3, <3>5 DEF SessionsOK
  <2>4. In(tbl)' = In(tbl')
    BY DEF In
  <2> QED
    BY <1>2, <1>3, <2>1, <2>2, <2>3, <2>4 DEF KnownTo
<1> QED
  BY <1>3 DEF Over, Told

\* Work on an upload that nobody disturbed.
LEMMA OwnWhole ==
    ASSUME ChatTypes, OrderOK, RefsApart, SessionsOK, NEW w \in Workers, Work(w), NEW u, u = Upload(w),
           u \notin disturbed', Regular(u), WholeOf(u)
    PROVE  /\ WholeOf(u)'
           /\ taken[u] = Posts(u) /\ pc'[w] = "idle" => NoNote(u)'
<1>1. PICK n : n = Number(w)
  OBVIOUS
<1>2. Goes(u, w, n)
  BY <1>1, WorkGoes
<1>3. /\ u \in Ids /\ \A v \in Held(u) : v = w
      /\ \A v \in Met(u) \ {u} : Held(v) = {}
      /\ \A k \in taken[u] : k <= n
      /\ n \in taken[u] /\ n \in Nat /\ uploads' = uploads /\ taken' = taken /\ Count(u) \in Nat \ {0}
      /\ Posts(u)' = Posts(u) /\ Count(u)' = Count(u) /\ Busy(w)
  BY <1>1, MineIs, PlanSame
<1>4. taken[u] \subseteq Nat
  BY <1>3 DEF ChatTypes, PlanOK
<1>5. Held(u)' \subseteq {w} /\ \A v : v # u => Held(v)' = Held(v)
  BY <1>3, OthersAre
<1>6. ASSUME pc'[w] = "idle" PROVE WholeOf(u)' /\ (taken[u] = Posts(u) => NoNote(u)')
  <2>1. Held(u)' = {}
    <3>1. ~Busy(w)'
      BY <1>6 DEF Busy
    <3>2. w \notin Held(u)'
      BY <3>1 DEF Held
    <3> QED
      BY <1>5, <3>2
  <2>2. Between(u, n)'
    BY <1>2, <1>6 DEF Goes
  <2>3. ASSUME NEW i \in taken[u], \A j \in taken[u] : j <= i PROVE Between(u, i)'
    <3>1. i = n
      BY <1>3, <1>4, <2>3
    <3> QED
      BY <2>2, <3>1
  <2>4. ASSUME taken[u] = Posts(u) PROVE Told(u, {})' /\ NoNote(u)'
    <3>1. Count(u) \in Posts(u)
      BY <1>3 DEF Posts
    <3>2. n >= Count(u)
      BY <1>3, <2>4, <3>1
    <3>3. Over(u)'
      BY <1>3, <2>2, <3>2 DEF Between
    <3>4. ChatTypes' /\ SessionsOK'
      BY NextTypes, WorkKeepsSessions DEF Next
    <3>5. \A v \in Met(u) : Held(v)' = {}
      BY <1>3, <1>5, <2>1
    <3>6. Told(u, {})'
      BY <1>3, <2>4, <3>3, <3>4, <3>5, OverTold
    <3> QED
      BY <3>3, <3>6 DEF Over
  <2> QED
    BY <1>3, <2>1, <2>3, <2>4 DEF WholeOf
<1>7. ASSUME pc'[w] # "idle" PROVE WholeOf(u)'
  <2>1. Stage(u, w)'
    BY <1>2, <1>7 DEF Goes
  <2>2. w \in Held(u)'
    <3>1. Busy(w)'
      BY <1>7 DEF Busy
    <3>2. Upload(w)' = u
      BY <3>1, OthersAre
    <3> QED
      BY <3>1, <3>2 DEF Held
  <2> QED
    BY <1>3, <1>5, <2>1, <2>2 DEF WholeOf
<1> QED
  BY <1>6, <1>7

\* What has been announced of an upload of which nobody knows.
LEMMA ToldStays ==
    ASSUME ChatTypes, RefsApart, SessionsOK, NEW w \in Workers, Work(w), NEW u \in Ids, Upload(w) # u, Told(u, {})
    PROVE  Told(u, {})'
<1>1. uploads' = uploads /\ Size(u)' = Size(u) /\ Whole(u)' = Whole(u)
  BY WorkIs, PlanSame
<1>2. \A k \in About(u)' : k \in About(u) /\ announced'[k] = announced[k]
  BY AnnouncedByOthers DEF About
<1>3. ASSUME NEW k \in About(u)'
      PROVE  Holds(announced[k].uid, Whole(u))' /\ KnownTo(announced[k].uid, {})'
  <2>1. PICK x, units, U : x = announced[k].uid /\ units = Whole(u) /\ U = {} /\ U \subseteq Ids
    OBVIOUS
  <2>2. Holds(x, units) /\ KnownTo(x, {})
    BY <1>2, <2>1 DEF Told
  <2>3. KnownTo(x, U)
    BY <2>1, <2>2
  <2>4. KnownTo(x, U)'
    BY <2>1, <2>3, KnownStays
  <2>5. x \in 1..uuids /\ ~Sees(w, x)
    BY <2>2 DEF KnownTo
  <2>6. Holds(x, units)'
    BY <2>2, <2>5, DataMoves
  <2>7. announced'[k].uid = x /\ Whole(u)' = units
    BY <1>1, <1>2, <2>1
  <2>8. KnownTo(x, {})'
    BY <2>1, <2>4
  <2> QED
    BY <2>6, <2>7, <2>8
<1>4. ASSUME NEW k \in About(u)'
      PROVE  uploads[u].kind # "Blog" => announced'[k].fn = uploads[u].name /\ announced'[k].fs = Size(u)
  BY <1>2 DEF Told
<1> QED
  BY <1>1, <1>2, <1>3, <1>4 DEF Told

\* Work on another upload.
LEMMA OthersWhole ==
    ASSUME ChatTypes, OrderOK, RefsApart, SessionsOK, NEW w \in Workers, Work(w), NEW u \in Ids, Upload(w) # u,
           u \notin disturbed, WholeOf(u)
    PROVE  WholeOf(u)'
<1>1. Busy(w) /\ Upload(w) \in Ids /\ uploads' = uploads /\ taken' = taken /\ Held(u)' = Held(u)
  BY WorkIs, HandIs, OthersAre
<1>2. Posts(u)' = Posts(u)
  BY <1>1, PlanSame
<1>3. CASE Active(u)
  <2>1. w \in Held(Upload(w))
    BY <1>1 DEF Held
  <2>2. Upload(w) \notin Met(u)
    BY <1>1, <1>3, <2>1 DEF OrderOK
  <2>3. Same(u)
    BY <2>2, WorkSame
  <2>4. \A v \in Held(u) : pc'[v] = pc[v] /\ post'[v] = post[v] /\ got'[v] = got[v]
    BY OthersAre DEF Held
  <2> QED
    BY <1>1, <2>3, <2>4, StayWhole
<1>4. CASE taken[u] = {}
  <2>1. About(u)' = {}
    <3>1. About(u) = {}
      BY <1>4 DEF WholeOf
    <3> QED
      BY <3>1, AnnouncedByOthers DEF About
  <2>2. Held(u) = {}
    BY <1>4, HandIs DEF Held
  <2>3. Posts(u) # {}
    <3>1. Count(u) \in Nat \ {0}
      BY UploadIs DEF ChatTypes, PlanOK
    <3>2. Count(u) \in Posts(u)
      BY <3>1 DEF Posts
    <3> QED
      BY <3>2
  <2> QED
    BY <1>1, <1>2, <1>4, <2>1, <2>2, <2>3 DEF WholeOf
<1>5. CASE taken[u] # {} /\ taken[u] = Posts(u) /\ Held(u) = {}
  <2>1. Told(u, {})'
    BY <1>5, ToldStays DEF WholeOf
  <2>2. ~Active(u)'
    BY <1>1, <1>2, <1>5 DEF Active
  <2> QED
    BY <1>1, <1>5, <2>1, <2>2 DEF WholeOf
<1> QED
  BY <1>3, <1>4, <1>5 DEF Active

\* A worker leaves no note behind.
LEMMA WorkFrees ==
    ASSUME ChatTypes, OrderOK, RefsApart, SessionsOK, WholeOK, NEW w \in Workers, Work(w),
           NEW u \in Ids, Regular(u)
    PROVE  NameFree(u)'
<1>1. /\ Busy(w) /\ Upload(w) \in Ids /\ Name(w) = uploads[Upload(w)].note /\ uploads' = uploads
      /\ taken' = taken /\ disturbed \subseteq disturbed' /\ Ids' = Ids /\ Name(w) \in NoteNames
      /\ Number(w) \in taken[Upload(w)]
  BY WorkIs, HandIs, PlanSame DEF Name
<1>2. SUFFICES ASSUME \A v \in Ids : uploads[v].note = uploads[u].note => Settled(v)'
               PROVE  NoNote(u)'
  BY <1>1 DEF NameFree
<1>3. CASE Name(w) = uploads[u].note
  <2>1. PICK v \in Ids : v = Upload(w)
    BY <1>1
  <2>2. uploads[v].note = uploads[u].note /\ v \notin disturbed' /\ ~Active(v)'
    BY <1>1, <1>2, <1>3, <2>1 DEF Settled
  <2>3. Posts(v)' = Posts(v) /\ taken[v] # {}
    BY <1>1, <2>1, PlanSame
  <2>4. taken[v] = Posts(v) /\ Held(v)' = {}
    BY <1>1, <2>2, <2>3 DEF Active
  <2>5. pc'[w] = "idle"
    <3> SUFFICES ASSUME pc'[w] # "idle" PROVE FALSE
      OBVIOUS
    <3>1. Busy(w)'
      BY DEF Busy
    <3>2. Upload(w)' = v
      BY <2>1, <3>1, OthersAre
    <3>3. w \in Held(v)'
      BY <3>1, <3>2 DEF Held
    <3> QED
      BY <2>4, <3>3
  <2>6. Regular(v)
    BY <2>2 DEF Regular
  <2>7. WholeOf(v)
    BY <1>1, <2>2, <2>6 DEF WholeOK
  <2>8. NoNote(v)'
    BY <2>1, <2>2, <2>4, <2>5, <2>6, <2>7, OwnWhole
  <2> QED
    BY <1>1, <2>2, <2>8 DEF NoNote
<1>4. CASE Name(w) # uploads[u].note
  <2>1. ASSUME NEW v \in Ids, uploads[v].note = uploads[u].note PROVE Settled(v)
    <3>1. v # Upload(w)
      BY <1>1, <1>4, <2>1
    <3>2. Held(v)' = Held(v) /\ Posts(v)' = Posts(v)
      BY <1>1, <3>1, OthersAre, PlanSame
    <3>3. Settled(v)'
      BY <1>2, <2>1
    <3> QED
      BY <1>1, <3>2, <3>3 DEF Settled, Active
  <2>2. NoNote(u)
    BY <2>1 DEF WholeOK, NameFree
  <2>3. uploads[u].note \in NoteNames
    BY DEF NoteNames
  <2>4. note'[uploads[u].note] = note[uploads[u].note]
    BY <1>4, <2>3, WorkTouches DEF Touches
  <2> QED
    BY <1>1, <2>2, <2>4 DEF NoNote
<1> QED
  BY <1>3, <1>4

\* So work keeps what is said of files that are whole.
LEMMA WorkKeepsWhole ==
    ASSUME ChatTypes, OrderOK, RefsApart, SessionsOK, WholeOK, NEW w \in Workers, Work(w) PROVE WholeOK'
<1>1. uploads' = uploads /\ disturbed \subseteq disturbed' /\ Ids' = Ids
  BY WorkIs, PlanSame
<1>2. ASSUME NEW u \in Ids, Regular(u)' PROVE Regular(u)
  BY <1>1, <1>2, PlanSame
<1>3. ASSUME NEW u \in Ids, u \notin disturbed', Regular(u)' PROVE WholeOf(u)'
  <2>1. WholeOf(u) /\ Regular(u) /\ u \notin disturbed
    BY <1>1, <1>2, <1>3 DEF WholeOK
  <2>2. CASE Upload(w) = u
    BY <1>3, <2>1, <2>2, OwnWhole
  <2>3. CASE Upload(w) # u
    BY <1>3, <2>1, <2>3, OthersWhole
  <2> QED
    BY <2>2, <2>3
<1>4. ASSUME NEW u \in Ids, Regular(u)' PROVE NameFree(u)'
  BY <1>2, <1>4, WorkFrees
<1> QED
  BY <1>1, <1>3, <1>4 DEF WholeOK

\* So does a step that touches no upload.
LEMMA StillKeepsWhole ==
    ASSUME ChatTypes, WholeOK, UNCHANGED <<uploads, taken, workVars, fileVars, sessionVars, announced>>,
           disturbed \subseteq disturbed'
    PROVE  WholeOK'
<1>1. /\ uploads' = uploads /\ taken' = taken /\ pc' = pc /\ post' = post /\ got' = got /\ Ids' = Ids
      /\ note' = note
  BY PlanSame DEF workVars, fileVars
<1>2. ASSUME NEW u \in Ids PROVE Held(u)' = Held(u) /\ Posts(u)' = Posts(u) /\ (Regular(u)' => Regular(u))
  BY <1>1, PlanSame DEF Held, Busy, Upload
<1>3. ASSUME NEW u \in Ids, u \notin disturbed', Regular(u)' PROVE WholeOf(u)'
  <2>1. WholeOf(u)
    BY <1>2, <1>3 DEF WholeOK
  <2>2. Same(u)
    BY StillSame
  <2> QED
    BY <1>1, <1>2, <2>1, <2>2, StayWhole
<1>4. ASSUME NEW u \in Ids, Regular(u)' PROVE NameFree(u)'
  <2>1. \A v \in Ids : Settled(v)' => Settled(v)
    BY <1>1, <1>2 DEF Settled, Active
  <2>2. NameFree(u)
    BY <1>2, <1>4 DEF WholeOK
  <2> QED
    BY <1>1, <2>1, <2>2 DEF NameFree, NoNote
<1> QED
  BY <1>1, <1>3, <1>4 DEF WholeOK

\* What holds before POST i of u, when nobody is disturbed by its being taken.
LEMMA ReadyFor ==
    ASSUME ChatTypes, OrderOK, SessionsOK, WholeOK, NEW u \in Ids, Regular(u), u \notin disturbed,
           NEW i \in Posts(u), u \notin Disturbed(u, i)
    PROVE  /\ Held(u) = {}
           /\ i = FirstPost(u) => About(u) = {} /\ NoNote(u) /\ (uploads[u].kind = "Fei" => NoSession(u))
           /\ i # FirstPost(u) => Between(u, i - 1)
<1>1. PICK n \in Nat : taken[u] = FirstPost(u)..(FirstPost(u) + n - 1) /\ i = FirstPost(u) + n
  BY InOrder
<1>2. /\ \A v \in Met(u) : Held(v) = {}
      /\ \A v \in Met(u) \ {u} : v \notin disturbed /\ (taken[v] = {} \/ taken[v] = Posts(v))
  BY InOrder
<1>3. FirstPost(u) \in {0, 1} /\ u \in Met(u) /\ WholeOf(u)
  BY DEF FirstPost, Met, WholeOK
<1>4. Held(u) = {}
  BY <1>2, <1>3
<1>5. uploads \in Plans
  BY DEF ChatTypes, PlanOK
<1>6. ASSUME i = FirstPost(u) PROVE About(u) = {} /\ NoNote(u) /\ (uploads[u].kind = "Fei" => NoSession(u))
  <2>1. taken[u] = {}
    BY <1>1, <1>3, <1>6
  <2>2. About(u) = {}
    BY <1>3, <2>1 DEF WholeOf
  <2>3. ASSUME NEW v \in Ids, uploads[v].note = uploads[u].note PROVE Settled(v)
    <3>1. v \in Met(u)
      BY <2>3 DEF Met
    <3>2. CASE v = u
      BY <2>1, <3>2 DEF Settled, Active
    <3>3. CASE v # u
      BY <1>2, <3>1, <3>3 DEF Settled, Active
    <3> QED
      BY <3>2, <3>3
  <2>4. NoNote(u)
    BY <2>3 DEF WholeOK, NameFree
  <2>5. ASSUME uploads[u].kind = "Fei", NEW b \in In(tbl) PROVE uploads[sessions[b].of].conn # uploads[u].conn
    <3> SUFFICES ASSUME uploads[sessions[b].of].conn = uploads[u].conn PROVE FALSE
      OBVIOUS
    <3>1. b \in DOMAIN sessions /\ sessions[b].of \in Ids
      BY SessionIs DEF ChatTypes, SessionOK
    <3>2. PICK v \in Ids : v = sessions[b].of
      BY <3>1
    <3>3. uploads[v].kind = "Fei" /\ 0 \in taken[v]
      BY <3>1, <3>2 DEF SessionsOK
    <3>4. v \in Met(u) \ {u}
      BY <2>1, <2>5, <3>2, <3>3 DEF Met
    <3>5. v \notin disturbed /\ taken[v] = Posts(v) /\ Held(v) = {}
      BY <1>2, <3>3, <3>4
    <3>6. Count(v) + 1 \in taken[v]
      <4>1. Count(v) \in Nat
        BY <1>5, UploadIs
      <4> QED
        BY <3>3, <3>5, <4>1 DEF Posts
    <3> QED
      BY <3>2, <3>3, <3>5, <3>6 DEF SessionsOK
  <2> QED
    BY <2>2, <2>4, <2>5 DEF NoSession
<1>7. ASSUME i # FirstPost(u) PROVE Between(u, i - 1)
  <2>1. i - 1 \in taken[u] /\ \A j \in taken[u] : j <= i - 1
    BY <1>1, <1>3, <1>7
  <2>2. i \notin taken[u]
    BY <1>1, <1>3
  <2>3. Active(u)
    BY <2>1, <2>2 DEF Active
  <2> QED
    BY <1>3, <1>4, <2>1, <2>3 DEF WholeOf
<1> QED
  BY <1>4, <1>6, <1>7

\* Where the worker stands that takes it.
LEMMA ReadyStage ==
    ASSUME ChatTypes, NEW u \in Ids, Same(u), NEW w \in Workers, NEW i \in Posts(u),
           Number(w)' = i, pc'[w] = Dispatch(u, i),
           i = FirstPost(u) => About(u) = {} /\ NoNote(u) /\ (uploads[u].kind = "Fei" => NoSession(u)),
           i # FirstPost(u) => Between(u, i - 1)
    PROVE  Stage(u, w)'
<1>1. uploads' = uploads /\ Count(u) \in Nat \ {0} /\ (uploads[u].kind \in Single => Count(u) = 1)
  BY UploadIs DEF Same, ChatTypes, PlanOK
<1>2. PICK p : p = Dispatch(u, i)
  OBVIOUS
<1>3. i \in Nat /\ i \in (IF uploads[u].kind = "Fei" THEN 0..(Count(u) + 1) ELSE 1..Count(u))
  BY <1>1 DEF Posts
<1>4. CASE uploads[u].kind = "Fei" /\ i = 0
  <2>1. p = "init"
    BY <1>1, <1>2, <1>4 DEF Dispatch
  <2>2. Unopened(u)
    BY <1>4 DEF Unopened, FirstPost
  <2>3. Unopened(u)'
    BY <1>4, <2>2, SameBetween
  <2> QED
    BY <1>2, <2>1, <2>3 DEF Stage, StageAt
<1>5. CASE uploads[u].kind = "Fei" /\ i = Count(u) + 1
  <2>1. p = "finish"
    BY <1>1, <1>2, <1>5 DEF Dispatch
  <2>2. Over(u)
    BY <1>1, <1>5 DEF Between, FirstPost
  <2>3. Over(u)'
    BY <2>2, SameBetween
  <2> QED
    BY <1>2, <2>1, <2>3 DEF Stage, StageAt
<1>6. CASE i = 1
  <2>1. p \in {"blog", "whole", "look"}
    BY <1>1, <1>2, <1>6 DEF Dispatch
  <2>2. Opening(u)
    <3>1. CASE uploads[u].kind = "Fei"
      BY <1>6, <3>1 DEF Between, FirstPost
    <3>2. CASE uploads[u].kind # "Fei"
      BY <1>6, <3>2 DEF Opening, FirstPost
    <3> QED
      BY <3>1, <3>2
  <2>3. Opening(u)'
    BY <2>2, SameBetween
  <2> QED
    BY <1>2, <1>6, <2>1, <2>3 DEF Stage, StageAt
<1>7. CASE i \in 2..Count(u)
  <2>1. p = "look"
    BY <1>1, <1>2, <1>7 DEF Dispatch, Single
  <2>2. Underway(u, i - 1)
    BY <1>1, <1>7 DEF Between, FirstPost
  <2>3. Underway(u, i - 1)'
    BY <2>2, SameBetween
  <2> QED
    BY <1>2, <1>7, <2>1, <2>3 DEF Stage, StageAt
<1> QED
  BY <1>1, <1>3, <1>4, <1>5, <1>6, <1>7

\* So what is said is kept when a worker takes a POST.
LEMMA TakeKeepsWhole ==
    ASSUME ChatTypes, OrderOK, SessionsOK, WholeOK, NEW w \in Workers, Take(w) PROVE WholeOK'
<1>1. PICK u, i :
        /\ u \in Ids /\ i \in Posts(u) /\ i \notin taken[u]
        /\ taken'[u] = taken[u] \cup {i}
        /\ \A v \in Ids : v # u => taken'[v] = taken[v]
        /\ Upload(w)' = u /\ Number(w)' = i /\ pc'[w] = Dispatch(u, i) /\ Busy(w)'
        /\ disturbed' = disturbed \cup Disturbed(u, i)
        /\ \A v \in Workers : v # w => pc'[v] = pc[v] /\ post'[v] = post[v]
  BY TakeIs
<1>2. pc[w] = "idle" /\ uploads' = uploads /\ got' = got /\ note' = note /\ Ids' = Ids
  BY TakeIs, PlanSame DEF fileVars
<1>3. \A v \in Workers : v # w => Busy(v)' = Busy(v) /\ Upload(v)' = Upload(v)
  BY <1>1 DEF Busy, Upload
<1>4. /\ \A v \in Ids : v # u => Held(v)' = Held(v)
      /\ Held(u)' = Held(u) \cup {w} /\ \A v \in Ids : w \notin Held(v)
  BY <1>1, <1>2, <1>3 DEF Held, Busy
<1>5. ASSUME NEW v \in Ids PROVE Same(v) /\ Posts(v)' = Posts(v) /\ (Regular(v)' => Regular(v))
  BY <1>2, TakeSame, PlanSame
<1>6. ASSUME NEW v \in Ids, v \notin disturbed', Regular(v)' PROVE WholeOf(v)'
  <2>1. v \notin disturbed /\ Regular(v) /\ WholeOf(v)
    BY <1>1, <1>5, <1>6 DEF WholeOK
  <2>2. CASE v # u
    <3>1. \A x \in Held(v) : pc'[x] = pc[x] /\ post'[x] = post[x] /\ got'[x] = got[x]
      BY <1>1, <1>2, <1>4 DEF Held
    <3> QED
      BY <1>1, <1>4, <1>5, <2>1, <2>2, <3>1, StayWhole
  <2>3. CASE v = u
    <3>1. /\ Held(u) = {}
          /\ i = FirstPost(u) => About(u) = {} /\ NoNote(u) /\ (uploads[u].kind = "Fei" => NoSession(u))
          /\ i # FirstPost(u) => Between(u, i - 1)
      BY <1>1, <1>6, <2>1, <2>3, ReadyFor
    <3>2. Stage(u, w)'
      BY <1>1, <1>5, <3>1, ReadyStage
    <3> QED
      BY <1>1, <1>4, <2>3, <3>1, <3>2 DEF WholeOf
  <2> QED
    BY <2>2, <2>3
<1>7. ASSUME NEW v \in Ids, Regular(v)' PROVE NameFree(v)'
  <2>1. ASSUME NEW x \in Ids, Settled(x)' PROVE Settled(x)
    <3>1. x # u
      BY <1>1, <1>4, <2>1 DEF Settled, Active
    <3> QED
      BY <1>1, <1>4, <1>5, <2>1, <3>1 DEF Settled, Active
  <2>2. NameFree(v)
    BY <1>5, <1>7 DEF WholeOK
  <2> QED
    BY <1>2, <2>1, <2>2 DEF NameFree, NoNote
<1> QED
  BY <1>2, <1>6, <1>7 DEF WholeOK

\* At first no file has been announced and no note been made.
LEMMA InitWhole == Init => WholeOK
<1> SUFFICES ASSUME Init PROVE WholeOK
  OBVIOUS
<1>1. /\ \A w \in Workers : ~Busy(w)
      /\ announced = <<>> /\ DOMAIN announced = {}
      /\ \A u \in Ids : note[uploads[u].note] = 0 /\ taken[u] = {}
  BY DEF Init, Busy
<1>2. ASSUME NEW u \in Ids PROVE WholeOf(u) /\ NoNote(u)
  <2>1. Held(u) = {} /\ About(u) = {} /\ taken[u] = {} /\ ~Active(u) /\ NoNote(u)
    BY <1>1 DEF Held, About, Active, NoNote
  <2> QED
    BY <2>1 DEF WholeOf, Told
<1> QED
  BY <1>2 DEF WholeOK, NameFree

\* So every step keeps what is said of files that are whole.
LEMMA NextWhole ==
    ASSUME ChatTypes, OrderOK, SessionsOK, CountOK, WholeOK, [Next]_vars PROVE WholeOK'
<1>1. CASE UNCHANGED vars
  <2>1. UNCHANGED <<uploads, taken, workVars, fileVars, sessionVars, announced>> /\ disturbed' = disturbed
    BY <1>1 DEF vars, planVars, histVars
  <2> QED
    BY <2>1, StillKeepsWhole
<1>2. ASSUME NEW u \in Ids, Lose(u) PROVE WholeOK'
  <2>1. UNCHANGED <<uploads, taken, workVars, fileVars, sessionVars, announced>> /\ disturbed \subseteq disturbed'
    BY <1>2 DEF Lose, Failure
  <2> QED
    BY <2>1, StillKeepsWhole
<1>3. ASSUME NEW w \in Workers, Take(w) PROVE WholeOK'
  BY <1>3, TakeKeepsWhole
<1>4. ASSUME NEW w \in Workers, Work(w) PROVE WholeOK'
  BY <1>4, WorkKeepsWhole DEF CountOK
<1> QED
  BY <1>1, <1>2, <1>3, <1>4 DEF Next

\* What is said of files that are whole always holds.
LEMMA WholeAlways == Spec => [](ChatTypes /\ OrderOK /\ WholeOK)
<1>1. Init => WholeOK
  BY InitWhole
<1>2. (ChatTypes /\ OrderOK /\ SessionsOK /\ CountOK) /\ WholeOK /\ [Next]_vars => WholeOK'
  BY NextWhole
<1> QED
  BY <1>1, <1>2, CountAlways, PTL DEF Spec

\* Whatever is announced of an upload is right, wherever its workers stand.
LEMMA WholeTells ==
    ASSUME ChatTypes, OrderOK, NEW u \in Ids, u \notin disturbed, WholeOf(u)
    PROVE  Told(u, {}) \/ Told(u, {u}) \/ About(u) = {}
<1>1. CASE taken[u] = {}
  BY <1>1 DEF WholeOf
<1>2. CASE taken[u] # {} /\ ~Active(u)
  BY <1>2 DEF WholeOf, Active
<1>3. ASSUME NEW w \in Held(u) PROVE Told(u, {u}) \/ About(u) = {}
  <2>1. Stage(u, w) /\ w \in Workers /\ Busy(w) /\ Upload(w) = u
    BY <1>3 DEF WholeOf, Held
  <2>2. pc[w] \in Places \ {"idle"}
    BY <2>1 DEF ChatTypes, WorkOK, Busy
  <2>3. PICK p : p = pc[w]
    OBVIOUS
  <2>4. p \in Places \ {"idle"} /\ StageAt(u, w, p)
    BY <2>1, <2>2, <2>3 DEF Stage
  <2>5. CASE p \in {"init", "insert", "session", "begin", "whole", "blog", "look", "reopen", "count"}
    BY <2>4, <2>5 DEF StageAt, Unopened, Opening, Underway
  <2>6. CASE p \in {"fill", "write", "rewrite", "reread", "tell"}
    BY <2>4, <2>6 DEF StageAt, AtFill, AtRewrite, AtReread, AtTell
  <2>7. CASE p \in {"remove", "finish"}
    BY <2>4, <2>7 DEF StageAt, Over
  <2> QED
    BY <2>4, <2>5, <2>6, <2>7 DEF Places, PartPlaces
<1>4. CASE Active(u) /\ Held(u) = {}
  <2>1. uploads \in Plans /\ taken[u] \subseteq Posts(u)
    BY DEF ChatTypes, PlanOK
  <2>2. Count(u) \in Nat \ {0} /\ taken[u] # {}
    BY <1>4, <2>1, UploadIs DEF Active
  <2>3. taken[u] \subseteq 0..(Count(u) + 1)
    BY <2>1, <2>2 DEF Posts
  <2>4. PICK i \in taken[u] : \A j \in taken[u] : j <= i
    <3>1. PICK n \in Nat : taken[u] = FirstPost(u)..(FirstPost(u) + n - 1)
      BY DEF OrderOK
    <3>2. FirstPost(u) \in {0, 1}
      BY DEF FirstPost
    <3>3. FirstPost(u) + n - 1 \in taken[u]
      BY <2>2, <3>1, <3>2
    <3> QED
      BY <3>1, <3>2, <3>3
  <2>5. Between(u, i) /\ i \in 0..(Count(u) + 1)
    BY <1>4, <2>3, <2>4 DEF WholeOf
  <2> QED
    BY <2>2, <2>5 DEF Between, Opening, Underway, Over
<1> QED
  BY <1>1, <1>2, <1>3, <1>4

\* AnnouncedWhole: a file whose POSTs came one at a time and in order, with no other of its
\* note or session in between and without a failure, is announced once at most, with every
\* unit in its place and its own name and size (http_IM_parser.c:621-1802), for any number
\* of workers, uploads, parts and failures.
THEOREM AnnouncedIsWhole == Spec => []AnnouncedWhole
<1>1. ChatTypes /\ OrderOK /\ WholeOK => AnnouncedWhole
  <2> SUFFICES ASSUME ChatTypes, OrderOK, WholeOK, NEW u \in Ids \ disturbed,
                      \A v \in Met(u) : ~EndsFirstBlock(v)
               PROVE  /\ Cardinality(About(u)) <= 1
                      /\ \A k \in About(u) :
                          /\ announced[k].uid \in DOMAIN data /\ data[announced[k].uid] = Whole(u)
                          /\ uploads[u].kind # "Blog" =>
                                announced[k].fn = uploads[u].name /\ announced[k].fs = Size(u)
    BY DEF AnnouncedWhole
  <2>1. Regular(u)
    BY DEF Regular, Met
  <2>2. Told(u, {}) \/ Told(u, {u}) \/ About(u) = {}
    BY <2>1, WholeTells DEF WholeOK
  <2>3. \A k, l \in About(u) : k = l
    BY <2>2 DEF Told
  <2>4. Cardinality(About(u)) <= 1
    <3>1. CASE About(u) = {}
      BY <3>1, FS_EmptySet
    <3>2. ASSUME NEW k \in About(u) PROVE Cardinality(About(u)) <= 1
      <4>1. About(u) = {k}
        BY <2>3, <3>2
      <4>2. Cardinality({k}) = 1
        BY FS_Singleton
      <4> QED
        BY <4>1, <4>2
    <3> QED
      BY <3>1, <3>2
  <2> QED
    BY <2>2, <2>4 DEF Told, Holds
<1> QED
  BY <1>1, WholeAlways, PTL
=============================================================================
