----------------------------- MODULE Smtp_proofs -----------------------------
(***************************************************************************)
(* Proofs about the two SMTP models.  First the end of a mail's body, for  *)
(* bodies of any length, cut into segments in any way, and for any number  *)
(* of mails.  Then the session: its memory in the session table, its       *)
(* files, and what each mail is announced with, for any clients, servers,  *)
(* tables, names and interleavings of the two threads.                     *)
(***************************************************************************)
EXTENDS SmtpBody, SmtpSession, SessionTable_proofs

\* The five characters of the end mark stand at positions j to j + 4 of s.
MarkAt(s, j) ==
    /\ s[j] = "CR" /\ s[j + 1] = "LF" /\ s[j + 2] = "."
    /\ s[j + 3] = "CR" /\ s[j + 4] = "LF"

\* The first n characters of s end with CRLF, with CRLF dot.
EndsCRLF(s, n) == n >= 2 /\ s[n - 1] = "CR" /\ s[n] = "LF"

EndsCRLFDot(s, n) == n >= 3 /\ s[n - 2] = "CR" /\ s[n - 1] = "LF" /\ s[n] = "."

(***************************************************************************)
(* Sequences of characters, character by character                         *)
(***************************************************************************)

\* The strings that SeenDot looks for, character by character.
LEMMA Marks ==
  /\ CRLF \in Seq(Char) /\ Len(CRLF) = 2 /\ CRLF[1] = "CR" /\ CRLF[2] = "LF"
  /\ DotCRLF \in Seq(Char) /\ Len(DotCRLF) = 3
  /\ DotCRLF[1] = "." /\ DotCRLF[2] = "CR" /\ DotCRLF[3] = "LF"
  /\ CRLFDot \in Seq(Char) /\ Len(CRLFDot) = 3
  /\ CRLFDot[1] = "CR" /\ CRLFDot[2] = "LF" /\ CRLFDot[3] = "."
  BY DEF CRLF, DotCRLF, CRLFDot, Char

\* Two strings put together, character by character.
LEMMA Glue ==
  ASSUME NEW s \in Seq(Char), NEW t \in Seq(Char)
  PROVE  /\ s \o t \in Seq(Char)
         /\ Len(s \o t) = Len(s) + Len(t)
         /\ \A i \in 1..(Len(s) + Len(t)) :
                (s \o t)[i] = IF i <= Len(s) THEN s[i] ELSE t[i - Len(s)]
  BY ConcatProperties

\* The end mark, character by character.
LEMMA EndMarkChars ==
  EndMark \in Seq(Char) /\ Len(EndMark) = 5 /\ MarkAt(EndMark, 1)
  <1>1. CRLF \in Seq(Char) /\ DotCRLF \in Seq(Char) /\ Len(CRLF) = 2 /\ Len(DotCRLF) = 3
    BY Marks
  <1>2. /\ EndMark \in Seq(Char)
        /\ Len(EndMark) = Len(CRLF) + Len(DotCRLF)
        /\ \A i \in 1..(Len(CRLF) + Len(DotCRLF)) :
               EndMark[i] = IF i <= Len(CRLF) THEN CRLF[i] ELSE DotCRLF[i - Len(CRLF)]
    BY <1>1, Glue DEF EndMark
  <1>3. \A i \in 1..5 : EndMark[i] = IF i <= 2 THEN CRLF[i] ELSE DotCRLF[i - 2]
    BY <1>1, <1>2
  <1> QED
    BY <1>1, <1>2, <1>3, Marks DEF MarkAt

\* A piece of a string, character by character.
LEMMA Piece ==
  ASSUME NEW s \in Seq(Char), NEW m \in 1..(Len(s) + 1), NEW n \in (m - 1)..Len(s)
  PROVE  /\ SubSeq(s, m, n) \in Seq(Char)
         /\ Len(SubSeq(s, m, n)) = n - m + 1
         /\ \A i \in 1..(n - m + 1) : SubSeq(s, m, n)[i] = s[m + i - 1]
  <1>1. \A i \in m..n : s[i] \in Char
    BY LenProperties
  <1> QED
    BY <1>1, SubSeqProperties, LenProperties

\* To start with a string is to agree with it in its first characters.
LEMMA StartsChars ==
  ASSUME NEW s \in Seq(Char), NEW t \in Seq(Char), StartsWith(s, t)
  PROVE  Len(s) >= Len(t) /\ \A i \in 1..Len(t) : s[i] = t[i]
  <1>1. Len(s) \in Nat /\ Len(t) \in Nat /\ Len(s) >= Len(t)
    BY LenProperties DEF StartsWith
  <1>2. \A i \in 1..Len(t) : SubSeq(s, 1, Len(t))[i] = s[1 + i - 1]
    BY <1>1, Piece
  <1>3. SubSeq(s, 1, Len(t)) = t
    BY DEF StartsWith
  <1>4. ASSUME NEW i \in 1..Len(t) PROVE s[i] = t[i]
    <2>1. t[i] = s[1 + i - 1]
      BY <1>2, <1>3
    <2> QED
      BY <2>1, <1>1
  <1> QED
    BY <1>1, <1>4

\* To end with a string is to agree with it in its last characters.
LEMMA EndsChars ==
  ASSUME NEW s \in Seq(Char), NEW t \in Seq(Char), EndsWith(s, t)
  PROVE  Len(s) >= Len(t) /\ \A i \in 1..Len(t) : s[Len(s) - Len(t) + i] = t[i]
  <1>1. Len(s) \in Nat /\ Len(t) \in Nat /\ Len(s) >= Len(t)
    BY LenProperties DEF EndsWith
  <1> DEFINE m == Len(s) - Len(t) + 1
  <1>2. m \in 1..(Len(s) + 1) /\ Len(s) \in (m - 1)..Len(s) /\ Len(s) - m + 1 = Len(t)
    BY <1>1
  <1>3. \A i \in 1..Len(t) : SubSeq(s, m, Len(s))[i] = s[m + i - 1]
    BY <1>2, Piece
  <1>4. SubSeq(s, m, Len(s)) = t
    BY DEF EndsWith
  <1>5. ASSUME NEW i \in 1..Len(t) PROVE s[Len(s) - Len(t) + i] = t[i]
    <2>1. t[i] = s[m + i - 1]
      BY <1>3, <1>4
    <2>2. m + i - 1 = Len(s) - Len(t) + i
      BY <1>1
    <2> QED
      BY <2>1, <2>2
  <1> QED
    BY <1>1, <1>5

\* To end with CRLF.
LEMMA EndsCRLFChars ==
  ASSUME NEW s \in Seq(Char), EndsWith(s, CRLF)
  PROVE  EndsCRLF(s, Len(s))
  <1>1. CRLF \in Seq(Char) /\ Len(CRLF) = 2 /\ Len(s) \in Nat
    BY Marks, LenProperties
  <1>2. Len(s) >= Len(CRLF) /\ \A i \in 1..Len(CRLF) : s[Len(s) - Len(CRLF) + i] = CRLF[i]
    BY <1>1, EndsChars
  <1>3. Len(s) >= 2 /\ \A i \in 1..2 : s[Len(s) - 2 + i] = CRLF[i]
    BY <1>1, <1>2
  <1>4. s[Len(s) - 2 + 1] = CRLF[1] /\ s[Len(s) - 2 + 2] = CRLF[2]
    BY <1>3
  <1>5. Len(s) - 2 + 1 = Len(s) - 1 /\ Len(s) - 2 + 2 = Len(s)
    BY <1>1
  <1> QED
    BY <1>3, <1>4, <1>5, Marks DEF EndsCRLF

\* To end with CRLF and a dot.
LEMMA EndsCRLFDotChars ==
  ASSUME NEW s \in Seq(Char), EndsWith(s, CRLFDot)
  PROVE  EndsCRLFDot(s, Len(s))
  <1>1. CRLFDot \in Seq(Char) /\ Len(CRLFDot) = 3 /\ Len(s) \in Nat
    BY Marks, LenProperties
  <1>2. Len(s) >= Len(CRLFDot) /\ \A i \in 1..Len(CRLFDot) : s[Len(s) - Len(CRLFDot) + i] = CRLFDot[i]
    BY <1>1, EndsChars
  <1>3. Len(s) >= 3 /\ \A i \in 1..3 : s[Len(s) - 3 + i] = CRLFDot[i]
    BY <1>1, <1>2
  <1>4. /\ s[Len(s) - 3 + 1] = CRLFDot[1]
        /\ s[Len(s) - 3 + 2] = CRLFDot[2]
        /\ s[Len(s) - 3 + 3] = CRLFDot[3]
    BY <1>3
  <1>5. Len(s) - 3 + 1 = Len(s) - 2 /\ Len(s) - 3 + 2 = Len(s) - 1 /\ Len(s) - 3 + 3 = Len(s)
    BY <1>1
  <1> QED
    BY <1>3, <1>4, <1>5, Marks DEF EndsCRLFDot

\* To end with the end mark.
LEMMA EndsMarkChars ==
  ASSUME NEW s \in Seq(Char), EndsWith(s, EndMark)
  PROVE  Len(s) >= 5 /\ MarkAt(s, Len(s) - 4)
  <1>1. EndMark \in Seq(Char) /\ Len(EndMark) = 5 /\ Len(s) \in Nat
    BY EndMarkChars, LenProperties
  <1>2. Len(s) >= Len(EndMark) /\ \A i \in 1..Len(EndMark) : s[Len(s) - Len(EndMark) + i] = EndMark[i]
    BY <1>1, EndsChars
  <1>3. Len(s) >= 5 /\ \A i \in 1..5 : s[Len(s) - 5 + i] = EndMark[i]
    BY <1>1, <1>2
  <1>4. /\ s[Len(s) - 5 + 1] = EndMark[1]
        /\ s[Len(s) - 5 + 2] = EndMark[2]
        /\ s[Len(s) - 5 + 3] = EndMark[3]
        /\ s[Len(s) - 5 + 4] = EndMark[4]
        /\ s[Len(s) - 5 + 5] = EndMark[5]
    BY <1>3
  <1>5. /\ Len(s) - 5 + 1 = Len(s) - 4 /\ Len(s) - 5 + 2 = (Len(s) - 4) + 1
        /\ Len(s) - 5 + 3 = (Len(s) - 4) + 2 /\ Len(s) - 5 + 4 = (Len(s) - 4) + 3
        /\ Len(s) - 5 + 5 = (Len(s) - 4) + 4
    BY <1>1
  <1> QED
    BY <1>3, <1>4, <1>5, EndMarkChars DEF MarkAt

\* To start with CRLF.
LEMMA StartsCRLFChars ==
  ASSUME NEW s \in Seq(Char), StartsWith(s, CRLF)
  PROVE  Len(s) >= 2 /\ s[1] = "CR" /\ s[2] = "LF"
  <1>1. CRLF \in Seq(Char) /\ Len(CRLF) = 2
    BY Marks
  <1>2. Len(s) >= Len(CRLF) /\ \A i \in 1..Len(CRLF) : s[i] = CRLF[i]
    BY <1>1, StartsChars
  <1> QED
    BY <1>1, <1>2, Marks

\* To start with a dot, CRLF.
LEMMA StartsDotChars ==
  ASSUME NEW s \in Seq(Char), StartsWith(s, DotCRLF)
  PROVE  Len(s) >= 3 /\ s[1] = "." /\ s[2] = "CR" /\ s[3] = "LF"
  <1>1. DotCRLF \in Seq(Char) /\ Len(DotCRLF) = 3
    BY Marks
  <1>2. Len(s) >= Len(DotCRLF) /\ \A i \in 1..Len(DotCRLF) : s[i] = DotCRLF[i]
    BY <1>1, StartsChars
  <1> QED
    BY <1>1, <1>2, Marks

\* A body is a string.
LEMMA BodyIsSeq ==
  ASSUME NEW b \in Bodies
  PROVE  b \in Seq(Char)
  <1>1. PICK n \in Lengths : b \in [1..n -> Char]
    BY DEF Bodies
  <1>2. n \in Nat
    BY SmtpBodyAssumption
  <1> QED
    BY <1>1, <1>2

\* The end mark stands nowhere in a body but at its end.
LEMMA OnlyMark ==
  ASSUME NEW b \in Bodies, NEW j \in 1..(Len(b) - 4), MarkAt(b, j)
  PROVE  j + 4 = Len(b)
  <1>1. b \in Seq(Char) /\ Len(b) \in Nat
    BY BodyIsSeq, LenProperties
  <1> DEFINE line == CRLF \o b
             piece == SubSeq(line, j + 2, j + 6)
  <1>2. /\ line \in Seq(Char) /\ Len(line) = 2 + Len(b)
        /\ \A i \in 1..(2 + Len(b)) : line[i] = IF i <= 2 THEN CRLF[i] ELSE b[i - 2]
    <2>1. CRLF \in Seq(Char) /\ Len(CRLF) = 2
      BY Marks
    <2>2. /\ line \in Seq(Char)
          /\ Len(line) = Len(CRLF) + Len(b)
          /\ \A i \in 1..(Len(CRLF) + Len(b)) :
                 line[i] = IF i <= Len(CRLF) THEN CRLF[i] ELSE b[i - Len(CRLF)]
      BY <2>1, <1>1, Glue
    <2> HIDE DEF line
    <2> QED
      BY <2>1, <2>2
  <1>3. /\ piece \in Seq(Char) /\ Len(piece) = 5
        /\ \A i \in 1..5 : piece[i] = line[j + 2 + i - 1]
    <2>1. j + 2 \in 1..(Len(line) + 1) /\ j + 6 \in (j + 1)..Len(line)
      BY <1>1, <1>2
    <2>2. (j + 6) - (j + 2) + 1 = 5 /\ (j + 2) - 1 = j + 1
      OBVIOUS
    <2> HIDE DEF line
    <2> QED
      BY <2>1, <2>2, <1>2, Piece
  <1>4. \A i \in 1..5 : piece[i] = b[j + i - 1]
    <2> SUFFICES ASSUME NEW i \in 1..5 PROVE piece[i] = b[j + i - 1]
      OBVIOUS
    <2>1. j + 2 + i - 1 \in 1..(2 + Len(b)) /\ ~(j + 2 + i - 1 <= 2)
          /\ (j + 2 + i - 1) - 2 = j + i - 1
      BY <1>1
    <2> HIDE DEF line, piece
    <2> QED
      BY <2>1, <1>2, <1>3
  <1>5. \A i \in 1..5 : EndMark[i] = b[j + i - 1]
    BY EndMarkChars DEF MarkAt
  <1>6. piece = EndMark
    <2> HIDE DEF piece
    <2>1. Len(piece) = Len(EndMark) /\ \A i \in 1..Len(piece) : piece[i] = EndMark[i]
      BY <1>3, <1>4, <1>5, EndMarkChars
    <2>2. piece \in Seq(Char) /\ EndMark \in Seq(Char)
      BY <1>3, EndMarkChars
    <2> QED
      BY <2>1, <2>2, SeqEqual
  <1>7. \A i \in 1..(Len(line) - 5) : SubSeq(line, i, i + 4) # EndMark
    BY DEF Bodies
  <1>8. ~(j + 2 \in 1..(Len(line) - 5))
    <2> HIDE DEF line
    <2>1. (j + 2) + 4 = j + 6
      OBVIOUS
    <2> QED
      BY <1>6, <1>7, <2>1
  <1> QED
    BY <1>1, <1>2, <1>8

(***************************************************************************)
(* What crlf_seen remembers is what stands at the end of the mail's file   *)
(***************************************************************************)

\* What is in the file is what has been sent, and the byte tells how that ends.
BodyInv ==
    /\ body \in Seq(Char) /\ sent \in 0..Len(body) /\ dot_seen \in BOOLEAN
    /\ stored = SubSeq(body, 1, sent)
    /\ dot_seen => sent = Len(body)
    /\ data_store_flag = "START" =>
           /\ body \in Bodies /\ ~dot_seen
           /\ crlf_seen = 85 => EndsCRLF(body, sent)
           /\ crlf_seen = 170 => EndsCRLFDot(body, sent)

\* A segment at which seen_dot sees the end is the last one.
LEMMA EndIsEnd ==
  ASSUME BodyInv, data_store_flag = "START", NEW k \in Nat \ {0}, sent + k <= Len(body),
         SeenDot(SubSeq(body, sent + 1, sent + k), crlf_seen)
  PROVE  sent + k = Len(body)
  <1> DEFINE s == SubSeq(body, sent + 1, sent + k)
  <1>1. body \in Bodies /\ body \in Seq(Char) /\ Len(body) \in Nat /\ sent \in 0..Len(body)
    BY LenProperties DEF BodyInv
  <1>2. s \in Seq(Char) /\ Len(s) = k /\ \A i \in 1..k : s[i] = body[sent + i]
    <2>1. sent + 1 \in 1..(Len(body) + 1) /\ sent + k \in (sent + 1 - 1)..Len(body)
          /\ (sent + k) - (sent + 1) + 1 = k
      BY <1>1
    <2>2. /\ s \in Seq(Char) /\ Len(s) = k
          /\ \A i \in 1..k : s[i] = body[sent + 1 + i - 1]
      BY <2>1, <1>1, Piece
    <2>3. \A i \in 1..k : sent + 1 + i - 1 = sent + i
      BY <1>1
    <2> HIDE DEF s
    <2> QED
      BY <2>2, <2>3
  <1> HIDE DEF s
  <1>3. CASE EndsWith(s, EndMark)
    <2>1. Len(s) >= 5 /\ MarkAt(s, Len(s) - 4)
      BY <1>2, <1>3, EndsMarkChars
    <2>2. k >= 5 /\ MarkAt(s, k - 4)
      BY <1>2, <2>1
    <2>3. /\ k - 4 \in 1..k /\ k - 4 + 1 \in 1..k /\ k - 4 + 2 \in 1..k
          /\ k - 4 + 3 \in 1..k /\ k - 4 + 4 \in 1..k
      BY <2>2
    <2>4. MarkAt(body, sent + k - 4)
      <3>1. /\ sent + (k - 4) = sent + k - 4 /\ sent + (k - 4 + 1) = (sent + k - 4) + 1
            /\ sent + (k - 4 + 2) = (sent + k - 4) + 2
            /\ sent + (k - 4 + 3) = (sent + k - 4) + 3
            /\ sent + (k - 4 + 4) = (sent + k - 4) + 4
        BY <1>1
      <3>2. /\ s[k - 4] = body[sent + (k - 4)] /\ s[k - 4 + 1] = body[sent + (k - 4 + 1)]
            /\ s[k - 4 + 2] = body[sent + (k - 4 + 2)]
            /\ s[k - 4 + 3] = body[sent + (k - 4 + 3)]
            /\ s[k - 4 + 4] = body[sent + (k - 4 + 4)]
        BY <2>3, <1>2
      <3> QED
        BY <2>2, <3>1, <3>2 DEF MarkAt
    <2>5. sent + k - 4 \in 1..(Len(body) - 4)
      BY <1>1, <2>2
    <2> QED
      BY <1>1, <2>4, <2>5, OnlyMark
  <1>4. CASE crlf_seen = 170 /\ StartsWith(s, CRLF)
    <2>1. k >= 2 /\ s[1] = "CR" /\ s[2] = "LF"
      BY <1>2, <1>4, StartsCRLFChars
    <2>2. body[sent + 1] = "CR" /\ body[sent + 2] = "LF"
      BY <2>1, <1>2
    <2>3. EndsCRLFDot(body, sent)
      BY <1>4 DEF BodyInv
    <2>4. MarkAt(body, sent - 2) /\ sent - 2 \in 1..(Len(body) - 4)
      BY <2>1, <2>2, <2>3, <1>1 DEF MarkAt, EndsCRLFDot
    <2> QED
      BY <1>1, <2>1, <2>4, OnlyMark
  <1>5. CASE crlf_seen = 85 /\ StartsWith(s, DotCRLF)
    <2>1. k >= 3 /\ s[1] = "." /\ s[2] = "CR" /\ s[3] = "LF"
      BY <1>2, <1>5, StartsDotChars
    <2>2. body[sent + 1] = "." /\ body[sent + 2] = "CR" /\ body[sent + 3] = "LF"
      BY <2>1, <1>2
    <2>3. EndsCRLF(body, sent)
      BY <1>5 DEF BodyInv
    <2>4. MarkAt(body, sent - 1) /\ sent - 1 \in 1..(Len(body) - 4)
      BY <2>1, <2>2, <2>3, <1>1 DEF MarkAt, EndsCRLF
    <2> QED
      BY <1>1, <2>1, <2>4, OnlyMark
  <1> QED
    BY <1>3, <1>4, <1>5 DEF SeenDot, s

\* What crlf_seen is set to after a segment stands at its end.
LEMMA ByteRemembers ==
  ASSUME NEW s \in Seq(Char), NEW seen, ~SeenDot(s, seen)
  PROVE  /\ CrlfSeen(s, seen) = 85  => EndsCRLF(s, Len(s))
         /\ CrlfSeen(s, seen) = 170 => EndsCRLFDot(s, Len(s))
  <1>1. CrlfSeen(s, seen) = 85 => EndsWith(s, CRLF)
    BY DEF CrlfSeen
  <1>2. CrlfSeen(s, seen) = 170 => EndsWith(s, CRLFDot)
    BY DEF CrlfSeen
  <1> QED
    BY <1>1, <1>2, EndsCRLFChars, EndsCRLFDotChars

(***************************************************************************)
(* The mails of a session                                                  *)
(***************************************************************************)

\* Whole bodies are announced, one for each mail but the one that is coming.
AnnouncedInv ==
    /\ begun \in Nat /\ data_store_flag \in {"START", "END"}
    /\ data_store_flag = "START" => begun >= 1
    /\ announced \in Seq(Bodies)
    /\ Len(announced) = begun - (IF data_store_flag = "START" THEN 1 ELSE 0)

\* The inductive invariant of SmtpBody.
MailInv == BodyInv /\ AnnouncedInv

\* All of a string, and nothing, are pieces of it.
LEMMA WholePiece ==
  ASSUME NEW b \in Seq(Char)
  PROVE  SubSeq(b, 1, Len(b)) = b /\ SubSeq(b, 1, 0) = <<>>
  <1>1. Len(b) \in Nat /\ Len(b) \in (1 - 1)..Len(b) /\ 1 \in 1..(Len(b) + 1)
    BY LenProperties
  <1> DEFINE c == SubSeq(b, 1, Len(b))
  <1>2. /\ c \in Seq(Char) /\ Len(c) = Len(b) - 1 + 1
        /\ \A i \in 1..(Len(b) - 1 + 1) : c[i] = b[1 + i - 1]
    BY <1>1, Piece
  <1> HIDE DEF c
  <1>3. Len(c) = Len(b) /\ \A i \in 1..Len(c) : c[i] = b[i]
    BY <1>1, <1>2
  <1>4. c = b
    BY <1>2, <1>3, SeqEqual
  <1> QED
    BY <1>4, SubSeqEmpty DEF c

\* A piece and the piece behind it make a piece.
LEMMA GrownPiece ==
  ASSUME NEW b \in Seq(Char), NEW n \in 0..Len(b), NEW k \in Nat \ {0}, n + k <= Len(b)
  PROVE  SubSeq(b, 1, n) \o SubSeq(b, n + 1, n + k) = SubSeq(b, 1, n + k)
  <1> DEFINE s == SubSeq(b, 1, n)
             t == SubSeq(b, n + 1, n + k)
             u == SubSeq(b, 1, n + k)
  <1>1. Len(b) \in Nat
    BY LenProperties
  <1>2. s \in Seq(Char) /\ Len(s) = n /\ \A i \in 1..n : s[i] = b[i]
    <2>1. 1 \in 1..(Len(b) + 1) /\ n \in (1 - 1)..Len(b) /\ n - 1 + 1 = n
      BY <1>1
    <2>2. s \in Seq(Char) /\ Len(s) = n - 1 + 1 /\ \A i \in 1..(n - 1 + 1) : s[i] = b[1 + i - 1]
      BY <2>1, Piece
    <2> HIDE DEF s
    <2> QED
      BY <2>1, <2>2
  <1>3. t \in Seq(Char) /\ Len(t) = k /\ \A i \in 1..k : t[i] = b[n + i]
    <2>1. n + 1 \in 1..(Len(b) + 1) /\ n + k \in ((n + 1) - 1)..Len(b)
          /\ (n + k) - (n + 1) + 1 = k
      BY <1>1
    <2>2. t \in Seq(Char) /\ Len(t) = k /\ \A i \in 1..k : t[i] = b[n + 1 + i - 1]
      BY <2>1, Piece
    <2>3. \A i \in 1..k : n + 1 + i - 1 = n + i
      OBVIOUS
    <2> HIDE DEF t
    <2> QED
      BY <2>2, <2>3
  <1>4. u \in Seq(Char) /\ Len(u) = n + k /\ \A i \in 1..(n + k) : u[i] = b[i]
    <2>1. 1 \in 1..(Len(b) + 1) /\ n + k \in (1 - 1)..Len(b) /\ n + k - 1 + 1 = n + k
      BY <1>1
    <2>2. /\ u \in Seq(Char) /\ Len(u) = n + k - 1 + 1
          /\ \A i \in 1..(n + k - 1 + 1) : u[i] = b[1 + i - 1]
      BY <2>1, Piece
    <2> HIDE DEF u
    <2> QED
      BY <2>1, <2>2
  <1> HIDE DEF s, t, u
  <1>5. /\ s \o t \in Seq(Char) /\ Len(s \o t) = Len(s) + Len(t)
        /\ \A i \in 1..(Len(s) + Len(t)) :
               (s \o t)[i] = IF i <= Len(s) THEN s[i] ELSE t[i - Len(s)]
    BY <1>2, <1>3, Glue
  <1> DEFINE v == s \o t
  <1> HIDE DEF v
  <1>6. v \in Seq(Char) /\ Len(v) = n + k
        /\ \A i \in 1..(n + k) : v[i] = IF i <= n THEN s[i] ELSE t[i - n]
    BY <1>2, <1>3, <1>5 DEF v
  <1>7. \A i \in 1..(n + k) : v[i] = b[i]
    <2> SUFFICES ASSUME NEW i \in 1..(n + k) PROVE v[i] = b[i]
      OBVIOUS
    <2>1. CASE i <= n
      BY <2>1, <1>2, <1>6
    <2>2. CASE ~(i <= n)
      <3>1. i - n \in 1..k /\ n + (i - n) = i
        BY <2>2
      <3> QED
        BY <2>2, <3>1, <1>3, <1>6
    <2> QED
      BY <2>1, <2>2
  <1>8. v = u
    BY <1>4, <1>6, <1>7, SeqEqual
  <1> QED
    BY <1>8 DEF s, t, u, v

\* No mail has begun.
LEMMA MailInvInit == BodyInit => MailInv
  <1> SUFFICES ASSUME BodyInit PROVE MailInv
    OBVIOUS
  <1>1. <<>> \in Seq(Char) /\ Len(<<>>) = 0 /\ <<>> \in Seq(Bodies)
    BY EmptySeq
  <1>2. SubSeq(<<>>, 1, 0) = <<>>
    BY <1>1, WholePiece
  <1>3. body = <<>> /\ sent = 0 /\ stored = <<>> /\ dot_seen = FALSE
    BY DEF BodyInit
  <1>4. body \in Seq(Char) /\ sent \in 0..Len(body) /\ stored = SubSeq(body, 1, sent)
    BY <1>1, <1>2, <1>3
  <1>5. BodyInv
    BY <1>3, <1>4 DEF BodyInit, BodyInv
  <1>6. AnnouncedInv
    BY <1>1 DEF BodyInit, AnnouncedInv
  <1> QED
    BY <1>5, <1>6 DEF MailInv

\* The invariant is kept by the beginning of a mail and by every segment.
LEMMA MailInvStep == MailInv /\ [BodyNext]_bodyVars => MailInv'
  <1> SUFFICES ASSUME MailInv, [BodyNext]_bodyVars PROVE MailInv'
    OBVIOUS
  <1>1. CASE Begin
    <2>1. body' \in Seq(Char) /\ Len(body') \in Nat /\ body' \in Bodies
      BY <1>1, BodyIsSeq, LenProperties DEF Begin
    <2>2. stored' = SubSeq(body', 1, sent')
      BY <1>1, <2>1, WholePiece DEF Begin
    <2>3. sent' \in 0..Len(body') /\ dot_seen' = FALSE /\ crlf_seen' # 85 /\ crlf_seen' # 170
      BY <1>1, <2>1 DEF Begin
    <2>4. BodyInv'
      BY <2>1, <2>2, <2>3 DEF BodyInv
    <2>5. AnnouncedInv'
      BY <1>1 DEF Begin, MailInv, AnnouncedInv
    <2> QED
      BY <2>4, <2>5 DEF MailInv
  <1>2. CASE Segment
    <2> DEFINE s(k) == SubSeq(body, sent + 1, sent + k)
    <2>1. PICK k \in 1..MaxSegment :
             /\ sent + k <= Len(body)
             /\ sent' = sent + k
             /\ stored' = stored \o s(k)
             /\ crlf_seen' = CrlfSeen(s(k), crlf_seen)
             /\ dot_seen' = (dot_seen \/ SeenDot(s(k), crlf_seen))
             /\ announced' = IF SeenDot(s(k), crlf_seen) THEN Append(announced, stored')
                             ELSE announced
             /\ data_store_flag' = IF dot_seen' THEN "END" ELSE data_store_flag
      BY <1>2 DEF Segment
    <2>2. /\ data_store_flag = "START" /\ ~dot_seen /\ body \in Bodies /\ body \in Seq(Char)
          /\ Len(body) \in Nat /\ sent \in 0..Len(body) /\ k \in Nat \ {0}
          /\ body' = body /\ begun' = begun /\ begun \in Nat /\ begun >= 1
      BY <1>2, SmtpBodyAssumption, LenProperties DEF Segment, MailInv, BodyInv, AnnouncedInv
    <2>3. stored' = SubSeq(body, 1, sent + k)
      BY <2>1, <2>2, GrownPiece DEF MailInv, BodyInv
    <2>4. sent' \in 0..Len(body)
      BY <2>1, <2>2
    <2>5. CASE SeenDot(s(k), crlf_seen)
      <3>1. sent' = Len(body)
        BY <2>1, <2>2, <2>5, EndIsEnd DEF MailInv
      <3>2. stored' = body
        BY <3>1, <2>1, <2>2, <2>3, WholePiece
      <3>3. dot_seen' = TRUE /\ data_store_flag' = "END" /\ announced' = Append(announced, body)
        BY <2>1, <2>5, <3>2
      <3>4. BodyInv'
        BY <2>1, <2>2, <2>3, <2>4, <3>1, <3>3 DEF BodyInv
      <3>5. announced' \in Seq(Bodies) /\ Len(announced') = Len(announced) + 1
        BY <2>2, <3>3, AppendProperties DEF MailInv, AnnouncedInv
      <3>6. AnnouncedInv'
        BY <2>2, <3>3, <3>5 DEF MailInv, AnnouncedInv
      <3> QED
        BY <3>4, <3>6 DEF MailInv
    <2>6. CASE ~SeenDot(s(k), crlf_seen)
      <3>1. dot_seen' = FALSE /\ data_store_flag' = "START" /\ announced' = announced
        BY <2>1, <2>2, <2>6
      <3>2. s(k) \in Seq(Char) /\ Len(s(k)) = k /\ \A i \in 1..k : s(k)[i] = body[sent + i]
        <4>1. sent + 1 \in 1..(Len(body) + 1) /\ sent + k \in ((sent + 1) - 1)..Len(body)
              /\ (sent + k) - (sent + 1) + 1 = k
          BY <2>1, <2>2
        <4>2. /\ s(k) \in Seq(Char) /\ Len(s(k)) = k
              /\ \A i \in 1..k : s(k)[i] = body[sent + 1 + i - 1]
          BY <4>1, <2>2, Piece
        <4>3. \A i \in 1..k : sent + 1 + i - 1 = sent + i
          BY <2>2
        <4> HIDE DEF s
        <4> QED
          BY <4>2, <4>3
      <3> HIDE DEF s
      <3>3. /\ crlf_seen' = 85  => EndsCRLF(s(k), k)
            /\ crlf_seen' = 170 => EndsCRLFDot(s(k), k)
        BY <2>1, <2>6, <3>2, ByteRemembers
      <3>4. crlf_seen' = 85 => EndsCRLF(body, sent + k)
        <4> SUFFICES ASSUME EndsCRLF(s(k), k) PROVE EndsCRLF(body, sent + k)
          BY <3>3
        <4>1. k >= 2 /\ k - 1 \in 1..k /\ k \in 1..k /\ sent + (k - 1) = sent + k - 1
          BY <2>2 DEF EndsCRLF
        <4>2. s(k)[k - 1] = body[sent + (k - 1)] /\ s(k)[k] = body[sent + k]
          BY <4>1, <3>2
        <4> QED
          BY <2>2, <4>1, <4>2 DEF EndsCRLF
      <3>5. crlf_seen' = 170 => EndsCRLFDot(body, sent + k)
        <4> SUFFICES ASSUME EndsCRLFDot(s(k), k) PROVE EndsCRLFDot(body, sent + k)
          BY <3>3
        <4>1. /\ k >= 3 /\ k - 2 \in 1..k /\ k - 1 \in 1..k /\ k \in 1..k
              /\ sent + (k - 2) = sent + k - 2 /\ sent + (k - 1) = sent + k - 1
          BY <2>2 DEF EndsCRLFDot
        <4>2. /\ s(k)[k - 2] = body[sent + (k - 2)] /\ s(k)[k - 1] = body[sent + (k - 1)]
              /\ s(k)[k] = body[sent + k]
          BY <4>1, <3>2
        <4> QED
          BY <2>2, <4>1, <4>2 DEF EndsCRLFDot
      <3>6. BodyInv'
        BY <2>1, <2>2, <2>3, <2>4, <3>1, <3>4, <3>5 DEF BodyInv
      <3>7. AnnouncedInv'
        BY <2>2, <3>1 DEF MailInv, AnnouncedInv
      <3> QED
        BY <3>6, <3>7 DEF MailInv
    <2> QED
      BY <2>5, <2>6
  <1>3. CASE UNCHANGED bodyVars
    BY <1>3 DEF bodyVars, MailInv, BodyInv, AnnouncedInv
  <1> QED
    BY <1>1, <1>2, <1>3 DEF BodyNext

\* MailInv is inductive.
LEMMA MailInvHolds == BodySpec => []MailInv
  BY MailInvInit, MailInvStep, PTL DEF BodySpec

\* NeverEarly: whatever the bodies say and however they are cut, seen_dot reports the
\* end of a mail only when all of the mail is in its file.
THEOREM MailNeverEarly == BodySpec => []NeverEarly
  <1>1. MailInv => NeverEarly
    BY WholePiece DEF MailInv, BodyInv, NeverEarly
  <1> QED
    BY <1>1, MailInvHolds, PTL

\* OnceEach: the mails put into the session ring are whole bodies, one for each mail
\* the session has begun, but for the one that is still coming.
THEOREM MailOnceEach == BodySpec => []OnceEach
  <1>1. MailInv => OnceEach
    <2> SUFFICES ASSUME MailInv PROVE OnceEach
      OBVIOUS
    <2>1. \A i \in DOMAIN announced : announced[i] \in Bodies
      BY LenProperties, ElementOfSeq DEF MailInv, AnnouncedInv
    <2> QED
      BY <2>1 DEF MailInv, AnnouncedInv, OnceEach
  <1> QED
    BY <1>1, MailInvHolds, PTL

(***************************************************************************)
(* The cuts that seen_dot knows                                            *)
(***************************************************************************)

\* While the end has not been seen the byte tells how the last segment ended, the last
\* segment did not end with the mark, and the last two did not make one in a known way.
CutInv ==
    /\ MailInv /\ BodyTypeOK
    /\ data_store_flag = "START" =>
          /\ EndsWith(last_two[2], CRLFDot) => crlf_seen = 170
          /\ EndsWith(last_two[2], CRLF) => crlf_seen = 85
          /\ ~EndsWith(last_two[2], EndMark)
          /\ ~(EndsWith(last_two[1], CRLFDot) /\ last_two[2] = CRLF)
          /\ ~(EndsWith(last_two[1], CRLF) /\ last_two[2] = DotCRLF)

\* The two pieces that complete a mark are seen for what they are.
LEMMA CompletesMark == SeenDot(CRLF, 170) /\ SeenDot(DotCRLF, 85)
  <1>1. StartsWith(CRLF, CRLF) /\ StartsWith(DotCRLF, DotCRLF)
    BY Marks, WholePiece DEF StartsWith
  <1>2. ~EndsWith(CRLF, CRLFDot)
    BY Marks DEF EndsWith
  <1>3. ~EndsWith(DotCRLF, CRLFDot)
    BY Marks, EndsCRLFDotChars DEF EndsCRLFDot
  <1> QED
    BY <1>1, <1>2, <1>3 DEF SeenDot

\* The byte is set by every segment that ends with CRLF or CRLF dot, and never both ways.
LEMMA ByteSet ==
  ASSUME NEW s \in Seq(Char), NEW seen \in {0, 85, 170}, ~SeenDot(s, seen)
  PROVE  /\ EndsWith(s, CRLFDot) => CrlfSeen(s, seen) = 170
         /\ EndsWith(s, CRLF) => CrlfSeen(s, seen) = 85
         /\ CrlfSeen(s, seen) \in {0, 85, 170}
  <1>1. ~(EndsWith(s, CRLF) /\ EndsWith(s, CRLFDot))
    BY EndsCRLFChars, EndsCRLFDotChars DEF EndsCRLF, EndsCRLFDot
  <1> QED
    BY <1>1 DEF CrlfSeen

\* Nothing ends with a string that is not empty.
LEMMA NothingEnds ==
  ~EndsWith(<<>>, CRLF) /\ ~EndsWith(<<>>, CRLFDot) /\ ~EndsWith(<<>>, EndMark)
  <1>1. Len(<<>>) = 0
    OBVIOUS
  <1> QED
    BY <1>1, Marks, EndMarkChars DEF EndsWith

\* The beginning of a mail and every segment keep it.
LEMMA CutInvStep == CutInv /\ [BodyNext]_bodyVars => CutInv'
  <1> SUFFICES ASSUME CutInv, [BodyNext]_bodyVars PROVE CutInv'
    OBVIOUS
  <1>1. MailInv /\ MailInv' /\ BodyTypeOK
    BY MailInvStep DEF CutInv
  <1>2. CASE Begin
    <2>1. last_two'[1] = <<>> /\ last_two'[2] = <<>>
      BY <1>2 DEF Begin
    <2>2. <<>> # CRLF /\ <<>> # DotCRLF
      BY DEF CRLF, DotCRLF
    <2>3. BodyTypeOK'
      BY <1>1, <1>2, SmtpBodyAssumption DEF Begin, BodyTypeOK, MailInv, BodyInv
    <2> QED
      BY <1>1, <2>1, <2>2, <2>3, NothingEnds DEF CutInv
  <1>3. CASE Segment
    <2> PICK k, s :
          /\ k \in 1..MaxSegment /\ s = SubSeq(body, sent + 1, sent + k) /\ sent + k <= Len(body)
          /\ sent' = sent + k /\ last_two' = <<last_two[2], s>>
          /\ crlf_seen' = CrlfSeen(s, crlf_seen)
          /\ dot_seen' = (dot_seen \/ SeenDot(s, crlf_seen))
          /\ data_store_flag' = IF dot_seen' THEN "END" ELSE data_store_flag
      BY <1>3 DEF Segment
    <2>1. /\ data_store_flag = "START" /\ dot_seen = FALSE /\ UNCHANGED <<body, begun>>
          /\ body \in Seq(Char) /\ Len(body) \in Nat /\ sent \in 0..Len(body) /\ k \in Nat \ {0}
      BY <1>1, <1>3, SmtpBodyAssumption, LenProperties DEF Segment, MailInv, BodyInv
    <2>2. s \in Seq(Char)
      <3>1. sent + 1 \in 1..(Len(body) + 1) /\ sent + k \in ((sent + 1) - 1)..Len(body)
        BY <2>1
      <3> QED
        BY <2>1, <3>1, Piece
    <2>3. BodyTypeOK'
      <3>1. Len(announced') <= MaxMails
        <4>1. Len(announced') = begun' - (IF data_store_flag' = "START" THEN 1 ELSE 0)
          BY <1>1 DEF MailInv, AnnouncedInv
        <4> QED
          BY <1>1, <2>1, <4>1, SmtpBodyAssumption DEF BodyTypeOK
      <3>2. crlf_seen' \in {0, 85, 170}
        BY <1>1 DEF BodyTypeOK, CrlfSeen
      <3>3. data_store_flag' \in {"START", "END"} /\ sent' \in 0..Len(body) /\ dot_seen' \in BOOLEAN
        BY <1>1 DEF MailInv, BodyInv, AnnouncedInv
      <3> QED
        BY <1>1, <2>1, <3>1, <3>2, <3>3 DEF BodyTypeOK
    <2>4. ASSUME data_store_flag' = "START"
          PROVE  /\ EndsWith(last_two'[2], CRLFDot) => crlf_seen' = 170
                 /\ EndsWith(last_two'[2], CRLF) => crlf_seen' = 85
                 /\ ~EndsWith(last_two'[2], EndMark)
                 /\ ~(EndsWith(last_two'[1], CRLFDot) /\ last_two'[2] = CRLF)
                 /\ ~(EndsWith(last_two'[1], CRLF) /\ last_two'[2] = DotCRLF)
      <3>1. ~SeenDot(s, crlf_seen) /\ last_two'[1] = last_two[2] /\ last_two'[2] = s
        BY <2>4
      <3>2. /\ EndsWith(last_two[2], CRLFDot) => crlf_seen = 170
            /\ EndsWith(last_two[2], CRLF) => crlf_seen = 85
        BY <2>1 DEF CutInv
      <3>3. ~EndsWith(s, EndMark)
        BY <3>1 DEF SeenDot
      <3>4. /\ EndsWith(s, CRLFDot) => crlf_seen' = 170
            /\ EndsWith(s, CRLF) => crlf_seen' = 85
        BY <1>1, <2>2, <3>1, ByteSet, ZenonT(60) DEF BodyTypeOK
      <3>5. ~(EndsWith(last_two[2], CRLFDot) /\ s = CRLF) /\ ~(EndsWith(last_two[2], CRLF) /\ s = DotCRLF)
        BY <3>1, <3>2, CompletesMark
      <3> QED
        BY <3>1, <3>3, <3>4, <3>5
    <2> QED
      BY <1>1, <2>3, <2>4 DEF CutInv
  <1>4. CASE UNCHANGED bodyVars
    BY <1>1, <1>4 DEF bodyVars, CutInv, BodyTypeOK
  <1> QED
    BY <1>2, <1>3, <1>4 DEF BodyNext

\* KnownCutsSeen: a mark that is not cut, or cut before its last CRLF or after its first,
\* is recognised, whatever the body and the cuts before.
THEOREM MailKnownCuts == BodySpec => []KnownCutsSeen
  <1>1. BodyInit => CutInv
    <2> SUFFICES ASSUME BodyInit PROVE CutInv
      OBVIOUS
    <2>1. MailInv
      BY MailInvInit
    <2>2. /\ body = <<>> /\ sent = 0 /\ begun = 0 /\ announced = <<>>
          /\ data_store_flag = "END" /\ crlf_seen = 0 /\ dot_seen = FALSE
      BY DEF BodyInit
    <2>3. sent \in 0..Len(body) /\ Len(announced) = 0
      BY <2>2
    <2>4. 0 <= MaxMails /\ begun \in 0..MaxMails /\ Len(announced) <= MaxMails
      BY <2>2, <2>3, SmtpBodyAssumption
    <2>5. BodyTypeOK
      BY <2>2, <2>3, <2>4 DEF BodyTypeOK
    <2> QED
      BY <2>1, <2>2, <2>5 DEF CutInv
  <1>2. CutInv => KnownCutsSeen
    BY DEF CutInv, KnownCutsSeen, Sent
  <1> QED
    BY <1>1, <1>2, CutInvStep, PTL DEF BodySpec

-----------------------------------------------------------------------------
(* Blocks of a chain of mails *)

\* A SmtpSession_t.
Mail == [mail_from : Nat, rcpt_to : Seq(Nat), mail_body_name : Nat,
         mail_body_dir : BOOLEAN, result_json : BOOLEAN, starttls : BOOLEAN,
         data_store_flag : {"WAIT", "START", "END"}, data_seen : BOOLEAN, bdat_seen : BOOLEAN,
         dot_seen : BOOLEAN, quit_seen : BOOLEAN, bdat_total_len : Nat,
         bdat_read_len : Nat, bdat_last : BOOLEAN, session_quit_flag : BOOLEAN]

\* A mail holds at least the block of its own struct.
LEMMA BlocksNat == ASSUME NEW m \in Mail PROVE BlocksOfMail(m) \in Nat \ {0}
<1>1. m.rcpt_to \in Seq(Nat) /\ Len(m.rcpt_to) \in Nat
  BY DEF Mail
<1>2. \A x \in BOOLEAN : One(x) \in Nat
  BY DEF One
<1>3. /\ One(m.mail_from # NULL) \in Nat /\ One(m.mail_body_name # NULL) \in Nat
      /\ One(m.mail_body_dir) \in Nat /\ One(m.result_json) \in Nat
  BY DEF One
<1> QED
  BY <1>1, <1>3, SMTT(60) DEF BlocksOfMail

\* BlocksUpTo is what its equation says if anything is.
LEMMA BlocksUpToIs ==
    ASSUME NEW mails, NEW f,
           f = [n \in 0..Len(mails) |-> IF n = 0 THEN 0 ELSE f[n - 1] + BlocksOfMail(mails[n])]
    PROVE  BlocksUpTo(mails) = [n \in 0..Len(mails) |->
              IF n = 0 THEN 0 ELSE BlocksUpTo(mails)[n - 1] + BlocksOfMail(mails[n])]
<1> DEFINE P(g) == g = [n \in 0..Len(mails) |-> IF n = 0 THEN 0 ELSE g[n - 1] + BlocksOfMail(mails[n])]
<1>1. BlocksUpTo(mails) = CHOOSE g : P(g)
  BY DEF BlocksUpTo
<1>2. P(f)
  OBVIOUS
<1>3. P(CHOOSE g : P(g))
  <2> HIDE DEF P
  <2> QED
    BY <1>2
<1> QED
  BY <1>1, <1>3

\* The recursive function that counts the blocks of a chain of mails exists.
LEMMA BlocksExist ==
    ASSUME NEW mails \in Seq(Mail)
    PROVE  \E f : f = [n \in 0..Len(mails) |-> IF n = 0 THEN 0 ELSE f[n - 1] + BlocksOfMail(mails[n])]
<1>1. PICK L \in Nat : L = Len(mails)
  OBVIOUS
<1>2. PICK B : B = [n \in 1..L |-> BlocksOfMail(mails[n])]
  OBVIOUS
<1>3. PICK S : S = {k \in 0..L : \E f : f = [n \in 0..k |-> IF n = 0 THEN 0 ELSE f[n - 1] + B[n]]}
  OBVIOUS
<1>4. 0 \in S
  <2>1. PICK f : f = [n \in 0..0 |-> 0]
    OBVIOUS
  <2>2. f = [n \in 0..0 |-> IF n = 0 THEN 0 ELSE f[n - 1] + B[n]]
    BY <2>1
  <2> QED
    BY <1>1, <1>3, <2>2
<1>5. ASSUME NEW k \in 1..L, k - 1 \in S PROVE k \in S
  <2>1. PICK f : f = [n \in 0..(k - 1) |-> IF n = 0 THEN 0 ELSE f[n - 1] + B[n]]
    BY <1>3, <1>5
  <2>2. PICK g : g = [n \in 0..k |-> IF n = k THEN f[k - 1] + B[k] ELSE f[n]]
    OBVIOUS
  <2>3. \A n \in 0..k : g[n] = IF n = 0 THEN 0 ELSE g[n - 1] + B[n]
    <3> TAKE n \in 0..k
    <3>1. CASE n = k
      <4>1. k - 1 \in 0..k /\ k - 1 # k /\ k # 0
        BY <1>1, <1>5
      <4> QED
        BY <2>2, <3>1, <4>1
    <3>2. CASE n # k
      <4>1. n \in 0..(k - 1) /\ (n # 0 => n - 1 \in 0..(k - 1) /\ n - 1 # k /\ n - 1 \in 0..k)
        BY <1>1, <1>5, <3>2
      <4>2. f[n] = IF n = 0 THEN 0 ELSE f[n - 1] + B[n]
        BY <2>1, <4>1
      <4> QED
        BY <2>2, <3>2, <4>1, <4>2
    <3> QED
      BY <3>1, <3>2
  <2>4. g = [n \in 0..k |-> IF n = 0 THEN 0 ELSE g[n - 1] + B[n]]
    BY <2>2, <2>3
  <2>5. k \in 0..L
    BY <1>1, <1>5
  <2> QED
    BY <1>3, <2>4, <2>5
<1>6. \A k \in 0..L : k \in S
  BY <1>1, <1>4, <1>5, UpTo
<1>7. PICK f : f = [n \in 0..L |-> IF n = 0 THEN 0 ELSE f[n - 1] + B[n]]
  BY <1>1, <1>3, <1>6
<1>8. \A n \in 0..L : f[n] = IF n = 0 THEN 0 ELSE f[n - 1] + BlocksOfMail(mails[n])
  <2>1. \A n \in 0..L : f[n] = IF n = 0 THEN 0 ELSE f[n - 1] + B[n]
    BY <1>7
  <2>2. \A n \in 0..L : n # 0 => B[n] = BlocksOfMail(mails[n])
    BY <1>1, <1>2
  <2> QED
    BY <2>1, <2>2
<1>9. f = [n \in 0..L |-> f[n]]
  BY <1>7
<1>10. f = [n \in 0..L |-> IF n = 0 THEN 0 ELSE f[n - 1] + BlocksOfMail(mails[n])]
  BY <1>8, <1>9
<1> QED
  BY <1>1, <1>10

\* The recursion, and that it yields numbers.
LEMMA BlocksRule ==
    ASSUME NEW s \in Seq(Mail)
    PROVE  /\ BlocksUpTo(s)[0] = 0
           /\ \A n \in 1..Len(s) : BlocksUpTo(s)[n] = BlocksUpTo(s)[n - 1] + BlocksOfMail(s[n])
           /\ \A n \in 0..Len(s) : BlocksUpTo(s)[n] \in Nat
<1>1. PICK L, U : L = Len(s) /\ L \in Nat /\ U = BlocksUpTo(s)
  OBVIOUS
<1>2. U = [n \in 0..L |-> IF n = 0 THEN 0 ELSE U[n - 1] + BlocksOfMail(s[n])]
  BY <1>1, BlocksExist, BlocksUpToIs
<1>3. U[0] = 0 /\ \A n \in 1..L : U[n] = U[n - 1] + BlocksOfMail(s[n])
  <2>1. \A n \in 0..L : U[n] = IF n = 0 THEN 0 ELSE U[n - 1] + BlocksOfMail(s[n])
    BY <1>2
  <2> QED
    BY <1>1, <2>1
<1>4. \A n \in 1..L : BlocksOfMail(s[n]) \in Nat
  BY <1>1, BlocksNat
<1>5. PICK S : S = {n \in 0..L : U[n] \in Nat}
  OBVIOUS
<1>6. 0 \in S /\ \A n \in 1..L : n - 1 \in S => n \in S
  BY <1>1, <1>3, <1>4, <1>5
<1>7. \A n \in 0..L : n \in S
  BY <1>1, <1>6, UpTo
<1> QED
  BY <1>1, <1>3, <1>5, <1>7

\* Chains with the same first n mails have the same blocks up to there.
LEMMA BlocksAgree ==
    ASSUME NEW s \in Seq(Mail), NEW r \in Seq(Mail), NEW n \in 0..Len(s), n <= Len(r),
           \A i \in 1..n : s[i] = r[i]
    PROVE  BlocksUpTo(s)[n] = BlocksUpTo(r)[n]
<1>1. PICK S : S = {k \in 0..n : BlocksUpTo(s)[k] = BlocksUpTo(r)[k]}
  OBVIOUS
<1>2. 0 \in S
  BY <1>1, BlocksRule
<1>3. ASSUME NEW k \in 1..n, k - 1 \in S PROVE k \in S
  <2>1. k \in 1..Len(s) /\ k \in 1..Len(r) /\ s[k] = r[k]
    OBVIOUS
  <2>2. /\ BlocksUpTo(s)[k] = BlocksUpTo(s)[k - 1] + BlocksOfMail(s[k])
        /\ BlocksUpTo(r)[k] = BlocksUpTo(r)[k - 1] + BlocksOfMail(r[k])
    BY <2>1, BlocksRule
  <2> QED
    BY <1>1, <1>3, <2>1, <2>2
<1>4. \A k \in 0..n : k \in S
  <2>1. n \in Nat
    OBVIOUS
  <2> QED
    BY <1>2, <1>3, <2>1, UpTo
<1> QED
  BY <1>1, <1>4

\* Later mails only add.
LEMMA BlocksGrow ==
    ASSUME NEW s \in Seq(Mail), NEW n \in 0..Len(s) PROVE BlocksUpTo(s)[n] <= SumOf(s)
<1>1. PICK S : S = {k \in 0..(Len(s) - n) : BlocksUpTo(s)[n] <= BlocksUpTo(s)[n + k]}
  OBVIOUS
<1>2. \A k \in 0..Len(s) : BlocksUpTo(s)[k] \in Nat
  BY BlocksRule
<1>3. 0 \in S
  BY <1>1, <1>2
<1>4. ASSUME NEW k \in 1..(Len(s) - n), k - 1 \in S PROVE k \in S
  <2>1. n + k \in 1..Len(s) /\ n + (k - 1) = (n + k) - 1 /\ n + (k - 1) \in 0..Len(s) /\ n + k \in 0..Len(s)
    OBVIOUS
  <2>2. BlocksUpTo(s)[n + k] = BlocksUpTo(s)[n + (k - 1)] + BlocksOfMail(s[n + k])
    BY <2>1, BlocksRule
  <2>3. BlocksOfMail(s[n + k]) \in Nat
    BY <2>1, BlocksNat
  <2>4. BlocksUpTo(s)[n] <= BlocksUpTo(s)[n + (k - 1)]
    BY <1>1, <1>4
  <2>5. BlocksUpTo(s)[n] <= BlocksUpTo(s)[n + k]
    BY <1>2, <2>1, <2>2, <2>3, <2>4
  <2> QED
    BY <1>1, <2>5
<1>5. \A k \in 0..(Len(s) - n) : k \in S
  <2>1. Len(s) - n \in Nat
    OBVIOUS
  <2> QED
    BY <1>3, <1>4, <2>1, UpTo
<1>6. Len(s) - n \in S /\ n + (Len(s) - n) = Len(s)
  BY <1>5
<1> QED
  BY <1>1, <1>6 DEF SumOf

\* A mail more, or one changed.
LEMMA SumAppend ==
    ASSUME NEW s \in Seq(Mail), NEW m \in Mail
    PROVE  SumOf(Append(s, m)) = SumOf(s) + BlocksOfMail(m)
<1>1. PICK L \in Nat : L = Len(s)
  OBVIOUS
<1>0. PICK r : r = Append(s, m)
  OBVIOUS
<1>2. r \in Seq(Mail) /\ Len(r) = L + 1 /\ r[L + 1] = m /\ \A i \in 1..L : s[i] = r[i]
  BY <1>1, <1>0
<1>3. BlocksUpTo(r)[L + 1] = BlocksUpTo(r)[L] + BlocksOfMail(m)
  <2>1. L + 1 \in 1..Len(r) /\ (L + 1) - 1 = L
    BY <1>1, <1>2
  <2> QED
    BY <1>2, <2>1, BlocksRule
<1>4. BlocksUpTo(r)[L] = BlocksUpTo(s)[L]
  <2>1. L \in 0..Len(s) /\ L <= Len(r)
    BY <1>1, <1>2
  <2> QED
    BY <1>1, <1>2, <2>1, BlocksAgree
<1> QED
  BY <1>1, <1>0, <1>2, <1>3, <1>4 DEF SumOf

\* A mail replaced by another changes the sum by the difference.
LEMMA SumChange ==
    ASSUME NEW s \in Seq(Mail), NEW i \in 1..Len(s), NEW m \in Mail
    PROVE  SumOf([s EXCEPT ![i] = m]) = SumOf(s) - BlocksOfMail(s[i]) + BlocksOfMail(m)
<1>1. PICK L \in Nat : L = Len(s)
  OBVIOUS
<1>0. PICK r : r = [s EXCEPT ![i] = m]
  OBVIOUS
<1>2. r \in Seq(Mail) /\ Len(r) = L /\ r[i] = m /\ \A j \in 1..L : j # i => s[j] = r[j]
  BY <1>1, <1>0
<1>3. /\ \A n \in 0..L : BlocksUpTo(s)[n] \in Nat /\ BlocksUpTo(r)[n] \in Nat
      /\ BlocksOfMail(s[i]) \in Nat /\ BlocksOfMail(m) \in Nat
  BY <1>1, <1>2, BlocksRule, BlocksNat
<1>4. PICK S : S = {k \in 0..(L - i) : BlocksUpTo(r)[i + k] =
                       BlocksUpTo(s)[i + k] - BlocksOfMail(s[i]) + BlocksOfMail(m)}
  OBVIOUS
<1>5. 0 \in S
  <2>1. i - 1 \in 0..L /\ i - 1 <= Len(r) /\ i + 0 = i /\ i \in 1..Len(r)
    BY <1>1, <1>2
  <2>2. BlocksUpTo(s)[i - 1] = BlocksUpTo(r)[i - 1]
    <3>1. \A j \in 1..(i - 1) : s[j] = r[j]
      BY <1>1, <1>2
    <3> QED
      BY <1>1, <1>2, <2>1, <3>1, BlocksAgree
  <2>3. /\ BlocksUpTo(s)[i] = BlocksUpTo(s)[i - 1] + BlocksOfMail(s[i])
        /\ BlocksUpTo(r)[i] = BlocksUpTo(r)[i - 1] + BlocksOfMail(m)
    BY <1>2, <2>1, BlocksRule
  <2>4. BlocksUpTo(r)[i] = BlocksUpTo(s)[i] - BlocksOfMail(s[i]) + BlocksOfMail(m)
    BY <1>3, <2>1, <2>2, <2>3
  <2>5. 0 \in 0..(L - i)
    BY <1>1
  <2> QED
    BY <1>4, <2>1, <2>4, <2>5
<1>6. ASSUME NEW k \in 1..(L - i), k - 1 \in S PROVE k \in S
  <2>1. /\ i + k \in 1..L /\ i + (k - 1) = (i + k) - 1 /\ i + (k - 1) \in 0..L
        /\ i + k \in 0..L /\ i + k # i /\ i + k \in 1..Len(r) /\ k \in 0..(L - i)
    BY <1>1, <1>2
  <2>2. /\ BlocksUpTo(s)[i + k] = BlocksUpTo(s)[i + (k - 1)] + BlocksOfMail(s[i + k])
        /\ BlocksUpTo(r)[i + k] = BlocksUpTo(r)[i + (k - 1)] + BlocksOfMail(r[i + k])
        /\ s[i + k] = r[i + k]
    BY <1>1, <1>2, <2>1, BlocksRule
  <2>3. BlocksOfMail(s[i + k]) \in Nat
    BY <1>1, <2>1, BlocksNat
  <2>4. BlocksUpTo(r)[i + (k - 1)] = BlocksUpTo(s)[i + (k - 1)] - BlocksOfMail(s[i]) + BlocksOfMail(m)
    BY <1>4, <1>6
  <2>5. BlocksUpTo(r)[i + k] = BlocksUpTo(s)[i + k] - BlocksOfMail(s[i]) + BlocksOfMail(m)
    BY <1>3, <2>1, <2>2, <2>3, <2>4
  <2> QED
    BY <1>4, <2>1, <2>5
<1>7. \A k \in 0..(L - i) : k \in S
  <2>1. L - i \in Nat
    BY <1>1
  <2> QED
    BY <1>5, <1>6, <2>1, UpTo
<1>8. L - i \in S /\ i + (L - i) = L
  BY <1>1, <1>7
<1> QED
  BY <1>1, <1>0, <1>2, <1>4, <1>8 DEF SumOf

\* What is cut off counts no more.
LEMMA SumCut ==
    ASSUME NEW s \in Seq(Mail), NEW i \in 1..Len(s), NEW m \in Mail
    PROVE  SumOf(Append(SubSeq(s, 1, i - 1), m)) <= SumOf(s) - BlocksOfMail(s[i]) + BlocksOfMail(m)
<1>1. PICK r : r = SubSeq(s, 1, i - 1)
  OBVIOUS
<1>2. r \in Seq(Mail) /\ Len(r) = i - 1 /\ \A j \in 1..(i - 1) : s[j] = r[j]
  BY <1>1
<1>3. BlocksUpTo(s)[i - 1] = SumOf(r)
  <2>1. i - 1 \in 0..Len(s) /\ i - 1 <= Len(r)
    BY <1>2
  <2> QED
    BY <1>2, <2>1, BlocksAgree DEF SumOf
<1>4. BlocksUpTo(s)[i] = BlocksUpTo(s)[i - 1] + BlocksOfMail(s[i])
  BY BlocksRule
<1>5. BlocksUpTo(s)[i] <= SumOf(s)
  BY BlocksGrow
<1>6. /\ BlocksUpTo(s)[i - 1] \in Nat /\ BlocksUpTo(s)[i] \in Nat /\ SumOf(s) \in Nat
      /\ BlocksOfMail(s[i]) \in Nat /\ BlocksOfMail(m) \in Nat
  BY BlocksRule, BlocksNat DEF SumOf
<1>7. SumOf(Append(r, m)) = SumOf(r) + BlocksOfMail(m)
  BY <1>2, SumAppend
<1> QED
  BY <1>1, <1>3, <1>4, <1>5, <1>6, <1>7

\* One mail, and at least one.
LEMMA SumOne ==
    ASSUME NEW s \in Seq(Mail)
    PROVE  /\ SumOf(s) \in Nat
           /\ Len(s) = 1 => SumOf(s) = BlocksOfMail(s[1])
           /\ \A i \in 1..Len(s) : BlocksOfMail(s[i]) <= SumOf(s)
<1>1. /\ SumOf(s) \in Nat /\ BlocksUpTo(s)[0] = 0
      /\ \A n \in 1..Len(s) : BlocksUpTo(s)[n] = BlocksUpTo(s)[n - 1] + BlocksOfMail(s[n])
      /\ \A n \in 0..Len(s) : BlocksUpTo(s)[n] \in Nat
  BY BlocksRule DEF SumOf
<1>2. \A n \in 1..Len(s) : BlocksOfMail(s[n]) \in Nat /\ BlocksUpTo(s)[n] <= SumOf(s)
  BY BlocksNat, BlocksGrow
<1>3. Len(s) = 1 => SumOf(s) = BlocksOfMail(s[1])
  BY <1>1, <1>2 DEF SumOf
<1>4. ASSUME NEW i \in 1..Len(s) PROVE BlocksOfMail(s[i]) <= SumOf(s)
  <2>1. i - 1 \in 0..Len(s) /\ i \in 0..Len(s)
    OBVIOUS
  <2> QED
    BY <1>1, <1>2, <2>1
<1> QED
  BY <1>1, <1>3, <1>4

-----------------------------------------------------------------------------
(* Types *)

\* What the variables range over.
ClientVerbs == {"MAIL", "RCPT", "DATA", "segment", "QUIT", "RSET", "STARTTLS", "BDAT", "BDAT LAST", "chunk"}
ServerVerbs == {"354", "221", "5xx"}
Tokens == (ClientVerbs \cup ServerVerbs) \X Nat \X Nat
Places == {"ready", "mail", "rcpt", "data", "body", "chunk", "last chunk", "quit", "closed"}
Deeds == {"mail", "mails", "body", "RSET", "BDAT", "STARTTLS", "refused", "torn", "shared"}
Clients == [at : Places, mail : 0..scene.mails, segment : Nat, rcpts : Nat]

\* The table is good, holds the buckets that have mails, and each connection once.
TableInv ==
    /\ TableOK(table) /\ In(table) = DOMAIN chain
    /\ \A a, b \in DOMAIN chain : table.key[a] = table.key[b] => a = b

\* Every bucket in the table has at least one mail.
ChainInv ==
    /\ DOMAIN chain \subseteq Buckets /\ chain = [b \in DOMAIN chain |-> chain[b]]
    /\ \A b \in DOMAIN chain : chain[b] \in Seq(Mail) /\ Len(chain[b]) # 0
    /\ files \in Seq(Seq(Tokens))

\* A worker that is not idle has a bucket.
WorkerInv ==
    /\ worker = [w \in Workers |-> worker[w]]
    /\ \A w \in Workers :
          /\ worker[w].at \in {"idle", "parse", "extract", "release"}
          /\ worker[w].at = "idle" => worker[w].bucket = NULL
          /\ worker[w].at # "idle" => worker[w].bucket \in Buckets /\ worker[w].mail \in Nat

\* Everything has its type, and the table and the chains of mails agree.
SessionInv ==
    /\ scene \in Scenes /\ scene \in SceneType
    /\ client \in [Keys -> Clients]
    /\ TableInv /\ ChainInv /\ WorkerInv
    /\ ring \in Seq(Keys) /\ failed \in BOOLEAN /\ down \in BOOLEAN
    /\ did \in [Keys -> SUBSET Deeds]
    /\ blocks \in [Buckets -> Int]

-----------------------------------------------------------------------------
(* Packets *)

\* What a packet that is not ignored makes of a mail, and how many blocks it takes.
Change(c, m, p, m2, k) ==
    \/ /\ p.verb = "STARTTLS" /\ ~m.starttls /\ m.data_store_flag # "START"
       /\ m2 = [m EXCEPT !.starttls = TRUE] /\ k = 0 /\ UNCHANGED <<files, ring, failed>>
    \/ /\ p.verb = "QUIT" /\ (m.starttls \/ m.data_store_flag # "START")
       /\ m2 = [m EXCEPT !.quit_seen = TRUE] /\ k = 0 /\ UNCHANGED <<files, ring, failed>>
    \/ /\ p.verb = "MAIL" /\ ~m.starttls /\ m.data_store_flag # "START"
       /\ m.mail_from = NULL /\ m2 = [m EXCEPT !.mail_from = p.mail] /\ k = 1
       /\ UNCHANGED <<files, ring, failed>>
    \/ /\ p.verb = "RCPT" /\ ~m.starttls /\ m.data_store_flag # "START"
       /\ m2 = [m EXCEPT !.rcpt_to = Append(@, p.mail)] /\ k = 2 /\ UNCHANGED <<files, ring, failed>>
    \/ /\ p.verb = "RCPT" /\ ~m.starttls /\ m.data_store_flag # "START" /\ failed' = TRUE
       /\ m.rcpt_to = <<>> /\ m2 = [m EXCEPT !.rcpt_to = <<NULL>>] /\ k = 2 /\ UNCHANGED <<files, ring>>
    \/ /\ p.verb = "DATA" /\ ~m.starttls /\ m.data_store_flag # "START"
       /\ m2 = [m EXCEPT !.data_seen = TRUE, !.bdat_seen = FALSE] /\ k = 0
       /\ UNCHANGED <<files, ring, failed>>
    \/ /\ p.verb = "BDAT" /\ ~m.starttls /\ m.data_store_flag # "START"
       /\ m2 = [m EXCEPT !.bdat_seen = TRUE, !.data_seen = FALSE, !.data_store_flag = "START",
                         !.bdat_total_len = Segments] /\ k = 0
       /\ UNCHANGED <<files, ring, failed>>
    \/ /\ p.verb = "BDAT LAST" /\ ~m.starttls /\ m.data_store_flag # "START"
       /\ m2 = [m EXCEPT !.bdat_last = TRUE, !.bdat_total_len = Segments] /\ k = 0
       /\ UNCHANGED <<files, ring, failed>>
    \/ /\ p.verb = "221" /\ ~m.starttls /\ m2 = [m EXCEPT !.session_quit_flag = TRUE] /\ k = 0
       /\ UNCHANGED <<files, ring, failed>>
    \/ /\ p.verb = "354" /\ ~m.starttls /\ m.data_seen /\ files' = Append(files, <<>>)
       /\ UNCHANGED ring
       /\ \/ /\ m2 = [m EXCEPT !.data_store_flag = "START", !.mail_body_name = Len(files) + 1,
                               !.mail_body_dir = TRUE]
             /\ k = 2 /\ UNCHANGED failed
          \/ /\ m2 = [m EXCEPT !.data_store_flag = "START", !.mail_body_name = Len(files) + 1]
             /\ k = 1 /\ failed' = TRUE
          \/ /\ m2 = [m EXCEPT !.data_store_flag = "START", !.mail_body_name = NULL]
             /\ k = 0 /\ failed' = TRUE
    \/ /\ p.verb \notin {"354", "221", "5xx"} /\ ~m.starttls /\ m.data_store_flag = "START"
       /\ ~m.bdat_seen /\ ~NoName(m) /\ k = 0
       /\ \/ files' = [files EXCEPT ![m.mail_body_name] = Append(@, p.token)] /\ UNCHANGED failed
          \/ UNCHANGED files /\ failed' = TRUE
       /\ ring' = IF p.end THEN Append(ring, c) ELSE ring
       /\ \/ /\ p.end /\ m2 = [m EXCEPT !.data_seen = FALSE, !.bdat_seen = FALSE, !.dot_seen = TRUE,
                                        !.data_store_flag = "END"]
          \/ /\ ~p.end /\ m2 = IF m.dot_seen THEN [m EXCEPT !.data_store_flag = "END"] ELSE m
    \/ /\ p.verb \notin {"354", "221", "5xx"} /\ ~m.starttls /\ m.data_store_flag = "START"
       /\ m.bdat_seen /\ ~NoName(m) /\ k = 0
       /\ \/ files' = [files EXCEPT ![m.mail_body_name] = Append(@, p.token)] /\ UNCHANGED failed
          \/ UNCHANGED files /\ failed' = TRUE
       /\ UNCHANGED ring
       /\ \/ m2 = [m EXCEPT !.data_store_flag = "END", !.bdat_read_len = 0, !.bdat_total_len = 0]
          \/ m2 = [m EXCEPT !.bdat_read_len = @ + 1]

\* When a packet changes no mail.
Ignored(b, i, m, p) ==
    \/ m.starttls
    \/ p.verb \in {"MAIL", "RCPT", "RSET"} /\ failed'
    \/ /\ p.verb = "MAIL" /\ m.mail_from # NULL
       /\ \E j \in i..Len(chain[b]) : chain[b][j].mail_from = NULL
    \/ p.verb \in {"segment", "chunk"} /\ m.data_store_flag # "START"
    \/ p.verb = "354" /\ ~m.data_seen
    \/ p.verb = "221" /\ ~m.quit_seen
    \/ p.verb = "5xx"

\* Packet p reaches mail i of bucket b.
Outcome(c, b, i, m, p) ==
    \/ \E m2, k : /\ Change(c, m, p, m2, k) /\ Update(b, i, m2) /\ Allocated(b, k)
                  /\ UNCHANGED <<table, down>>
    \/ /\ Ignored(b, i, m, p)
       /\ \E k \in 0..2 : Allocated(b, k) /\ (k # 0 => failed')
       /\ (failed' = TRUE \/ UNCHANGED failed) /\ UNCHANGED <<table, chain, files, ring, down>>
    \/ /\ p.verb = "MAIL" /\ ~m.starttls /\ m.data_store_flag # "START" /\ m.mail_from # NULL
       /\ chain' = [chain EXCEPT ![b] = Append(@, [NewMail EXCEPT !.mail_from = p.mail])]
       /\ Allocated(b, 2) /\ UNCHANGED <<table, files, ring, failed, down>>
    \/ /\ p.verb = "RSET" /\ ~m.starttls /\ m.data_store_flag # "START"
       /\ chain' = [chain EXCEPT ![b] = Append(SubSeq(@, 1, i - 1), NewMail)]
       /\ Allocated(b, 1) /\ UNCHANGED <<table, files, ring, failed, down>>
    \/ /\ p.verb = "221" /\ m.starttls
       /\ table' = RemoveHash(table, b) /\ FreeSmtp(b) /\ UNCHANGED <<files, ring, failed, down>>
    \/ /\ failed' = TRUE \/ (~m.starttls /\ m.data_store_flag = "START" /\ NoName(m)
                        /\ p.verb \notin {"354", "221", "5xx"} /\ UNCHANGED failed)
       /\ down' = TRUE /\ UNCHANGED <<table, chain, files, ring, blocks>>


\* The mail a packet reaches.
LEMMA Reached ==
    ASSUME SessionInv, NEW c \in Keys, Session(c) # NULL
    PROVE  /\ Session(c) \in DOMAIN chain /\ table.key[Session(c)] = c
           /\ Position(Session(c)) \in 1..Len(chain[Session(c)])
           /\ chain[Session(c)][Position(Session(c))] \in Mail
           /\ chain[Session(c)] \in Seq(Mail) /\ Session(c) \in Buckets
<1>1. PICK b : b = Session(c)
  OBVIOUS
<1>2. b \in DOMAIN chain /\ table.key[b] = c
  BY <1>1, FindIs DEF Session, SessionInv, TableInv
<1>3. chain[b] \in Seq(Mail) /\ Len(chain[b]) \in Nat \ {0} /\ b \in Buckets
  BY <1>2 DEF SessionInv, ChainInv
<1>4. Position(b) \in 1..Len(chain[b])
  BY <1>3 DEF Position
<1> QED
  BY <1>1, <1>2, <1>3, <1>4

\* A handler that touches no block has allocated none.
LEMMA NoneAllocated == ASSUME SessionInv, NEW b, UNCHANGED blocks PROVE Allocated(b, 0)
<1>1. blocks \in [Buckets -> Int]
  BY DEF SessionInv
<1>2. [blocks EXCEPT ![b] = blocks[b] + 0] = blocks
  <2>1. CASE b \in Buckets
    <3>1. blocks[b] + 0 = blocks[b]
      BY <1>1, <2>1
    <3> QED
      BY <1>1, <3>1
  <2>2. CASE b \notin Buckets
    BY <1>1, <2>2
  <2> QED
    BY <2>1, <2>2
<1> QED
  BY <1>2 DEF Allocated

\* Each handler, as the mail sees it.
LEMMA Commands ==
    ASSUME SessionInv, NEW c \in Keys, NEW b, NEW i \in 1..Len(chain[b]), NEW p, NEW m, m = chain[b][i],
           chain[b] \in Seq(Mail), ~m.starttls, m.data_store_flag # "START", p.verb \in ClientVerbs, DisposeSmtpCmd(b, i, p)
    PROVE  Outcome(c, b, i, m, p)
<1>1. Segments > 0 /\ Segments # 0
  BY SmtpSessionAssumption
<1>2. UNCHANGED blocks => Allocated(b, 0)
  BY NoneAllocated
<1>3. CASE p.verb = "STARTTLS" /\ StartTls(b, i)
  BY <1>2, <1>3 DEF StartTls, NoFault, The, Outcome, Change
<1>4. CASE p.verb = "QUIT" /\ Quit(b, i)
  BY <1>2, <1>4 DEF Quit, NoFault, The, Outcome, Change
<1>5. CASE p.verb = "MAIL" /\ MailFrom(b, i, p.mail)
  <2>1. CASE m.mail_from = NULL /\ Update(b, i, [m EXCEPT !.mail_from = p.mail]) /\ Allocated(b, 1) /\ NoFault
    BY <1>5, <2>1 DEF MailFrom, NoFault, Outcome, Change
  <2>2. CASE failed' = TRUE /\ chain' = chain /\ UNCHANGED blocks
    <3>1. Allocated(b, 0) /\ 0 \in 0..2 /\ UNCHANGED <<table, chain, files, ring, down>>
      BY <1>2, <1>5, <2>2 DEF MailFrom
    <3>2. Ignored(b, i, m, p)
      BY <1>5, <2>2 DEF Ignored
    <3> QED
      BY <2>2, <3>1, <3>2 DEF Outcome
  <2>3. CASE /\ m.mail_from # NULL /\ NoFault /\ Allocated(b, 2)
             /\ chain' = [chain EXCEPT ![b] = Append(@, [NewMail EXCEPT !.mail_from = p.mail])]
    BY <1>5, <2>3 DEF MailFrom, NoFault, Outcome
  <2>4. CASE failed' = TRUE /\ chain' = chain /\ \E k \in 0..1 : Allocated(b, k)
    <3>1. PICK k \in 0..2 : Allocated(b, k)
      BY <2>4
    <3> QED
      BY <1>5, <2>4, <3>1 DEF MailFrom, Outcome, Ignored
  <2>5. CASE /\ m.mail_from # NULL /\ NoFault /\ UNCHANGED <<chain, blocks>>
             /\ \E j \in i..Len(chain[b]) : The(b, j).mail_from = NULL
    BY <1>2, <1>5, <2>5 DEF MailFrom, NoFault, Outcome, Ignored, The
  <2>6. /\ UNCHANGED <<table, files, ring, down>>
        /\ \/ /\ m.mail_from = NULL
              /\ \/ Update(b, i, [m EXCEPT !.mail_from = p.mail]) /\ Allocated(b, 1) /\ NoFault
                 \/ failed' = TRUE /\ UNCHANGED <<chain, blocks>>
           \/ /\ \A j \in i..Len(chain[b]) : The(b, j).mail_from # NULL
              /\ \/ /\ chain' = [chain EXCEPT ![b] = Append(@, [NewMail EXCEPT !.mail_from = p.mail])]
                    /\ Allocated(b, 2) /\ NoFault
                 \/ failed' = TRUE /\ (\E k \in 0..1 : Allocated(b, k)) /\ UNCHANGED chain
           \/ /\ m.mail_from # NULL
              /\ \E j \in i..Len(chain[b]) : The(b, j).mail_from = NULL
              /\ NoFault /\ UNCHANGED <<chain, blocks>>
    BY <1>5 DEF MailFrom, The, Fault
  <2>7. i \in i..Len(chain[b])
    OBVIOUS
  <2>8. (\A j \in i..Len(chain[b]) : The(b, j).mail_from # NULL) => m.mail_from # NULL
    BY <2>7 DEF The
  <2> QED
    BY <2>1, <2>2, <2>3, <2>4, <2>5, <2>6, <2>8
<1>6. CASE p.verb = "RCPT" /\ RcptTo(b, i, p.mail)
  <2>1. CASE /\ Update(b, i, [m EXCEPT !.rcpt_to = Append(@, p.mail)]) /\ Allocated(b, 2) /\ NoFault
             /\ UNCHANGED <<table, files, ring, down>>
    BY <1>6, <2>1 DEF NoFault, Outcome, Change
  <2>2. CASE /\ failed' = TRUE /\ \E k \in 0..2 : Allocated(b, k)
             /\ UNCHANGED <<table, chain, files, ring, down>>
    BY <1>6, <2>2 DEF Outcome, Ignored
  <2>3. CASE /\ m.rcpt_to = <<>> /\ failed' = TRUE /\ Allocated(b, 2)
             /\ Update(b, i, [m EXCEPT !.rcpt_to = <<NULL>>]) /\ UNCHANGED <<table, files, ring, down>>
    BY <1>6, <2>3 DEF Outcome, Change
  <2>4. CASE failed' = TRUE /\ down' = TRUE /\ UNCHANGED <<table, chain, files, ring, blocks>>
    BY <1>6, <2>4 DEF Outcome
  <2> QED
    BY <1>6, <2>1, <2>2, <2>3, <2>4 DEF RcptTo, The, Fault
<1>7. CASE p.verb = "DATA" /\ Data(b, i)
  BY <1>2, <1>7 DEF Data, NoFault, The, Outcome, Change
<1>8. CASE p.verb = "BDAT" /\ Bdat(b, i, Segments, FALSE)
  <2>1. PICK m2 : m2 = [m EXCEPT !.bdat_seen = TRUE, !.data_seen = FALSE, !.data_store_flag = "START",
                                 !.bdat_total_len = Segments]
    OBVIOUS
  <2>2. Update(b, i, m2) /\ NoFault /\ UNCHANGED <<table, files, ring, blocks, down>>
    BY <1>1, <1>8, <2>1 DEF Bdat, The
  <2> QED
    BY <1>2, <1>8, <2>1, <2>2 DEF NoFault, Outcome, Change
<1>9. CASE p.verb = "BDAT LAST" /\ Bdat(b, i, Segments, TRUE)
  BY <1>2, <1>9 DEF Bdat, NoFault, The, Outcome, Change
<1>10. CASE p.verb = "RSET" /\ Rset(b, i)
  <2>1. UNCHANGED <<table, files, ring, down>>
    BY <1>10 DEF Rset
  <2>2. CASE /\ chain' = [chain EXCEPT ![b] = Append(SubSeq(@, 1, i - 1), NewMail)]
             /\ Allocated(b, 1) /\ NoFault
    BY <1>10, <2>1, <2>2 DEF NoFault, Outcome
  <2>3. CASE failed' = TRUE /\ UNCHANGED <<chain, blocks>>
    <3>1. Allocated(b, 0) /\ 0 \in 0..2
      BY <1>2, <2>3
    <3>2. Ignored(b, i, m, p)
      BY <1>10, <2>3 DEF Ignored
    <3> QED
      BY <2>1, <2>3, <3>1, <3>2 DEF Outcome
  <2> QED
    BY <1>10, <2>2, <2>3 DEF Rset, Fault
<1>11. CASE p.verb \in {"segment", "chunk"} /\ Nothing
  BY <1>2, <1>11 DEF Nothing, NoFault, Outcome, Ignored
<1> QED
  BY <1>3, <1>4, <1>5, <1>6, <1>7, <1>8, <1>9, <1>10, <1>11 DEF DisposeSmtpCmd

\* What an answer of the server does to the mail.
LEMMA Answers ==
    ASSUME SessionInv, NEW c \in Keys, NEW b, NEW i, NEW p, NEW m, m = chain[b][i],
           ~m.starttls, p.verb \in ServerVerbs, DisposeSmtpResponse(b, i, p)
    PROVE  Outcome(c, b, i, m, p)
<1>1. UNCHANGED blocks => Allocated(b, 0)
  BY NoneAllocated
<1>2. CASE /\ p.verb = "221" /\ Update(b, i, [m EXCEPT !.session_quit_flag = TRUE])
           /\ NoFault /\ UNCHANGED <<table, files, ring, blocks, down>>
  BY <1>1, <1>2 DEF NoFault, Outcome, Change
<1>3. CASE p.verb = "354" /\ m.data_seen
  <2>1. PICK m2 : m2 = [m EXCEPT !.data_store_flag = "START", !.mail_body_name = Len(files) + 1,
                                 !.mail_body_dir = TRUE]
    OBVIOUS
  <2>2. PICK m3 : m3 = [m EXCEPT !.data_store_flag = "START", !.mail_body_name = Len(files) + 1]
    OBVIOUS
  <2>3. PICK m4 : m4 = [m EXCEPT !.data_store_flag = "START", !.mail_body_name = NULL]
    OBVIOUS
  <2>4. /\ files' = Append(files, <<>>) /\ UNCHANGED <<table, ring, down>>
        /\ \/ Update(b, i, m2) /\ Allocated(b, 2) /\ UNCHANGED failed
           \/ Update(b, i, m3) /\ Allocated(b, 1) /\ failed' = TRUE
           \/ Update(b, i, m4) /\ Allocated(b, 0) /\ failed' = TRUE
    BY <1>1, <1>3, <2>1, <2>2, <2>3 DEF DisposeSmtpResponse, The, NoFault, Fault
  <2>5. \/ Change(c, m, p, m2, 2) /\ Update(b, i, m2) /\ Allocated(b, 2)
        \/ Change(c, m, p, m3, 1) /\ Update(b, i, m3) /\ Allocated(b, 1)
        \/ Change(c, m, p, m4, 0) /\ Update(b, i, m4) /\ Allocated(b, 0)
    BY <1>3, <2>1, <2>2, <2>3, <2>4 DEF Change
  <2> QED
    BY <2>4, <2>5 DEF Outcome
<1>4. CASE Nothing /\ ~(p.verb = "221" /\ m.quit_seen) /\ ~(p.verb = "354" /\ m.data_seen)
  BY <1>1, <1>4 DEF Nothing, NoFault, Outcome, Ignored, ServerVerbs
<1> QED
  BY <1>2, <1>3, <1>4 DEF DisposeSmtpResponse, The

\* What a packet does to a connection that has gone over to TLS.
LEMMA Encrypted ==
    ASSUME SessionInv, NEW c \in Keys, NEW b, NEW i, NEW p, NEW m, m = chain[b][i],
           m.starttls, DisposeStartTlsCmd(c, b, i, p)
    PROVE  Outcome(c, b, i, m, p)
<1>1. UNCHANGED blocks => Allocated(b, 0)
  BY NoneAllocated
<1>2. CASE p.verb = "QUIT" /\ Quit(b, i)
  BY <1>1, <1>2 DEF Quit, NoFault, The, Outcome, Change
<1>3. CASE /\ p.verb = "221" /\ table' = RemoveHash(table, b) /\ FreeSmtp(b)
           /\ NoFault /\ UNCHANGED <<files, ring, down>>
  BY <1>3 DEF NoFault, Outcome
<1>4. CASE Nothing
  BY <1>1, <1>4 DEF Nothing, NoFault, Outcome, Ignored
<1> QED
  BY <1>2, <1>3, <1>4 DEF DisposeStartTlsCmd

\* What a packet of a body does to the mail.
LEMMA BodyPackets ==
    ASSUME SessionInv, NEW c \in Keys, NEW b, NEW i, NEW p, NEW m, m = chain[b][i], m \in Mail,
           ~m.starttls, m.data_store_flag = "START", p.verb \in ClientVerbs, p.end \in BOOLEAN,
           \/ m.bdat_seen /\ BodyBdat(b, i, p)
           \/ ~m.bdat_seen /\ BodyData(c, b, i, p)
    PROVE  Outcome(c, b, i, m, p)
<1>1. UNCHANGED blocks => Allocated(b, 0)
  BY NoneAllocated
<1>2. p.verb \notin {"354", "221", "5xx"}
  BY DEF ClientVerbs
<1>3. CASE NoName(m) /\ Crash
  BY <1>2, <1>3 DEF Crash, Outcome
<1>4. CASE m.bdat_seen /\ BodyBdat(b, i, p) /\ ~NoName(m)
  <2>1. PICK m2 : m2 = [m EXCEPT !.data_store_flag = "END", !.bdat_read_len = 0, !.bdat_total_len = 0]
    OBVIOUS
  <2>2. PICK m3 : m3 = [m EXCEPT !.bdat_read_len = @ + 1]
    OBVIOUS
  <2>3. /\ StoreSmtpData(m, p.token) /\ UNCHANGED <<table, ring, blocks, down>>
        /\ Update(b, i, m2) \/ Update(b, i, m3)
    BY <1>4, <2>1, <2>2 DEF BodyBdat, The, Crash
  <2>4. \/ files' = [files EXCEPT ![m.mail_body_name] = Append(@, p.token)] /\ UNCHANGED failed
        \/ UNCHANGED files /\ failed' = TRUE
    BY <2>3 DEF StoreSmtpData, NoFault, Fault
  <2>5. Change(c, m, p, m2, 0) /\ Change(c, m, p, m3, 0)
    BY <1>2, <1>4, <2>1, <2>2, <2>3, <2>4 DEF Change
  <2> QED
    BY <1>1, <2>3, <2>5 DEF Outcome
<1>5. CASE ~m.bdat_seen /\ BodyData(c, b, i, p) /\ ~NoName(m)
  <2>1. PICK m2 : m2 = IF p.end
                       THEN [m EXCEPT !.data_seen = FALSE, !.bdat_seen = FALSE, !.dot_seen = TRUE,
                                      !.data_store_flag = "END"]
                       ELSE IF m.dot_seen THEN [m EXCEPT !.data_store_flag = "END"] ELSE m
    OBVIOUS
  <2>2. /\ StoreSmtpData(m, p.token) /\ ring' = (IF p.end THEN Append(ring, c) ELSE ring)
        /\ UNCHANGED <<table, blocks, down>>
    BY <1>5 DEF BodyData, The, Crash
  <2>3. Update(b, i, m2)
    BY <1>5, <2>1 DEF BodyData, The, Crash, Mail
  <2>4. \/ files' = [files EXCEPT ![m.mail_body_name] = Append(@, p.token)] /\ UNCHANGED failed
        \/ UNCHANGED files /\ failed' = TRUE
    BY <2>2 DEF StoreSmtpData, NoFault, Fault
  <2>5. Change(c, m, p, m2, 0)
    BY <1>2, <1>5, <2>1, <2>2, <2>4 DEF Change
  <2> QED
    BY <1>1, <2>2, <2>3, <2>5 DEF Outcome
<1> QED
  BY <1>3, <1>4, <1>5 DEF BodyBdat, BodyData, The

\* What a packet does.
LEMMA Packets ==
    ASSUME SessionInv, NEW c \in Keys, NEW p, p.end \in BOOLEAN,
           \/ p.verb \in ClientVerbs /\ FromClient(c, p)
           \/ p.verb \in ServerVerbs /\ FromServer(c, p)
    PROVE  \E b, i, m : /\ b = Session(c) /\ b \in DOMAIN chain /\ b \in Buckets /\ table.key[b] = c
                        /\ i = Position(b) /\ i \in 1..Len(chain[b]) /\ chain[b] \in Seq(Mail)
                        /\ m = chain[b][i] /\ m \in Mail /\ Outcome(c, b, i, m, p)
<1>1. PICK b, i, m : b = Session(c) /\ i = Position(b) /\ m = chain[b][i]
  OBVIOUS
<1>2. /\ b # NULL /\ b \in DOMAIN chain /\ b \in Buckets /\ table.key[b] = c
      /\ i \in 1..Len(chain[b]) /\ chain[b] \in Seq(Mail) /\ m \in Mail
  BY <1>1, Reached DEF FromClient, FromServer
<1>3. Outcome(c, b, i, m, p)
  <2>1. CASE p.verb \in ClientVerbs /\ FromClient(c, p)
    <3>1. \/ m.starttls /\ DisposeStartTlsCmd(c, b, i, p)
          \/ ~m.starttls /\ m.data_store_flag = "START" /\ m.bdat_seen /\ BodyBdat(b, i, p)
          \/ ~m.starttls /\ m.data_store_flag = "START" /\ ~m.bdat_seen /\ BodyData(c, b, i, p)
          \/ ~m.starttls /\ m.data_store_flag # "START" /\ DisposeSmtpCmd(b, i, p)
      BY <1>1, <2>1 DEF FromClient, The
    <3> QED
      BY <1>1, <1>2, <2>1, <3>1, Encrypted, BodyPackets, Commands
  <2>2. CASE p.verb \in ServerVerbs /\ FromServer(c, p)
    <3>1. \/ m.starttls /\ DisposeStartTlsCmd(c, b, i, p)
          \/ ~m.starttls /\ DisposeSmtpResponse(b, i, p)
      BY <1>1, <2>2 DEF FromServer, The
    <3> QED
      BY <1>1, <2>2, <3>1, Encrypted, Answers
  <2> QED
    BY <2>1, <2>2
<1> QED
  BY <1>1, <1>2, <1>3

-----------------------------------------------------------------------------
(* Connections *)

\* What packet p makes of a connection's client cl and its history d.
Says(p, cl, d, cl2, d2) ==
    \/ /\ p.verb = "MAIL" /\ cl.at = "ready" /\ p.mail \in Nat \ {0} /\ ~p.end
       /\ cl2 = [at |-> "mail", mail |-> p.mail, segment |-> 0, rcpts |-> 0]
       /\ d2 = d \cup {IF cl.mail = 0 THEN "mail" ELSE "mails"}
    \/ /\ p.verb = "RCPT" /\ cl.at \in {"mail", "rcpt"} /\ p.mail = cl.mail /\ ~p.end
       /\ cl2 = [cl EXCEPT !.at = "rcpt", !.rcpts = @ + 1] /\ d2 = d
    \/ /\ p.verb = "DATA" /\ cl.at = "rcpt" /\ cl.segment = 0 /\ ~p.end
       /\ cl2 = [cl EXCEPT !.at = "data"] /\ d2 = d
    \/ /\ p.verb = "354" /\ cl.at = "data" /\ ~p.end
       /\ cl2 = [cl EXCEPT !.at = "body"] /\ d2 = d
    \/ /\ p.verb = "segment" /\ cl.at = "body" /\ p.token = <<"segment", cl.mail, cl.segment + 1>>
       /\ p.end = (cl.segment + 1 = Segments)
       /\ cl2 = [cl EXCEPT !.segment = @ + 1, !.at = IF p.end THEN "ready" ELSE "body"]
       /\ d2 = IF p.end THEN d \cup {"body"} ELSE d
    \/ /\ p.verb = "QUIT" /\ cl.at = "ready" /\ ~p.end
       /\ cl2 = [cl EXCEPT !.at = "quit"] /\ d2 = d
    \/ /\ p.verb = "221" /\ cl.at = "quit" /\ ~p.end
       /\ cl2 = [cl EXCEPT !.at = "closed"] /\ d2 = d
    \/ /\ p.verb = "5xx" /\ cl.at = "data" /\ ~p.end
       /\ cl2 = [cl EXCEPT !.at = "ready"] /\ d2 = d \cup {"refused"}
    \/ /\ p.verb = "RSET" /\ cl.at \in {"ready", "mail", "rcpt"} /\ ~p.end
       /\ cl2 = [cl EXCEPT !.at = "ready"] /\ d2 = d \cup {"RSET"}
    \/ /\ p.verb = "STARTTLS" /\ cl.at = "ready" /\ d = {} /\ ~p.end
       /\ cl2 = cl /\ d2 = d \cup {"STARTTLS"}
    \/ /\ p.verb = "BDAT" /\ cl.at = "rcpt" /\ ~p.end
       /\ cl2 = [cl EXCEPT !.at = "chunk"] /\ d2 = d \cup {"BDAT"}
    \/ /\ p.verb = "BDAT LAST" /\ cl.at = "rcpt" /\ ~p.end
       /\ cl2 = [cl EXCEPT !.at = "last chunk"] /\ d2 = d \cup {"BDAT"}
    \/ /\ p.verb = "chunk" /\ cl.at \in {"chunk", "last chunk"} /\ ~p.end
       /\ \E a \in {"ready", "rcpt", cl.at} :
             /\ cl2 = [cl EXCEPT !.segment = @ + 1, !.at = a]
             /\ a = "rcpt" => cl.at = "chunk"
       /\ d2 = d

\* Packet p of connection c and what it does.
Exchange(c, p) ==
    /\ p.end \in BOOLEAN /\ p.token \in Tokens /\ p.mail \in Nat /\ ~down
    /\ \E cl2, d2 : /\ Says(p, client[c], did[c], cl2, d2)
                    /\ client' = [client EXCEPT ![c] = cl2] /\ did' = [did EXCEPT ![c] = d2]
                    /\ cl2 \in Clients
                    /\ d2 \in SUBSET Deeds
    /\ \E b, i, m : /\ b = Session(c) /\ b \in DOMAIN chain /\ b \in Buckets /\ table.key[b] = c
                    /\ i = Position(b) /\ i \in 1..Len(chain[b]) /\ chain[b] \in Seq(Mail)
                    /\ m = chain[b][i] /\ m \in Mail /\ Outcome(c, b, i, m, p)
    /\ UNCHANGED <<scene, worker, posted>>

\* The typed part of Exchange.
Typed(c, p, cl2, d2) ==
    /\ p.end \in BOOLEAN /\ p.token \in Tokens /\ p.mail \in Nat
    /\ Says(p, client[c], did[c], cl2, d2)
    /\ client' = [client EXCEPT ![c] = cl2] /\ did' = [did EXCEPT ![c] = d2]
    /\ cl2 \in Clients
    /\ d2 \in SUBSET Deeds

\* A packet of the kinds the client and the server send is an Exchange.
LEMMA Exchanged ==
    ASSUME SessionInv, NEW c \in Keys, NEW p, NEW cl2, NEW d2, Typed(c, p, cl2, d2), ~down,
           \/ p.verb \in ClientVerbs /\ FromClient(c, p)
           \/ p.verb \in ServerVerbs /\ FromServer(c, p),
           UNCHANGED <<scene, worker, posted>>
    PROVE  Exchange(c, p)
<1>1. \E b, i, m : /\ b = Session(c) /\ b \in DOMAIN chain /\ b \in Buckets /\ table.key[b] = c
                   /\ i = Position(b) /\ i \in 1..Len(chain[b]) /\ chain[b] \in Seq(Mail)
                   /\ m = chain[b][i] /\ m \in Mail /\ Outcome(c, b, i, m, p)
  BY Packets DEF Typed
<1> QED
  BY <1>1 DEF Exchange, Typed

\* How the history is written.
LEMMA DidIs ==
    ASSUME NEW c, NEW w PROVE Did(c, w) <=> did' = [did EXCEPT ![c] = did[c] \cup {w}]
BY DEF Did

\* A client that is not heard stays as it is.
LEMMA SameClient ==
    ASSUME SessionInv, NEW c \in Keys
    PROVE  /\ client = [client EXCEPT ![c] = client[c]] /\ did = [did EXCEPT ![c] = did[c]]
           /\ client[c] \in Clients
           /\ did[c] \in SUBSET Deeds /\ 0..scene.mails \subseteq Nat
BY DEF SessionInv

\* A packet of a known kind is a token.
LEMMA TokenIs == ASSUME NEW v \in ClientVerbs \cup ServerVerbs, NEW n \in Nat, NEW s \in Nat PROVE <<v, n, s>> \in Tokens
BY DEF Tokens

\* A client that moves on is still a client.
LEMMA ClientsAre ==
    ASSUME NEW cl \in Clients, NEW a \in Places, NEW s \in Nat, NEW r \in Nat
    PROVE  /\ [cl EXCEPT !.segment = s, !.at = a] \in Clients
           /\ [cl EXCEPT !.at = a, !.rcpts = r] \in Clients
BY DEF Clients

\* What clients and servers send is such an exchange.
LEMMA ClientIs ==
    ASSUME SessionInv, NEW c \in Keys, Client(c) PROVE \E p : Exchange(c, p)
<1>1. PICK cl, d : cl = client[c] /\ d = did[c]
  OBVIOUS
<1>2. /\ cl \in Clients
      /\ d \in SUBSET Deeds /\ 0..scene.mails \subseteq Nat /\ cl.mail \in Nat /\ cl.segment \in Nat /\ cl.rcpts \in Nat
      /\ cl.mail \in 0..scene.mails /\ cl.at \in Places
      /\ cl = [at |-> cl.at, mail |-> cl.mail, segment |-> cl.segment, rcpts |-> cl.rcpts]
      /\ \A n \in Nat : \A v \in ClientVerbs \cup ServerVerbs : <<v, cl.mail, n>> \in Tokens
      /\ did = [did EXCEPT ![c] = d]
  BY <1>1, SameClient DEF Clients, Tokens
<1>3. ~down /\ UNCHANGED <<scene, worker, posted>>
  BY DEF Client
<1>4. ASSUME cl.at = "ready", Did(c, IF cl.mail = 0 THEN "mail" ELSE "mails"),
             NEW new \in 1..scene.mails,
             client' = [client EXCEPT ![c] = [at |-> "mail", mail |-> new, segment |-> 0, rcpts |-> 0]],
             FromClient(c, Packet("MAIL", new))
      PROVE  \E p : Exchange(c, p)
  <2>1. PICK p, cl2, d2 : /\ p = Packet("MAIL", new) /\ d2 = d \cup {IF cl.mail = 0 THEN "mail" ELSE "mails"}
                          /\ cl2 = [at |-> "mail", mail |-> new, segment |-> 0, rcpts |-> 0]
    OBVIOUS
  <2>2. /\ p.verb = "MAIL" /\ p.mail = new /\ ~p.end /\ p.end \in BOOLEAN /\ p.token = <<"MAIL", new, 0>>
        /\ new \in Nat \ {0} /\ new \in 0..scene.mails
    BY <2>1, <1>2, SameClient DEF Packet
  <2>3. Says(p, cl, d, cl2, d2)
    BY <1>4, <2>1, <2>2 DEF Says
  <2>4. client' = [client EXCEPT ![c] = cl2] /\ did' = [did EXCEPT ![c] = d2]
    BY <1>1, <1>2, <1>4, <2>1, <2>2 DEF Did
  <2>5. cl2 \in Clients /\ d2 \in SUBSET Deeds
    BY <1>2, <2>1, <2>2 DEF Clients, Places, Deeds
  <2>6. p.token \in Tokens
    BY <2>2, TokenIs DEF ClientVerbs, ServerVerbs
  <2>7. Typed(c, p, cl2, d2)
    BY <1>1, <1>2, <2>2, <2>3, <2>4, <2>5, <2>6 DEF Typed
  <2> QED
    BY <1>3, <1>4, <2>1, <2>2, <2>7, Exchanged DEF ClientVerbs
<1>5. ASSUME cl.at \in {"mail", "rcpt"}, client' = [client EXCEPT ![c].at = "rcpt", ![c].rcpts = @ + 1],
             UNCHANGED did, FromClient(c, Packet("RCPT", cl.mail))
      PROVE  \E p : Exchange(c, p)
  <2>1. PICK p, cl2 : p = Packet("RCPT", cl.mail) /\ cl2 = [cl EXCEPT !.at = "rcpt", !.rcpts = @ + 1]
    OBVIOUS
  <2>2. /\ p.verb = "RCPT" /\ p.mail = cl.mail /\ ~p.end /\ p.end \in BOOLEAN /\ p.token = <<"RCPT", cl.mail, 0>>
        /\ cl.mail \in Nat
    BY <2>1, <1>2 DEF Packet
  <2>3. Says(p, cl, d, cl2, d)
    BY <1>5, <2>1, <2>2 DEF Says
  <2>4. client' = [client EXCEPT ![c] = cl2] /\ did' = [did EXCEPT ![c] = d]
    BY <1>1, <1>2, <1>5, <2>1, <2>2
  <2>5. cl2 \in Clients /\ d \in SUBSET Deeds
    <3>1. "rcpt" \in Places
      BY DEF Places
    <3>2. cl.rcpts + 1 \in Nat
      <4>1. cl.rcpts \in Nat
        BY <1>2
      <4> QED
        BY <4>1
    <3> QED
      BY <1>2, <2>1, <3>1, <3>2, ClientsAre
  <2>6. p.token \in Tokens
    BY <2>2, TokenIs DEF ClientVerbs, ServerVerbs
  <2>7. Typed(c, p, cl2, d)
    BY <1>1, <1>2, <2>2, <2>3, <2>4, <2>5, <2>6 DEF Typed
  <2> QED
    BY <1>3, <1>5, <2>1, <2>2, <2>7, Exchanged DEF ClientVerbs
<1>6. ASSUME cl.at = "rcpt", cl.segment = 0, Now(c, "data"), UNCHANGED did, FromClient(c, Packet("DATA", cl.mail))
      PROVE  \E p : Exchange(c, p)
  <2>1. PICK p, cl2 : p = Packet("DATA", cl.mail) /\ cl2 = [cl EXCEPT !.at = "data"]
    OBVIOUS
  <2>2. /\ p.verb = "DATA" /\ p.mail = cl.mail /\ ~p.end /\ p.end \in BOOLEAN /\ p.token = <<"DATA", cl.mail, 0>>
        /\ cl.mail \in Nat
    BY <2>1, <1>2 DEF Packet
  <2>3. Says(p, cl, d, cl2, d)
    BY <1>6, <2>1, <2>2 DEF Says
  <2>4. client' = [client EXCEPT ![c] = cl2] /\ did' = [did EXCEPT ![c] = d]
    BY <1>1, <1>2, <1>6, <2>1, <2>2 DEF Now
  <2>5. cl2 \in Clients /\ d \in SUBSET Deeds
    BY <1>2, <2>1, <2>2 DEF Clients, Places, Deeds
  <2>6. p.token \in Tokens
    BY <2>2, TokenIs DEF ClientVerbs, ServerVerbs
  <2>7. Typed(c, p, cl2, d)
    BY <1>1, <1>2, <2>2, <2>3, <2>4, <2>5, <2>6 DEF Typed
  <2> QED
    BY <1>3, <1>6, <2>1, <2>2, <2>7, Exchanged DEF ClientVerbs
<1>7. ASSUME cl.at = "data", Now(c, "body"), UNCHANGED did, FromServer(c, Packet("354", cl.mail))
      PROVE  \E p : Exchange(c, p)
  <2>1. PICK p, cl2 : p = Packet("354", cl.mail) /\ cl2 = [cl EXCEPT !.at = "body"]
    OBVIOUS
  <2>2. /\ p.verb = "354" /\ p.mail = cl.mail /\ ~p.end /\ p.end \in BOOLEAN /\ p.token = <<"354", cl.mail, 0>>
        /\ cl.mail \in Nat
    BY <2>1, <1>2 DEF Packet
  <2>3. Says(p, cl, d, cl2, d)
    BY <1>7, <2>1, <2>2 DEF Says
  <2>4. client' = [client EXCEPT ![c] = cl2] /\ did' = [did EXCEPT ![c] = d]
    BY <1>1, <1>2, <1>7, <2>1, <2>2 DEF Now
  <2>5. cl2 \in Clients /\ d \in SUBSET Deeds
    BY <1>2, <2>1, <2>2 DEF Clients, Places, Deeds
  <2>6. p.token \in Tokens
    BY <2>2, TokenIs DEF ClientVerbs, ServerVerbs
  <2>7. Typed(c, p, cl2, d)
    BY <1>1, <1>2, <2>2, <2>3, <2>4, <2>5, <2>6 DEF Typed
  <2> QED
    BY <1>3, <1>7, <2>1, <2>2, <2>7, Exchanged DEF ServerVerbs
<1>8. ASSUME NEW s, s = cl.segment + 1, cl.at = "body",
             client' = [client EXCEPT ![c].segment = s, ![c].at = IF s = Segments THEN "ready" ELSE "body"],
             IF s = Segments THEN Did(c, "body") ELSE UNCHANGED did,
             FromClient(c, BodyPacket("segment", cl.mail, s))
      PROVE  \E p : Exchange(c, p)
  <2>1. PICK p, cl2, d2 : /\ p = BodyPacket("segment", cl.mail, s)
                          /\ cl2 = [cl EXCEPT !.segment = @ + 1, !.at = IF p.end THEN "ready" ELSE "body"]
                          /\ d2 = IF p.end THEN d \cup {"body"} ELSE d
    OBVIOUS
  <2>2. /\ p.verb = "segment" /\ p.mail = cl.mail /\ p.end = (s = Segments) /\ p.end \in BOOLEAN
        /\ p.token = <<"segment", cl.mail, s>> /\ cl.mail \in Nat /\ s \in Nat
    BY <1>8, <2>1, <1>2 DEF BodyPacket
  <2>3. Says(p, cl, d, cl2, d2)
    BY <1>8, <2>1, <2>2 DEF Says
  <2>4. client' = [client EXCEPT ![c] = cl2] /\ did' = [did EXCEPT ![c] = d2]
    BY <1>1, <1>2, <1>8, <2>1, <2>2 DEF Did
  <2>5. /\ cl2 \in Clients
        /\ d2 \in SUBSET Deeds
    <3>1. "ready" \in Places /\ "body" \in Places
      BY DEF Places
    <3>2. cl.segment + 1 \in Nat
      BY <1>8, <2>2
    <3> QED
      BY <1>2, <2>1, <3>1, <3>2, ClientsAre DEF Deeds
  <2>7. p.token \in Tokens
    BY <1>2, <2>2 DEF ClientVerbs
  <2>6. Typed(c, p, cl2, d2)
    BY <1>1, <2>2, <2>3, <2>4, <2>5, <2>7 DEF Typed
  <2> QED
    BY <1>3, <1>8, <2>1, <2>2, <2>6, Exchanged DEF ClientVerbs
<1> QED
  BY <1>1, <1>4, <1>5, <1>6, <1>7, <1>8 DEF Client

\* The commands beside the plain ones are Exchanges as well.
LEMMA ExtrasAre ==
    ASSUME SessionInv, NEW c \in Keys, ClientExtras(c) PROVE \E p : Exchange(c, p)
<1>1. PICK cl, d : cl = client[c] /\ d = did[c]
  OBVIOUS
<1>2. /\ cl \in Clients
      /\ d \in SUBSET Deeds /\ 0..scene.mails \subseteq Nat /\ cl.mail \in Nat /\ cl.segment \in Nat /\ cl.rcpts \in Nat
      /\ cl.mail \in 0..scene.mails /\ cl.at \in Places
      /\ cl = [at |-> cl.at, mail |-> cl.mail, segment |-> cl.segment, rcpts |-> cl.rcpts]
      /\ \A n \in Nat : \A v \in ClientVerbs \cup ServerVerbs : <<v, cl.mail, n>> \in Tokens
      /\ did = [did EXCEPT ![c] = d] /\ client = [client EXCEPT ![c] = cl]
  BY <1>1, SameClient DEF Clients, Tokens
<1>3. ~down /\ UNCHANGED <<scene, worker, posted>>
  BY DEF ClientExtras
<1>4. ASSUME NEW v, NEW a, NEW d2, NEW p, NEW cl2, p = Packet(v, cl.mail), d2 \in SUBSET Deeds,
             v \in ClientVerbs \cup ServerVerbs, a \in Places, cl2 = [cl EXCEPT !.at = a],
             did' = [did EXCEPT ![c] = d2], client' = [client EXCEPT ![c] = cl2],
             Says(p, cl, d, cl2, d2),
             \/ v \in ClientVerbs /\ FromClient(c, p)
             \/ v \in ServerVerbs /\ FromServer(c, p)
      PROVE  Exchange(c, p)
  <2>1. /\ p.verb = v /\ p.mail = cl.mail /\ p.end \in BOOLEAN /\ p.token = <<v, cl.mail, 0>> /\ cl.mail \in Nat
    BY <1>2, <1>4 DEF Packet, ClientVerbs, ServerVerbs
  <2>3. p.token \in Tokens
    BY <1>2, <1>4, <2>1
  <2>4. cl2 \in Clients
    BY <1>2, <1>4 DEF Clients
  <2>2. Typed(c, p, cl2, d2)
    BY <1>1, <1>4, <2>1, <2>3, <2>4 DEF Typed
  <2> QED
    BY <1>3, <1>4, <2>1, <2>2, Exchanged
<1>5. ASSUME NEW v, NEW p, p = Packet(v, cl.mail) PROVE p.verb = v /\ p.mail = cl.mail /\ ~p.end
  <2>1. p.end = (v = "segment" /\ FALSE) \/ p.end = FALSE
    BY <1>5 DEF Packet
  <2> QED
    BY <1>5, <2>1 DEF Packet
<1>6. ASSUME cl.at = "ready", Now(c, "quit"), UNCHANGED did, FromClient(c, Packet("QUIT", cl.mail))
      PROVE  \E p : Exchange(c, p)
  <2>1. PICK p, cl2 : p = Packet("QUIT", cl.mail) /\ cl2 = [cl EXCEPT !.at = "quit"]
    OBVIOUS
  <2>2. Says(p, cl, d, cl2, d)
    BY <1>5, <1>6, <2>1 DEF Says
  <2>3. client' = [client EXCEPT ![c] = cl2] /\ did' = [did EXCEPT ![c] = d]
    BY <1>1, <1>2, <1>6, <2>1 DEF Now
  <2>9. "QUIT" \in ClientVerbs /\ "quit" \in Places
    BY DEF ClientVerbs, Places
  <2> QED
    BY <1>2, <1>4, <1>6, <2>1, <2>2, <2>3, <2>9
<1>7. ASSUME cl.at = "quit", Now(c, "closed"), UNCHANGED did, FromServer(c, Packet("221", cl.mail))
      PROVE  \E p : Exchange(c, p)
  <2>1. PICK p, cl2 : p = Packet("221", cl.mail) /\ cl2 = [cl EXCEPT !.at = "closed"]
    OBVIOUS
  <2>2. Says(p, cl, d, cl2, d)
    BY <1>5, <1>7, <2>1 DEF Says
  <2>3. client' = [client EXCEPT ![c] = cl2] /\ did' = [did EXCEPT ![c] = d]
    BY <1>1, <1>2, <1>7, <2>1 DEF Now
  <2>9. "221" \in ServerVerbs /\ "closed" \in Places
    BY DEF ServerVerbs, Places
  <2> QED
    BY <1>2, <1>4, <1>7, <2>1, <2>2, <2>3, <2>9
<1>8. ASSUME cl.at = "data", Now(c, "ready"), Did(c, "refused"), FromServer(c, Packet("5xx", cl.mail))
      PROVE  \E p : Exchange(c, p)
  <2>1. PICK p, cl2, d2 : p = Packet("5xx", cl.mail) /\ cl2 = [cl EXCEPT !.at = "ready"] /\ d2 = d \cup {"refused"}
    OBVIOUS
  <2>2. Says(p, cl, d, cl2, d2)
    BY <1>5, <1>8, <2>1 DEF Says
  <2>3. client' = [client EXCEPT ![c] = cl2] /\ did' = [did EXCEPT ![c] = d2] /\ d2 \in SUBSET Deeds
    BY <1>1, <1>2, <1>8, <2>1 DEF Now, Did, Deeds
  <2>9. "5xx" \in ServerVerbs /\ "ready" \in Places
    BY DEF ServerVerbs, Places
  <2> QED
    BY <1>2, <1>4, <1>8, <2>1, <2>2, <2>3, <2>9
<1>9. ASSUME cl.at \in {"ready", "mail", "rcpt"}, Now(c, "ready"), Did(c, "RSET"), FromClient(c, Packet("RSET", cl.mail))
      PROVE  \E p : Exchange(c, p)
  <2>1. PICK p, cl2, d2 : p = Packet("RSET", cl.mail) /\ cl2 = [cl EXCEPT !.at = "ready"] /\ d2 = d \cup {"RSET"}
    OBVIOUS
  <2>2. Says(p, cl, d, cl2, d2)
    BY <1>5, <1>9, <2>1 DEF Says
  <2>3. client' = [client EXCEPT ![c] = cl2] /\ did' = [did EXCEPT ![c] = d2] /\ d2 \in SUBSET Deeds
    BY <1>1, <1>2, <1>9, <2>1 DEF Now, Did, Deeds
  <2>9. "RSET" \in ClientVerbs /\ "ready" \in Places
    BY DEF ClientVerbs, Places
  <2> QED
    BY <1>2, <1>4, <1>9, <2>1, <2>2, <2>3, <2>9
<1>10. ASSUME cl.at = "ready", d = {}, Did(c, "STARTTLS"), UNCHANGED client, FromClient(c, Packet("STARTTLS", cl.mail))
      PROVE  \E p : Exchange(c, p)
  <2>1. PICK p, cl2, d2 : p = Packet("STARTTLS", cl.mail) /\ cl2 = [cl EXCEPT !.at = "ready"] /\ d2 = d \cup {"STARTTLS"}
    OBVIOUS
  <2>2. cl2 = cl
    BY <1>2, <1>10, <2>1
  <2>3. Says(p, cl, d, cl2, d2)
    BY <1>5, <1>10, <2>1, <2>2 DEF Says
  <2>4. client' = [client EXCEPT ![c] = cl2] /\ did' = [did EXCEPT ![c] = d2] /\ d2 \in SUBSET Deeds
    BY <1>1, <1>2, <1>10, <2>1, <2>2 DEF Did, Deeds
  <2>9. "STARTTLS" \in ClientVerbs /\ "ready" \in Places
    BY DEF ClientVerbs, Places
  <2> QED
    <3>1. FromClient(c, p)
      BY <1>10, <2>1
    <3> QED
      BY <1>4, <2>1, <2>3, <2>4, <2>9, <3>1
<1>11. ASSUME cl.at = "rcpt", Did(c, "BDAT"), NEW v \in {"BDAT", "BDAT LAST"},
              Now(c, IF v = "BDAT" THEN "chunk" ELSE "last chunk"), FromClient(c, Packet(v, cl.mail))
      PROVE  \E p : Exchange(c, p)
  <2>1. PICK p, a, cl2, d2 : /\ p = Packet(v, cl.mail) /\ a = IF v = "BDAT" THEN "chunk" ELSE "last chunk"
                             /\ cl2 = [cl EXCEPT !.at = a] /\ d2 = d \cup {"BDAT"}
    OBVIOUS
  <2>2. Says(p, cl, d, cl2, d2)
    BY <1>5, <1>11, <2>1 DEF Says
  <2>3. client' = [client EXCEPT ![c] = cl2] /\ did' = [did EXCEPT ![c] = d2] /\ d2 \in SUBSET Deeds
    BY <1>1, <1>2, <1>11, <2>1 DEF Now, Did, Deeds
  <2>4. a \in Places /\ v \in ClientVerbs
    BY <2>1, <1>11 DEF ClientVerbs, Places
  <2> QED
    BY <1>2, <1>4, <1>11, <2>1, <2>2, <2>3, <2>4
<1>12. ASSUME cl.at \in {"chunk", "last chunk"}, NEW s, s = cl.segment + 1, NEW done,
              done = (IF cl.at = "chunk" /\ s < 2 * Segments THEN "rcpt" ELSE "ready"),
              client' = [client EXCEPT ![c].segment = s, ![c].at = IF s % Segments = 0 THEN done ELSE cl.at],
              UNCHANGED did, FromClient(c, BodyPacket("chunk", cl.mail, s))
      PROVE  \E p : Exchange(c, p)
  <2>1. PICK p, a, cl2 : /\ p = BodyPacket("chunk", cl.mail, s) /\ a = (IF s % Segments = 0 THEN done ELSE cl.at)
                         /\ cl2 = [cl EXCEPT !.segment = @ + 1, !.at = a]
    OBVIOUS
  <2>2. /\ p.verb = "chunk" /\ p.mail = cl.mail /\ ~p.end /\ p.end \in BOOLEAN
        /\ p.token = <<"chunk", cl.mail, s>> /\ cl.mail \in Nat /\ s \in Nat
    <3>1. p = [verb |-> "chunk", mail |-> cl.mail, token |-> <<"chunk", cl.mail, s>>, end |-> FALSE]
      BY <2>1 DEF BodyPacket
    <3>2. cl.mail \in Nat /\ cl.segment \in Nat
      BY <1>2
    <3>3. s \in Nat
      <4>1. s = cl.segment + 1
        BY ONLY <1>12
      <4> QED
        BY <3>2, <4>1
    <3> QED
      BY <3>1, <3>2, <3>3
  <2>3. a \in {"ready", "rcpt", cl.at} /\ (a = "rcpt" => cl.at = "chunk")
    BY <1>12, <2>1
  <2>4. Says(p, cl, d, cl2, d)
    BY <1>12, <2>1, <2>2, <2>3 DEF Says
  <2>5. client' = [client EXCEPT ![c] = cl2] /\ did' = [did EXCEPT ![c] = d]
    BY <1>1, <1>2, <1>12, <2>1, ZenonT(60)
  <2>6. cl2 \in Clients
    <3>1. a \in Places
      BY <1>2, <2>3 DEF Places
    <3>2. cl.segment + 1 \in Nat
      BY <1>12, <2>2
    <3> QED
      BY <1>2, <2>1, <3>1, <3>2, ClientsAre
  <2>8. p.token \in Tokens
    BY <1>2, <2>2 DEF ClientVerbs
  <2>7. Typed(c, p, cl2, d)
    BY <1>1, <1>2, <2>2, <2>4, <2>5, <2>6, <2>8 DEF Typed
  <2> QED
    BY <1>3, <1>12, <2>1, <2>2, <2>7, Exchanged DEF ClientVerbs
<1> QED
  BY <1>1, <1>6, <1>7, <1>8, <1>9, <1>10, <1>11, <1>12 DEF ClientExtras

-----------------------------------------------------------------------------
(* Types of what changes *)

\* A cleared SmtpSession_t, and one that has a sender.
LEMMA NewMailIs == NewMail \in Mail /\ BlocksOfMail(NewMail) = 1 /\ \A n \in Nat \ {0} :
    [NewMail EXCEPT !.mail_from = n] \in Mail /\ BlocksOfMail([NewMail EXCEPT !.mail_from = n]) = 2
<1>1. NewMail \in Mail
  BY DEF NewMail, Mail, NULL
<1>2. BlocksOfMail(NewMail) = 1
  BY DEF NewMail, BlocksOfMail, One, NULL
<1>3. ASSUME NEW n \in Nat \ {0} PROVE /\ [NewMail EXCEPT !.mail_from = n] \in Mail
                                       /\ BlocksOfMail([NewMail EXCEPT !.mail_from = n]) = 2
  <2>1. PICK m : m = [NewMail EXCEPT !.mail_from = n]
    OBVIOUS
  <2>2. m \in Mail
    BY <1>1, <2>1 DEF Mail
  <2>3. /\ m.mail_from = n /\ m.rcpt_to = <<>> /\ m.mail_body_name = 0 /\ m.mail_body_dir = FALSE
        /\ m.result_json = FALSE
    BY <2>1 DEF NewMail, NULL
  <2>4. BlocksOfMail(m) = 2
    BY <2>3 DEF BlocksOfMail, One, NULL
  <2> QED
    BY <2>1, <2>2, <2>4
<1> QED
  BY <1>1, <1>2, <1>3

\* A sequence with one element replaced.
LEMMA ExceptIs ==
    ASSUME NEW S, NEW s \in Seq(S), NEW i \in 1..Len(s), NEW x \in S
    PROVE  /\ [s EXCEPT ![i] = x] \in Seq(S) /\ Len([s EXCEPT ![i] = x]) = Len(s)
           /\ [s EXCEPT ![i] = x][i] = x /\ \A j \in 1..Len(s) : j # i => [s EXCEPT ![i] = x][j] = s[j]
OBVIOUS

\* A mail of the chain is changed.
LEMMA Updated ==
    ASSUME ChainInv, NEW b \in DOMAIN chain, NEW i \in 1..Len(chain[b]), NEW m2 \in Mail, Update(b, i, m2)
    PROVE  /\ DOMAIN chain' = DOMAIN chain /\ chain' = [a \in DOMAIN chain' |-> chain'[a]]
           /\ chain'[b] = [chain[b] EXCEPT ![i] = m2]
           /\ chain'[b] \in Seq(Mail) /\ Len(chain'[b]) = Len(chain[b]) /\ chain'[b][i] = m2
           /\ \A j \in 1..Len(chain[b]) : j # i => chain'[b][j] = chain[b][j]
           /\ \A a \in DOMAIN chain : a # b => chain'[a] = chain[a]
<1>1. chain[b] \in Seq(Mail) /\ chain = [a \in DOMAIN chain |-> chain[a]]
  BY DEF ChainInv
<1>2. chain' = [chain EXCEPT ![b] = [chain[b] EXCEPT ![i] = m2]]
  BY DEF Update
<1>3. chain'[b] = [chain[b] EXCEPT ![i] = m2]
  BY <1>1, <1>2
<1>4. /\ chain'[b] \in Seq(Mail) /\ Len(chain'[b]) = Len(chain[b]) /\ chain'[b][i] = m2
      /\ \A j \in 1..Len(chain[b]) : j # i => chain'[b][j] = chain[b][j]
  BY <1>1, <1>3, ExceptIs
<1>5. /\ DOMAIN chain' = DOMAIN chain /\ chain' = [a \in DOMAIN chain' |-> chain'[a]]
      /\ \A a \in DOMAIN chain : a # b => chain'[a] = chain[a]
  BY <1>1, <1>2
<1> QED
  BY <1>3, <1>4, <1>5

\* A mail is put to its end.
LEMMA Appended ==
    ASSUME ChainInv, NEW b \in DOMAIN chain, NEW i \in 1..Len(chain[b]) \cup {Len(chain[b]) + 1}, NEW m2 \in Mail,
           chain' = [chain EXCEPT ![b] = Append(SubSeq(chain[b], 1, i - 1), m2)]
    PROVE  /\ DOMAIN chain' = DOMAIN chain /\ chain' = [a \in DOMAIN chain' |-> chain'[a]]
           /\ chain'[b] = Append(SubSeq(chain[b], 1, i - 1), m2)
           /\ chain'[b] \in Seq(Mail) /\ Len(chain'[b]) = i /\ chain'[b][i] = m2
           /\ \A j \in 1..(i - 1) : chain'[b][j] = chain[b][j]
           /\ \A a \in DOMAIN chain : a # b => chain'[a] = chain[a]
<1>1. chain[b] \in Seq(Mail) /\ chain = [a \in DOMAIN chain |-> chain[a]] /\ i \in Nat \ {0}
  BY DEF ChainInv
<1>2. PICK r : r = SubSeq(chain[b], 1, i - 1)
  OBVIOUS
<1>3. r \in Seq(Mail) /\ Len(r) = i - 1 /\ \A j \in 1..(i - 1) : r[j] = chain[b][j]
  BY <1>1, <1>2
<1>4. chain'[b] = Append(r, m2)
  BY <1>1, <1>2
<1>5. /\ chain'[b] \in Seq(Mail) /\ Len(chain'[b]) = i /\ chain'[b][i] = m2
      /\ \A j \in 1..(i - 1) : chain'[b][j] = chain[b][j]
  BY <1>1, <1>3, <1>4, SMTT(60)
<1>6. /\ DOMAIN chain' = DOMAIN chain /\ chain' = [a \in DOMAIN chain' |-> chain'[a]]
      /\ \A a \in DOMAIN chain : a # b => chain'[a] = chain[a]
  BY <1>1
<1> QED
  BY <1>2, <1>4, <1>5, <1>6

\* All of a sequence, as the search in it writes it.
LEMMA SubAll == ASSUME NEW s \in Seq(Mail) PROVE SubSeq(s, 1, (Len(s) + 1) - 1) = s
BY SubSeqFull

\* The blocks of a mail, field by field.
LEMMA BlocksAre ==
    ASSUME NEW m \in Mail
    PROVE  \E f, e, d, j \in 0..1, L \in Nat :
              /\ L = Len(m.rcpt_to) /\ f = One(m.mail_from # NULL) /\ e = One(m.mail_body_name # NULL)
              /\ d = One(m.mail_body_dir) /\ j = One(m.result_json)
              /\ BlocksOfMail(m) = 1 + f + 2 * L + e + d + j
<1>1. \A b \in BOOLEAN : One(b) \in 0..1
  BY DEF One
<1>2. Len(m.rcpt_to) \in Nat /\ m.mail_body_dir \in BOOLEAN /\ m.result_json \in BOOLEAN
  BY DEF Mail
<1>3. /\ One(m.mail_from # NULL) \in 0..1 /\ One(m.mail_body_name # NULL) \in 0..1
      /\ One(m.mail_body_dir) \in 0..1 /\ One(m.result_json) \in 0..1
  BY <1>2 DEF One
<1> QED
  BY <1>2, <1>3 DEF BlocksOfMail

\* The types of what a packet changes; blocks are never taken for less than they are.
LEMMA ChangeIs ==
    ASSUME NEW c \in Keys, NEW m \in Mail, NEW p, NEW m2, NEW k, Change(c, m, p, m2, k),
           p.mail \in Nat, p.token \in Tokens, files \in Seq(Seq(Tokens)), ring \in Seq(Keys), failed \in BOOLEAN
    PROVE  /\ m2 \in Mail /\ k \in 0..2 /\ files' \in Seq(Seq(Tokens)) /\ ring' \in Seq(Keys)
           /\ failed' \in BOOLEAN /\ BlocksOfMail(m2) <= BlocksOfMail(m) + k
<1>1. Segments \in Nat
  BY SmtpSessionAssumption
<1>2. m = [mail_from |-> m.mail_from, rcpt_to |-> m.rcpt_to, mail_body_name |-> m.mail_body_name,
           mail_body_dir |-> m.mail_body_dir, result_json |-> m.result_json, starttls |-> m.starttls,
           data_store_flag |-> m.data_store_flag, data_seen |-> m.data_seen, bdat_seen |-> m.bdat_seen,
           dot_seen |-> m.dot_seen, quit_seen |-> m.quit_seen, bdat_total_len |-> m.bdat_total_len,
           bdat_read_len |-> m.bdat_read_len, bdat_last |-> m.bdat_last, session_quit_flag |-> m.session_quit_flag]
  BY DEF Mail
<1>20. /\ m.mail_from \in Nat /\ m.rcpt_to \in Seq(Nat) /\ m.mail_body_name \in Nat
       /\ m.mail_body_dir \in BOOLEAN /\ m.result_json \in BOOLEAN /\ m.starttls \in BOOLEAN
       /\ m.data_store_flag \in {"WAIT", "START", "END"} /\ m.data_seen \in BOOLEAN /\ m.bdat_seen \in BOOLEAN
       /\ m.dot_seen \in BOOLEAN /\ m.quit_seen \in BOOLEAN /\ m.bdat_total_len \in Nat
       /\ m.bdat_read_len \in Nat /\ m.bdat_last \in BOOLEAN /\ m.session_quit_flag \in BOOLEAN
  BY DEF Mail
<1>3. BlocksOfMail(m) \in Nat
  BY BlocksNat
<1>4. ASSUME m2 \in Mail, m2.mail_from = m.mail_from, m2.rcpt_to = m.rcpt_to, m2.mail_body_name = m.mail_body_name,
             m2.mail_body_dir = m.mail_body_dir, m2.result_json = m.result_json
      PROVE  BlocksOfMail(m2) = BlocksOfMail(m)
  BY <1>4 DEF BlocksOfMail
<1>5. ASSUME NEW f, f = [files EXCEPT ![m.mail_body_name] = Append(@, p.token)]
      PROVE  f \in Seq(Seq(Tokens))
  <2>1. CASE m.mail_body_name \in 1..Len(files)
    <3>1. Append(files[m.mail_body_name], p.token) \in Seq(Tokens)
      BY <2>1
    <3> QED
      BY <1>5, <2>1, <3>1, ExceptIs
  <2>2. CASE m.mail_body_name \notin 1..Len(files)
    <3>1. f = files
      BY <1>5, <2>2
    <3> QED
      BY <3>1
  <2> QED
    BY <2>1, <2>2
<1>6. ASSUME NEW r, r = Append(ring, c) PROVE r \in Seq(Keys)
  BY <1>6
<1>7. CASE UNCHANGED <<files, ring, failed>> /\ k = 0 /\ m2 \in Mail /\ BlocksOfMail(m2) = BlocksOfMail(m)
  BY <1>3, <1>7
<1>8. ASSUME \/ m2 = [m EXCEPT !.starttls = TRUE]
             \/ m2 = [m EXCEPT !.quit_seen = TRUE]
             \/ m2 = [m EXCEPT !.data_seen = TRUE, !.bdat_seen = FALSE]
             \/ m2 = [m EXCEPT !.bdat_seen = TRUE, !.data_seen = FALSE, !.data_store_flag = "START", !.bdat_total_len = Segments]
             \/ m2 = [m EXCEPT !.bdat_last = TRUE, !.bdat_total_len = Segments]
             \/ m2 = [m EXCEPT !.session_quit_flag = TRUE]
             \/ m2 = [m EXCEPT !.data_seen = FALSE, !.bdat_seen = FALSE, !.dot_seen = TRUE, !.data_store_flag = "END"]
             \/ m2 = [m EXCEPT !.data_store_flag = "END"]
             \/ m2 = m
             \/ m2 = [m EXCEPT !.data_store_flag = "END", !.bdat_read_len = 0, !.bdat_total_len = 0]
             \/ m2 = [m EXCEPT !.bdat_read_len = @ + 1]
      PROVE  m2 \in Mail /\ BlocksOfMail(m2) = BlocksOfMail(m)
  <2>1. m2 \in Mail
    <3>1. CASE m2 = [m EXCEPT !.starttls = TRUE]
      BY <1>1, <1>20, <3>1 DEF Mail
    <3>2. CASE m2 = [m EXCEPT !.quit_seen = TRUE]
      BY <1>1, <1>20, <3>2 DEF Mail
    <3>3. CASE m2 = [m EXCEPT !.data_seen = TRUE, !.bdat_seen = FALSE]
      BY <1>1, <1>20, <3>3 DEF Mail
    <3>4. CASE m2 = [m EXCEPT !.bdat_seen = TRUE, !.data_seen = FALSE, !.data_store_flag = "START", !.bdat_total_len = Segments]
      BY <1>1, <1>20, <3>4 DEF Mail
    <3>5. CASE m2 = [m EXCEPT !.bdat_last = TRUE, !.bdat_total_len = Segments]
      BY <1>1, <1>20, <3>5 DEF Mail
    <3>6. CASE m2 = [m EXCEPT !.session_quit_flag = TRUE]
      BY <1>1, <1>20, <3>6 DEF Mail
    <3>7. CASE m2 = [m EXCEPT !.data_seen = FALSE, !.bdat_seen = FALSE, !.dot_seen = TRUE, !.data_store_flag = "END"]
      BY <1>1, <1>20, <3>7 DEF Mail
    <3>8. CASE m2 = [m EXCEPT !.data_store_flag = "END"]
      BY <1>1, <1>20, <3>8 DEF Mail
    <3>9. CASE m2 = m
      BY <1>1, <1>20, <3>9 DEF Mail
    <3>10. CASE m2 = [m EXCEPT !.data_store_flag = "END", !.bdat_read_len = 0, !.bdat_total_len = 0]
      BY <1>1, <1>20, <3>10 DEF Mail
    <3>11. CASE m2 = [m EXCEPT !.bdat_read_len = @ + 1]
      <4>1. m.bdat_read_len + 1 \in Nat
        BY <1>20
      <4>2. m2 = [m EXCEPT !.bdat_read_len = m.bdat_read_len + 1]
        BY <3>11
      <4> QED
        BY <4>1, <4>2 DEF Mail
    <3> QED
      BY <1>8, <3>1, <3>2, <3>3, <3>4, <3>5, <3>6, <3>7, <3>8, <3>9, <3>10, <3>11
  <2>2. /\ m2.mail_from = m.mail_from /\ m2.rcpt_to = m.rcpt_to /\ m2.mail_body_name = m.mail_body_name
        /\ m2.mail_body_dir = m.mail_body_dir /\ m2.result_json = m.result_json
    BY <1>2, <1>8
  <2> QED
    BY <1>4, <2>1, <2>2
<1>9. CASE m.mail_from = NULL /\ m2 = [m EXCEPT !.mail_from = p.mail] /\ k = 1 /\ UNCHANGED <<files, ring, failed>>
  <2>1. m2 \in Mail
    BY <1>9 DEF Mail
  <2>2. BlocksOfMail(m2) <= BlocksOfMail(m) + 1
    BY <1>2, <1>9, <2>1 DEF BlocksOfMail, One, Mail
  <2> QED
    BY <1>9, <2>1, <2>2
<1>10. CASE m2 = [m EXCEPT !.rcpt_to = Append(@, p.mail)] /\ k = 2 /\ UNCHANGED <<files, ring, failed>>
  <2>0. Append(m.rcpt_to, p.mail) \in Seq(Nat)
    BY <1>20 DEF NULL
  <2>9. m2 = [m EXCEPT !.rcpt_to = Append(m.rcpt_to, p.mail)]
    BY <1>10
  <2>1. m2 \in Mail
    BY <2>0, <2>9 DEF Mail
  <2>2. Len(m2.rcpt_to) = Len(m.rcpt_to) + 1 /\ Len(m.rcpt_to) \in Nat
    BY <1>10, <2>1 DEF Mail
  <2>3. /\ m2.mail_from = m.mail_from /\ m2.mail_body_name = m.mail_body_name
        /\ m2.mail_body_dir = m.mail_body_dir /\ m2.result_json = m.result_json
    BY <1>2, <1>10
  <2>4. BlocksOfMail(m2) <= BlocksOfMail(m) + 2
    <3>1. PICK f, e, d, j \in 0..1, L \in Nat :
              /\ L = Len(m.rcpt_to) /\ f = One(m.mail_from # NULL) /\ e = One(m.mail_body_name # NULL)
              /\ d = One(m.mail_body_dir) /\ j = One(m.result_json)
              /\ BlocksOfMail(m) = 1 + f + 2 * L + e + d + j
      BY BlocksAre
    <3>2. PICK f2, n2, d2, j2 \in 0..1, L2 \in Nat :
              /\ L2 = Len(m2.rcpt_to) /\ f2 = One(m2.mail_from # NULL) /\ n2 = One(m2.mail_body_name # NULL)
              /\ d2 = One(m2.mail_body_dir) /\ j2 = One(m2.result_json)
              /\ BlocksOfMail(m2) = 1 + f2 + 2 * L2 + n2 + d2 + j2
      BY <2>1, BlocksAre
    <3>3. f2 = f /\ n2 = e /\ d2 = d /\ j2 = j /\ L2 = L + 1
      BY <2>2, <2>3, <3>1, <3>2
    <3>4. BlocksOfMail(m) = 1 + f + 2 * L + e + d + j /\ BlocksOfMail(m2) = 1 + f2 + 2 * L2 + n2 + d2 + j2
      BY <3>1, <3>2
    <3> QED
      BY <3>3, <3>4
  <2> QED
    BY <1>10, <2>1, <2>4
<1>11. CASE /\ failed' = TRUE /\ m.rcpt_to = <<>> /\ m2 = [m EXCEPT !.rcpt_to = <<NULL>>] /\ k = 2
            /\ UNCHANGED <<files, ring>>
  <2>0. <<NULL>> \in Seq(Nat)
    BY <1>20 DEF NULL
  <2>9. m2 = [m EXCEPT !.rcpt_to = <<NULL>>]
    BY <1>11
  <2>1. m2 \in Mail
    BY <2>0, <2>9 DEF Mail
  <2>2. Len(m2.rcpt_to) = 1 /\ Len(m.rcpt_to) = 0
    BY <1>11, <2>1 DEF Mail
  <2>3. /\ m2.mail_from = m.mail_from /\ m2.mail_body_name = m.mail_body_name
        /\ m2.mail_body_dir = m.mail_body_dir /\ m2.result_json = m.result_json
    BY <1>2, <1>11
  <2>4. BlocksOfMail(m2) <= BlocksOfMail(m) + 2
    <3>1. PICK f, e, d, j \in 0..1, L \in Nat :
              /\ L = Len(m.rcpt_to) /\ f = One(m.mail_from # NULL) /\ e = One(m.mail_body_name # NULL)
              /\ d = One(m.mail_body_dir) /\ j = One(m.result_json)
              /\ BlocksOfMail(m) = 1 + f + 2 * L + e + d + j
      BY BlocksAre
    <3>2. PICK f2, n2, d2, j2 \in 0..1, L2 \in Nat :
              /\ L2 = Len(m2.rcpt_to) /\ f2 = One(m2.mail_from # NULL) /\ n2 = One(m2.mail_body_name # NULL)
              /\ d2 = One(m2.mail_body_dir) /\ j2 = One(m2.result_json)
              /\ BlocksOfMail(m2) = 1 + f2 + 2 * L2 + n2 + d2 + j2
      BY <2>1, BlocksAre
    <3>3. f2 = f /\ n2 = e /\ d2 = d /\ j2 = j /\ L2 = L + 1
      BY <2>2, <2>3, <3>1, <3>2
    <3>4. BlocksOfMail(m) = 1 + f + 2 * L + e + d + j /\ BlocksOfMail(m2) = 1 + f2 + 2 * L2 + n2 + d2 + j2
      BY <3>1, <3>2
    <3> QED
      BY <3>3, <3>4
  <2> QED
    BY <1>11, <2>1, <2>4
<1>12. ASSUME files' = Append(files, <<>>), UNCHANGED ring,
              \/ /\ m2 = [m EXCEPT !.data_store_flag = "START", !.mail_body_name = Len(files) + 1,
                                    !.mail_body_dir = TRUE]
                 /\ k = 2 /\ UNCHANGED failed
              \/ /\ m2 = [m EXCEPT !.data_store_flag = "START", !.mail_body_name = Len(files) + 1]
                 /\ k = 1 /\ failed' = TRUE
              \/ /\ m2 = [m EXCEPT !.data_store_flag = "START", !.mail_body_name = NULL]
                 /\ k = 0 /\ failed' = TRUE
       PROVE  /\ m2 \in Mail /\ k \in 0..2 /\ files' \in Seq(Seq(Tokens)) /\ ring' \in Seq(Keys)
              /\ failed' \in BOOLEAN /\ BlocksOfMail(m2) <= BlocksOfMail(m) + k
  <2>1. PICK n : n = Len(files) + 1
    OBVIOUS
  <2>2. n \in Nat \ {0} /\ files' \in Seq(Seq(Tokens)) /\ Len(m.rcpt_to) \in Nat
    BY <1>12, <1>20, <2>1
  <2>3. CASE /\ m2 = [m EXCEPT !.data_store_flag = "START", !.mail_body_name = n, !.mail_body_dir = TRUE]
             /\ k = 2 /\ UNCHANGED failed
    <3>1. m2 \in Mail
      BY <2>2, <2>3 DEF Mail
    <3>2. /\ m2.mail_from = m.mail_from /\ m2.rcpt_to = m.rcpt_to /\ m2.result_json = m.result_json
      BY <1>2, <2>3
    <3>3. BlocksOfMail(m2) <= BlocksOfMail(m) + 2
      <4>1. PICK f, e, d, j \in 0..1, L \in Nat :
                /\ L = Len(m.rcpt_to) /\ f = One(m.mail_from # NULL) /\ e = One(m.mail_body_name # NULL)
                /\ d = One(m.mail_body_dir) /\ j = One(m.result_json)
                /\ BlocksOfMail(m) = 1 + f + 2 * L + e + d + j
        BY BlocksAre
      <4>2. PICK f2, n2, d2, j2 \in 0..1, L2 \in Nat :
                /\ L2 = Len(m2.rcpt_to) /\ f2 = One(m2.mail_from # NULL) /\ n2 = One(m2.mail_body_name # NULL)
                /\ d2 = One(m2.mail_body_dir) /\ j2 = One(m2.result_json)
                /\ BlocksOfMail(m2) = 1 + f2 + 2 * L2 + n2 + d2 + j2
        BY <3>1, BlocksAre
      <4>3. f2 = f /\ j2 = j /\ L2 = L
        BY <3>2, <4>1, <4>2 DEF One
      <4>4. BlocksOfMail(m) = 1 + f + 2 * L + e + d + j /\ BlocksOfMail(m2) = 1 + f2 + 2 * L2 + n2 + d2 + j2
        BY <4>1, <4>2
      <4> QED
        BY <4>3, <4>4
    <3> QED
      BY <1>12, <2>2, <2>3, <3>1, <3>3
  <2>4. CASE /\ m2 = [m EXCEPT !.data_store_flag = "START", !.mail_body_name = n]
             /\ k = 1 /\ failed' = TRUE
    <3>1. m2 \in Mail
      BY <2>2, <2>4 DEF Mail
    <3>2. /\ m2.mail_from = m.mail_from /\ m2.rcpt_to = m.rcpt_to /\ m2.result_json = m.result_json
          /\ m2.mail_body_dir = m.mail_body_dir
      BY <1>2, <2>4
    <3>3. BlocksOfMail(m2) <= BlocksOfMail(m) + 1
      <4>1. PICK f, e, d, j \in 0..1, L \in Nat :
                /\ L = Len(m.rcpt_to) /\ f = One(m.mail_from # NULL) /\ e = One(m.mail_body_name # NULL)
                /\ d = One(m.mail_body_dir) /\ j = One(m.result_json)
                /\ BlocksOfMail(m) = 1 + f + 2 * L + e + d + j
        BY BlocksAre
      <4>2. PICK f2, n2, d2, j2 \in 0..1, L2 \in Nat :
                /\ L2 = Len(m2.rcpt_to) /\ f2 = One(m2.mail_from # NULL) /\ n2 = One(m2.mail_body_name # NULL)
                /\ d2 = One(m2.mail_body_dir) /\ j2 = One(m2.result_json)
                /\ BlocksOfMail(m2) = 1 + f2 + 2 * L2 + n2 + d2 + j2
        BY <3>1, BlocksAre
      <4>3. f2 = f /\ j2 = j /\ d2 = d /\ L2 = L
        BY <3>2, <4>1, <4>2 DEF One
      <4>4. BlocksOfMail(m) = 1 + f + 2 * L + e + d + j /\ BlocksOfMail(m2) = 1 + f2 + 2 * L2 + n2 + d2 + j2
        BY <4>1, <4>2
      <4> QED
        BY <4>3, <4>4
    <3> QED
      BY <1>12, <2>2, <2>4, <3>1, <3>3
  <2>5. CASE /\ m2 = [m EXCEPT !.data_store_flag = "START", !.mail_body_name = NULL]
             /\ k = 0 /\ failed' = TRUE
    <3>1. m2 \in Mail
      BY <2>2, <2>5 DEF Mail, NULL
    <3>2. /\ m2.mail_from = m.mail_from /\ m2.rcpt_to = m.rcpt_to /\ m2.result_json = m.result_json
          /\ m2.mail_body_dir = m.mail_body_dir /\ m2.mail_body_name = NULL
      BY <1>2, <2>5
    <3>3. BlocksOfMail(m2) <= BlocksOfMail(m)
      <4>1. PICK f, e, d, j \in 0..1, L \in Nat :
                /\ L = Len(m.rcpt_to) /\ f = One(m.mail_from # NULL) /\ e = One(m.mail_body_name # NULL)
                /\ d = One(m.mail_body_dir) /\ j = One(m.result_json)
                /\ BlocksOfMail(m) = 1 + f + 2 * L + e + d + j
        BY BlocksAre
      <4>2. PICK f2, n2, d2, j2 \in 0..1, L2 \in Nat :
                /\ L2 = Len(m2.rcpt_to) /\ f2 = One(m2.mail_from # NULL) /\ n2 = One(m2.mail_body_name # NULL)
                /\ d2 = One(m2.mail_body_dir) /\ j2 = One(m2.result_json)
                /\ BlocksOfMail(m2) = 1 + f2 + 2 * L2 + n2 + d2 + j2
        BY <3>1, BlocksAre
      <4>3. f2 = f /\ j2 = j /\ d2 = d /\ n2 = 0 /\ L2 = L
        BY <3>2, <4>1, <4>2 DEF One
      <4>4. BlocksOfMail(m) = 1 + f + 2 * L + e + d + j /\ BlocksOfMail(m2) = 1 + f2 + 2 * L2 + n2 + d2 + j2
        BY <4>1, <4>2
      <4> QED
        BY <4>3, <4>4
    <3>4. BlocksOfMail(m2) <= BlocksOfMail(m) + 0
      BY <1>3, <3>3
    <3> QED
      BY <1>12, <2>2, <2>5, <3>1, <3>4
  <2> QED
    BY <1>12, <2>1, <2>3, <2>4, <2>5
<1>13. CASE /\ k = 0 /\ \/ files' = [files EXCEPT ![m.mail_body_name] = Append(@, p.token)] /\ UNCHANGED failed
                        \/ UNCHANGED files /\ failed' = TRUE
            /\ ring' = Append(ring, c) \/ ring' = ring
            /\ m2 \in Mail /\ BlocksOfMail(m2) = BlocksOfMail(m)
  <2>1. files' \in Seq(Seq(Tokens)) /\ failed' \in BOOLEAN
    BY <1>5, <1>13
  <2>2. ring' \in Seq(Keys)
    BY <1>6, <1>13
  <2> QED
    BY <1>3, <1>13, <2>1, <2>2
<1> QED
  BY <1>7, <1>8, <1>9, <1>10, <1>11, <1>12, <1>13 DEF Change

-----------------------------------------------------------------------------
(* Types are kept *)

\* The blocks a session still has: its bucket and those of its mails.
Owed(b) == IF b \in DOMAIN chain THEN 1 + SumOf(chain[b]) ELSE 0

\* Never fewer blocks are counted than the living sessions hold.
Enough == \A b \in Buckets : Owed(b) <= blocks[b]

\* Blocks are taken by one session at a time.
LEMMA AllocatedIs ==
    ASSUME SessionInv, NEW b \in Buckets, NEW k \in Int, Allocated(b, k)
    PROVE  /\ blocks' \in [Buckets -> Int] /\ blocks'[b] = blocks[b] + k
           /\ \A a \in Buckets : a # b => blocks'[a] = blocks[a]
BY DEF SessionInv, Allocated

\* The counts of blocks are numbers.
LEMMA OwedIs == ASSUME SessionInv, NEW b \in Buckets PROVE Owed(b) \in Nat /\ blocks[b] \in Int
<1>1. b \in DOMAIN chain => SumOf(chain[b]) \in Nat
  BY SumOne DEF SessionInv, ChainInv
<1> QED
  BY <1>1 DEF Owed, SessionInv

\* Only one chain has changed.
LEMMA EnoughKept ==
    ASSUME SessionInv, Enough, NEW b \in Buckets, NEW k \in Int, Allocated(b, k),
           \A a \in Buckets : a # b => (a \in DOMAIN chain' <=> a \in DOMAIN chain) /\ (a \in DOMAIN chain => chain'[a] = chain[a]),
           Owed(b)' \in Int, Owed(b)' <= Owed(b) + k
    PROVE  Enough'
<1>1. ASSUME NEW a \in Buckets PROVE Owed(a)' <= blocks'[a]
  <2>1. CASE a = b
    BY <2>1, AllocatedIs, OwedIs DEF Enough
  <2>2. CASE a # b
    <3>1. Owed(a)' = Owed(a)
      BY <2>2 DEF Owed
    <3> QED
      BY <2>2, <3>1, AllocatedIs DEF Enough
  <2> QED
    BY <2>1, <2>2
<1> QED
  BY <1>1 DEF Enough

\* The part of SessionInv that an exchange cannot disturb but by the mails it changes.
LEMMA ExchangeTypes ==
    ASSUME SessionInv, NEW c \in Keys, NEW p, Exchange(c, p),
           TableInv', ChainInv', ring' \in Seq(Keys), failed' \in BOOLEAN, down' \in BOOLEAN,
           blocks' \in [Buckets -> Int]
    PROVE  SessionInv'
<1>1. PICK cl2, d2 : /\ client' = [client EXCEPT ![c] = cl2] /\ did' = [did EXCEPT ![c] = d2]
                     /\ cl2 \in Clients /\ d2 \in SUBSET Deeds
  BY DEF Exchange
<1>2. UNCHANGED <<scene, worker, posted>>
  BY DEF Exchange
<1>3. client' \in [Keys -> Clients'] /\ did' \in [Keys -> SUBSET Deeds]
  BY <1>1, <1>2 DEF SessionInv, Clients
<1>4. WorkerInv'
  BY <1>2 DEF SessionInv, WorkerInv
<1> QED
  BY <1>2, <1>3, <1>4 DEF SessionInv

\* A packet that adds and drops no session keeps the table good.
LEMMA TableKept == ASSUME SessionInv, UNCHANGED table, DOMAIN chain' = DOMAIN chain PROVE TableInv'
BY DEF SessionInv, TableInv

\* A session leaves the table and is freed.
LEMMA FreedIs ==
    ASSUME SessionInv, Enough, NEW b \in DOMAIN chain, table' = RemoveHash(table, b), FreeSmtp(b)
    PROVE  /\ TableInv' /\ blocks' \in [Buckets -> Int] /\ Enough'
           /\ DOMAIN chain' = DOMAIN chain \ {b} /\ chain' = [a \in DOMAIN chain' |-> chain'[a]]
           /\ \A a \in DOMAIN chain' : chain'[a] = chain[a] /\ table'.key[a] = table.key[a]
<1>1. chain' = [a \in DOMAIN chain \ {b} |-> chain[a]] /\ Allocated(b, - 1 - SumOf(chain[b])) /\ b \in Buckets
  BY DEF FreeSmtp, Without, SessionInv, ChainInv
<1>2. TableOK(table') /\ table'.key = Without(table.key, b) /\ In(table) = DOMAIN chain
  BY RemoveOK DEF SessionInv, TableInv
<1>3. /\ In(table') = DOMAIN chain \ {b} /\ \A a \in DOMAIN chain \ {b} : table'.key[a] = table.key[a]
  BY <1>2 DEF Without, In
<1>4. TableInv'
  BY <1>1, <1>2, <1>3 DEF SessionInv, TableInv
<1>5. SumOf(chain[b]) \in Nat
  BY SumOne DEF SessionInv, ChainInv
<1>6. PICK k \in Int : k = - 1 - SumOf(chain[b])
  BY <1>5
<1>7. blocks' \in [Buckets -> Int]
  BY <1>1, <1>6, AllocatedIs
<1>8. Enough'
  <2>1. Owed(b)' = 0 /\ Owed(b) = 1 + SumOf(chain[b])
    BY <1>1 DEF Owed
  <2>2. Owed(b)' <= Owed(b) + k
    BY <1>5, <1>6, <2>1
  <2>3. \A a \in Buckets : a # b => (a \in DOMAIN chain' <=> a \in DOMAIN chain) /\ (a \in DOMAIN chain => chain'[a] = chain[a])
    BY <1>1
  <2> QED
    BY <1>1, <1>6, <2>1, <2>2, <2>3, EnoughKept
<1> QED
  BY <1>1, <1>3, <1>4, <1>7, <1>8

\* Every packet keeps the types, and frees no block that a session still has.
LEMMA ExchangeInv ==
    ASSUME SessionInv, Enough, NEW c \in Keys, NEW p, Exchange(c, p)
    PROVE  SessionInv' /\ Enough'
<1>1. PICK b, i, m : /\ b = Session(c) /\ b \in DOMAIN chain /\ b \in Buckets /\ table.key[b] = c
                     /\ i = Position(b) /\ i \in 1..Len(chain[b]) /\ chain[b] \in Seq(Mail)
                     /\ m = chain[b][i] /\ m \in Mail /\ Outcome(c, b, i, m, p)
  BY DEF Exchange
<1>2. p.mail \in Nat /\ p.token \in Tokens
  BY DEF Exchange
<1>3. /\ files \in Seq(Seq(Tokens)) /\ ring \in Seq(Keys) /\ failed \in BOOLEAN /\ down \in BOOLEAN
      /\ ChainInv /\ blocks \in [Buckets -> Int] /\ SumOf(chain[b]) \in Nat /\ Len(chain[b]) \in Nat \ {0}
  BY <1>1, SumOne DEF SessionInv, ChainInv
<1>4. ASSUME NEW m2, NEW k, Change(c, m, p, m2, k), Update(b, i, m2), Allocated(b, k), UNCHANGED <<table, down>>
      PROVE  SessionInv' /\ Enough'
  <2>1. /\ m2 \in Mail /\ k \in 0..2 /\ files' \in Seq(Seq(Tokens)) /\ ring' \in Seq(Keys)
        /\ failed' \in BOOLEAN /\ BlocksOfMail(m2) <= BlocksOfMail(m) + k
    BY <1>1, <1>2, <1>3, <1>4, ChangeIs
  <2>2. /\ DOMAIN chain' = DOMAIN chain /\ chain' = [a \in DOMAIN chain' |-> chain'[a]]
        /\ chain'[b] = [chain[b] EXCEPT ![i] = m2]
        /\ chain'[b] \in Seq(Mail) /\ Len(chain'[b]) = Len(chain[b])
        /\ \A a \in DOMAIN chain : a # b => chain'[a] = chain[a]
    BY <1>1, <1>3, <1>4, <2>1, Updated
  <2>3. ChainInv'
    BY <1>3, <2>1, <2>2 DEF ChainInv
  <2>4. TableInv'
    BY <1>4, <2>2, TableKept
  <2>5. blocks' \in [Buckets -> Int]
    BY <1>1, <1>4, <2>1, AllocatedIs
  <2>6. SessionInv'
    BY <1>3, <1>4, <2>1, <2>3, <2>4, <2>5, ExchangeTypes
  <2>7. SumOf(chain'[b]) = SumOf(chain[b]) - BlocksOfMail(m) + BlocksOfMail(m2)
    <3>1. PICK s, s2 : s = chain[b] /\ s2 = chain'[b]
      OBVIOUS
    <3>2. s \in Seq(Mail) /\ i \in 1..Len(s) /\ m = s[i] /\ s2 = [s EXCEPT ![i] = m2]
      BY <1>1, <2>2, <3>1
    <3>3. SumOf(s2) = SumOf(s) - BlocksOfMail(m) + BlocksOfMail(m2)
      BY <2>1, <3>2, SumChange
    <3> QED
      BY <3>1, <3>3
  <2>8. BlocksOfMail(m) \in Nat /\ BlocksOfMail(m2) \in Nat
    BY <1>1, <2>1, BlocksNat
  <2>9. Owed(b) = 1 + SumOf(chain[b]) /\ Owed(b)' = 1 + SumOf(chain'[b])
    BY <1>1, <2>2 DEF Owed
  <2>10. Owed(b)' \in Int /\ Owed(b)' <= Owed(b) + k
    BY <1>3, <2>1, <2>7, <2>8, <2>9
  <2> QED
    BY <1>1, <1>4, <2>1, <2>2, <2>6, <2>10, EnoughKept
<1>5. ASSUME NEW k \in 0..2, Allocated(b, k), UNCHANGED <<table, chain>>, ring' \in Seq(Keys),
             files' \in Seq(Seq(Tokens)), failed' \in BOOLEAN, down' \in BOOLEAN
      PROVE  SessionInv' /\ Enough'
  <2>1. blocks' \in [Buckets -> Int]
    BY <1>1, <1>5, AllocatedIs
  <2>2. ChainInv' /\ TableInv'
    BY <1>3, <1>5, TableKept DEF ChainInv
  <2>3. SessionInv'
    BY <1>5, <2>1, <2>2, ExchangeTypes
  <2>4. Owed(b)' \in Int /\ Owed(b)' <= Owed(b) + k
    BY <1>1, <1>3, <1>5 DEF Owed
  <2> QED
    BY <1>1, <1>5, <2>3, <2>4, EnoughKept
<1>6. ASSUME UNCHANGED <<table, files, ring, failed, down>>, NEW j \in 1..Len(chain[b]) \cup {Len(chain[b]) + 1},
             NEW m2 \in Mail, NEW k \in {1, 2}, Allocated(b, k), k = BlocksOfMail(m2),
             chain' = [chain EXCEPT ![b] = Append(SubSeq(chain[b], 1, j - 1), m2)]
      PROVE  SessionInv' /\ Enough'
  <2>2. /\ DOMAIN chain' = DOMAIN chain /\ chain' = [a \in DOMAIN chain' |-> chain'[a]]
        /\ chain'[b] = Append(SubSeq(chain[b], 1, j - 1), m2)
        /\ chain'[b] \in Seq(Mail) /\ Len(chain'[b]) = j
        /\ \A a \in DOMAIN chain : a # b => chain'[a] = chain[a]
    BY <1>1, <1>3, <1>6, Appended
  <2>3. ChainInv'
    BY <1>3, <1>6, <2>2 DEF ChainInv
  <2>4. TableInv'
    BY <1>6, <2>2, TableKept
  <2>5. blocks' \in [Buckets -> Int]
    BY <1>1, <1>6, AllocatedIs
  <2>6. SessionInv'
    BY <1>3, <1>6, <2>3, <2>4, <2>5, ExchangeTypes
  <2>7. SumOf(chain'[b]) \in Nat /\ SumOf(chain'[b]) <= SumOf(chain[b]) + k
    <3>0. PICK s, s2 : s = chain[b] /\ s2 = chain'[b]
      OBVIOUS
    <3>3. /\ s \in Seq(Mail) /\ s2 \in Seq(Mail) /\ s2 = Append(SubSeq(s, 1, j - 1), m2)
          /\ SumOf(s) \in Nat /\ SumOf(s2) \in Nat
      BY <1>1, <1>3, <2>2, <3>0, SumOne
    <3>1. CASE j \in 1..Len(s)
      <4>1. SumOf(s2) <= SumOf(s) - BlocksOfMail(s[j]) + BlocksOfMail(m2)
        BY <3>1, <3>3, SumCut
      <4>2. s[j] \in Mail
        BY <3>1, <3>3
      <4>3. BlocksOfMail(s[j]) \in Nat
        BY <4>2, BlocksNat
      <4> QED
        BY <1>6, <3>0, <3>3, <4>1, <4>3
    <3>2. CASE j = Len(s) + 1
      <4>1. s2 = Append(s, m2)
        BY <3>2, <3>3, SubAll
      <4>2. SumOf(s2) = SumOf(s) + BlocksOfMail(m2)
        BY <3>3, <4>1, SumAppend
      <4> QED
        BY <1>6, <3>0, <3>3, <4>2
    <3> QED
      BY <1>6, <3>0, <3>1, <3>2
  <2>9. Owed(b) = 1 + SumOf(chain[b]) /\ Owed(b)' = 1 + SumOf(chain'[b])
    BY <1>1, <2>2 DEF Owed
  <2>10. Owed(b)' \in Int /\ Owed(b)' <= Owed(b) + k
    BY <1>3, <2>7, <2>9
  <2> QED
    BY <1>1, <1>6, <2>2, <2>6, <2>10, EnoughKept
<1>7. CASE \E m2, k : /\ Change(c, m, p, m2, k) /\ Update(b, i, m2) /\ Allocated(b, k) /\ UNCHANGED <<table, down>>
  BY <1>4, <1>7
<1>8. CASE /\ \E k \in 0..2 : Allocated(b, k)
           /\ (failed' = TRUE \/ UNCHANGED failed) /\ UNCHANGED <<table, chain, files, ring, down>>
  <2>1. failed' \in BOOLEAN
    BY <1>3, <1>8
  <2> QED
    BY <1>3, <1>5, <1>8, <2>1
<1>9. CASE /\ p.verb = "MAIL" /\ Allocated(b, 2) /\ UNCHANGED <<table, files, ring, failed, down>>
           /\ chain' = [chain EXCEPT ![b] = Append(@, [NewMail EXCEPT !.mail_from = p.mail])]
  <2>1. PICK m2 : m2 = [NewMail EXCEPT !.mail_from = p.mail]
    OBVIOUS
  <2>2. p.mail \in Nat \ {0}
    BY <1>9 DEF Exchange, Says
  <2>3. m2 \in Mail /\ 2 = BlocksOfMail(m2)
    BY <2>1, <2>2, NewMailIs
  <2>4. PICK j : j = Len(chain[b]) + 1
    OBVIOUS
  <2>5. chain' = [chain EXCEPT ![b] = Append(SubSeq(chain[b], 1, j - 1), m2)]
    BY <1>1, <1>9, <2>1, <2>4, SubAll
  <2> QED
    BY <1>6, <1>9, <2>3, <2>4, <2>5
<1>10. CASE /\ p.verb = "RSET" /\ Allocated(b, 1) /\ UNCHANGED <<table, files, ring, failed, down>>
            /\ chain' = [chain EXCEPT ![b] = Append(SubSeq(@, 1, i - 1), NewMail)]
  BY <1>1, <1>6, <1>10, NewMailIs
<1>11. CASE table' = RemoveHash(table, b) /\ FreeSmtp(b) /\ UNCHANGED <<files, ring, failed, down>>
  <2>1. /\ TableInv' /\ blocks' \in [Buckets -> Int] /\ Enough'
        /\ DOMAIN chain' = DOMAIN chain \ {b} /\ chain' = [a \in DOMAIN chain' |-> chain'[a]]
        /\ \A a \in DOMAIN chain' : chain'[a] = chain[a] /\ table'.key[a] = table.key[a]
    BY <1>1, <1>11, FreedIs
  <2>2. ChainInv'
    BY <1>3, <1>11, <2>1 DEF ChainInv
  <2> QED
    BY <1>3, <1>11, <2>1, <2>2, ExchangeTypes
<1>12. CASE /\ failed' = TRUE \/ UNCHANGED failed
            /\ down' = TRUE /\ UNCHANGED <<table, chain, files, ring, blocks>>
  <2>1. failed' \in BOOLEAN /\ down' \in BOOLEAN
    BY <1>3, <1>12
  <2>2. Allocated(b, 0)
    BY <1>12, NoneAllocated
  <2> QED
    BY <1>3, <1>5, <1>12, <2>1, <2>2
<1> QED
  BY <1>1, <1>7, <1>8, <1>9, <1>10, <1>11, <1>12 DEF Outcome

-----------------------------------------------------------------------------
(* The other steps *)

\* While the table is not full a bucket is free.
LEMMA BucketLeft ==
    ASSUME SessionInv, Cardinality(DOMAIN chain) < MaxBuckets
    PROVE  \E n \in Buckets : n \notin DOMAIN chain
<1>1. MaxBuckets \in Nat \ {0} /\ DOMAIN chain \subseteq Buckets
  BY SmtpSessionAssumption DEF SessionInv, ChainInv
<1>2. Cardinality(Buckets) = MaxBuckets
  BY <1>1, FS_Interval DEF Buckets
<1>3. DOMAIN chain # Buckets
  BY <1>1, <1>2
<1> QED
  BY <1>1, <1>3

\* A new connection gets a free bucket, with one cleared mail.
LEMMA OpenIs ==
    ASSUME SessionInv, NEW c \in Keys, Open(c)
    PROVE  \E b \in Buckets :
              /\ b \notin DOMAIN chain /\ Session(c) = NULL /\ \A a \in DOMAIN chain : table.key[a] # c
              /\ table' = InsertHash(table, b, c) /\ chain' = With(chain, b, <<NewMail>>) /\ Allocated(b, 2)
<1>1. PICK b : b = CHOOSE n \in Buckets : n \notin DOMAIN chain
  OBVIOUS
<1>2. b \in Buckets /\ b \notin DOMAIN chain
  BY <1>1, BucketLeft DEF Open
<1>3. Session(c) = NULL /\ \A a \in In(table) : table.key[a] # c
  <2>1. 0 \notin In(table)
    BY DEF SessionInv, TableInv, TableOK
  <2> QED
    BY <2>1, FindIs DEF Open, Session, SessionInv, TableInv, NULL
<1>4. table' = InsertHash(table, b, c) /\ chain' = With(chain, b, <<NewMail>>) /\ Allocated(b, 2)
  BY <1>1 DEF Open
<1> QED
  BY <1>2, <1>3, <1>4 DEF SessionInv, TableInv

\* The new session.
LEMMA OpenedIs ==
    ASSUME SessionInv, NEW c \in Keys, NEW b \in Buckets, b \notin DOMAIN chain,
           \A a \in DOMAIN chain : table.key[a] # c,
           table' = InsertHash(table, b, c), chain' = With(chain, b, <<NewMail>>)
    PROVE  /\ TableInv' /\ DOMAIN chain' = DOMAIN chain \cup {b} /\ chain' = [a \in DOMAIN chain' |-> chain'[a]]
           /\ chain'[b] = <<NewMail>> /\ table'.key[b] = c /\ chain'[b] \in Seq(Mail) /\ Len(chain'[b]) = 1
           /\ \A a \in DOMAIN chain : a # b /\ chain'[a] = chain[a] /\ table'.key[a] = table.key[a]
<1>1. b \in Nat \ {0} /\ b \notin In(table) /\ TableOK(table) /\ In(table) = DOMAIN chain
  BY DEF Buckets, SessionInv, TableInv
<1>2. TableOK(table') /\ table'.key = With(table.key, b, c)
  BY <1>1, InsertOK
<1>3. /\ In(table') = DOMAIN chain \cup {b} /\ table'.key[b] = c
      /\ \A a \in DOMAIN chain : table'.key[a] = table.key[a]
  BY <1>1, <1>2 DEF With, In
<1>4. DOMAIN chain' = DOMAIN chain \cup {b} /\ chain' = [a \in DOMAIN chain' |-> chain'[a]]
  BY DEF With
<1>5. chain'[b] = <<NewMail>> /\ \A a \in DOMAIN chain : a # b /\ chain'[a] = chain[a]
  BY DEF With
<1>6. TableInv'
  BY <1>2, <1>3, <1>4 DEF SessionInv, TableInv
<1>7. chain'[b] \in Seq(Mail) /\ Len(chain'[b]) = 1
  <2>1. PICK m : m = NewMail /\ m \in Mail
    BY NewMailIs
  <2>2. chain'[b] = <<m>>
    BY <1>5, <2>1
  <2>3. <<m>> \in Seq(Mail) /\ Len(<<m>>) = 1
    BY <2>1
  <2> QED
    BY <2>2, <2>3
<1> QED
  BY <1>3, <1>4, <1>5, <1>6, <1>7

\* A new connection keeps the types and the blocks.
LEMMA OpenInv == ASSUME SessionInv, Enough, NEW c \in Keys, Open(c) PROVE SessionInv' /\ Enough'
<1>1. PICK b \in Buckets :
         /\ b \notin DOMAIN chain /\ Session(c) = NULL /\ \A a \in DOMAIN chain : table.key[a] # c
         /\ table' = InsertHash(table, b, c) /\ chain' = With(chain, b, <<NewMail>>) /\ Allocated(b, 2)
  BY OpenIs
<1>2. /\ TableInv' /\ DOMAIN chain' = DOMAIN chain \cup {b} /\ chain' = [a \in DOMAIN chain' |-> chain'[a]]
      /\ chain'[b] = <<NewMail>> /\ table'.key[b] = c /\ chain'[b] \in Seq(Mail) /\ Len(chain'[b]) = 1
      /\ \A a \in DOMAIN chain : a # b /\ chain'[a] = chain[a] /\ table'.key[a] = table.key[a]
  BY <1>1, OpenedIs
<1>3. UNCHANGED <<scene, client, files, ring, worker, posted, failed, down>>
  BY DEF Open
<1>4. blocks' \in [Buckets -> Int]
  BY <1>1, AllocatedIs
<1>5. did' \in [Keys -> SUBSET Deeds]
  BY DEF Open, SessionInv, Did, Deeds
<1>6. ChainInv'
  <2>1. \A a \in DOMAIN chain' : chain'[a] \in Seq(Mail) /\ Len(chain'[a]) # 0
    <3>1. SUFFICES ASSUME NEW a \in DOMAIN chain' PROVE chain'[a] \in Seq(Mail) /\ Len(chain'[a]) # 0
      OBVIOUS
    <3>2. CASE a = b
      <4>1. chain'[b] \in Seq(Mail) /\ Len(chain'[b]) = 1
        BY <1>2
      <4> QED
        BY <3>2, <4>1
    <3>3. CASE a \in DOMAIN chain
      BY <1>2, <3>3 DEF SessionInv, ChainInv
    <3> QED
      BY <1>2, <3>2, <3>3
  <2>2. DOMAIN chain' \subseteq Buckets
    BY <1>1, <1>2 DEF SessionInv, ChainInv
  <2> QED
    BY <1>2, <1>3, <2>1, <2>2 DEF SessionInv, ChainInv
<1>7. WorkerInv'
  BY <1>3 DEF SessionInv, WorkerInv
<1>8. SessionInv'
  BY <1>2, <1>3, <1>4, <1>5, <1>6, <1>7 DEF SessionInv, Clients
<1>9. Owed(b)' = 2 /\ Owed(b) = 0
  <2>1. SumOf(<<NewMail>>) = 1
    BY NewMailIs, SumOne
  <2> QED
    BY <1>1, <1>2, <2>1 DEF Owed
<1>10. Enough'
  BY <1>1, <1>2, <1>9, EnoughKept
<1> QED
  BY <1>8, <1>10

\* A worker's step that leaves the sessions alone.
LEMMA WorkerKept ==
    ASSUME SessionInv, Enough, UNCHANGED <<scene, client, table, chain, files, blocks, did>>,
           WorkerInv', ring' \in Seq(Keys), failed' \in BOOLEAN, down' \in BOOLEAN
    PROVE  SessionInv' /\ Enough'
<1>1. ChainInv' /\ TableInv'
  BY TableKept DEF SessionInv, ChainInv
<1>2. SessionInv'
  BY <1>1 DEF SessionInv, Clients
<1>3. Enough'
  BY DEF Enough, Owed
<1> QED
  BY <1>2, <1>3

\* A worker that moves on keeps what holds of workers.
LEMMA WorkerMoved ==
    ASSUME SessionInv, NEW w \in Workers, NEW r, worker' = [worker EXCEPT ![w] = r],
           r.at \in {"idle", "parse", "extract", "release"}, r.at = "idle" => r.bucket = NULL,
           r.at # "idle" => r.bucket \in Buckets /\ r.mail \in Nat
    PROVE  WorkerInv' /\ worker'[w] = r /\ \A v \in Workers : v # w => worker'[v] = worker[v]
<1>1. worker = [v \in Workers |-> worker[v]]
  BY DEF SessionInv, WorkerInv
<1>2. worker'[w] = r /\ (\A v \in Workers : v # w => worker'[v] = worker[v]) /\ worker' = [v \in Workers |-> worker'[v]]
  BY <1>1
<1> QED
  BY <1>2 DEF SessionInv, WorkerInv

\* A worker that lets go of its session is idle, and the others stay.
LEMMA IdleIs ==
    ASSUME SessionInv, NEW w \in Workers, Idle(w)
    PROVE  /\ WorkerInv' /\ worker'[w] = [at |-> "idle", bucket |-> NULL, mail |-> 0]
           /\ \A v \in Workers : v # w => worker'[v] = worker[v]
<1>1. PICK r : r = [at |-> "idle", bucket |-> NULL, mail |-> 0]
  OBVIOUS
<1>2. worker' = [worker EXCEPT ![w] = r]
  BY <1>1 DEF Idle
<1>3. r.at = "idle" /\ r.bucket = NULL
  BY <1>1
<1>4. WorkerInv' /\ worker'[w] = r /\ \A v \in Workers : v # w => worker'[v] = worker[v]
  BY <1>2, <1>3, WorkerMoved
<1> QED
  BY <1>1, <1>4

\* What Take does to a worker.
LEMMA TakeIs ==
    ASSUME SessionInv, NEW w \in Workers, Take(w)
    PROVE  /\ ring # <<>> /\ ring' = Tail(ring) /\ ring \in Seq(Keys) /\ Head(ring) \in Keys /\ ring' \in Seq(Keys)
           /\ worker[w].at = "idle"
           /\ \/ UNCHANGED worker
              \/ \E b \in DOMAIN chain :
                    /\ table.key[b] = Head(ring) /\ chain[b][1].dot_seen /\ b \in Buckets
                    /\ worker' = [worker EXCEPT ![w] = [at |-> "parse", bucket |-> b, mail |-> Len(chain[b])]]
           /\ \A b \in DOMAIN chain : table.key[b] = Head(ring) /\ chain[b][1].dot_seen
                 => worker' = [worker EXCEPT ![w] = [at |-> "parse", bucket |-> b, mail |-> Len(chain[b])]]
           /\ WorkerInv' /\ \A v \in Workers : v # w => worker'[v] = worker[v]
<1>1. /\ ring # <<>> /\ ring' = Tail(ring) /\ ring \in Seq(Keys) /\ Head(ring) \in Keys /\ ring' \in Seq(Keys)
      /\ worker[w].at = "idle"
  BY DEF Take, SessionInv
<1>2. PICK c, b : c = Head(ring) /\ b = Session(c)
  OBVIOUS
<1>3. IF b # NULL /\ chain[b][1].dot_seen
      THEN worker' = [worker EXCEPT ![w] = [at |-> "parse", bucket |-> b, mail |-> Len(chain[b])]]
      ELSE UNCHANGED worker
  BY <1>2 DEF Take, The
<1>4. \/ b \in DOMAIN chain /\ table.key[b] = c
      \/ b = NULL /\ \A a \in DOMAIN chain : table.key[a] # c
  BY <1>1, <1>2, FindIs DEF Session, SessionInv, TableInv
<1>5. DOMAIN chain \subseteq Buckets /\ 0 \notin DOMAIN chain
  BY DEF SessionInv, ChainInv, Buckets
<1>6. \A a \in DOMAIN chain : table.key[a] = c => a = b
  BY <1>4 DEF SessionInv, TableInv
<1>7. CASE b # NULL /\ chain[b][1].dot_seen
  <2>1. PICK r : r = [at |-> "parse", bucket |-> b, mail |-> Len(chain[b])]
    OBVIOUS
  <2>2. worker' = [worker EXCEPT ![w] = r] /\ r.at = "parse" /\ r.bucket = b /\ r.mail = Len(chain[b])
    BY <1>3, <1>7, <2>1
  <2>3. b \in DOMAIN chain /\ b \in Buckets /\ Len(chain[b]) \in Nat
    BY <1>4, <1>5, <1>7 DEF SessionInv, ChainInv
  <2>4. WorkerInv' /\ \A v \in Workers : v # w => worker'[v] = worker[v]
    BY <2>2, <2>3, WorkerMoved
  <2> QED
    BY <1>1, <1>2, <1>4, <1>6, <1>7, <2>1, <2>2, <2>3, <2>4
<1>8. CASE ~(b # NULL /\ chain[b][1].dot_seen)
  <2>1. UNCHANGED worker
    BY <1>3, <1>8
  <2>2. WorkerInv'
    BY <2>1 DEF SessionInv, WorkerInv
  <2> QED
    BY <1>1, <1>2, <1>5, <1>6, <1>8, <2>1, <2>2 DEF NULL
<1> QED
  BY <1>7, <1>8

\* What Parse does when the mail has a file.
LEMMA ParseIs ==
    ASSUME SessionInv, NEW w \in Workers, Parse(w), UNCHANGED down
    PROVE  \E b, i, m, m2 :
              /\ b = worker[w].bucket /\ i = worker[w].mail /\ worker[w].at = "parse"
              /\ b \in DOMAIN chain /\ b \in Buckets /\ i \in 1..Len(chain[b])
              /\ m = chain[b][i] /\ m \in Mail /\ ~NoName(m) /\ chain[b] \in Seq(Mail)
              /\ m2 = [m EXCEPT !.result_json = TRUE] /\ m2 \in Mail /\ BlocksOfMail(m2) <= BlocksOfMail(m) + 1
              /\ \/ /\ Update(b, i, m2) /\ Allocated(b, 1) /\ UNCHANGED <<failed, table, files, ring>>
                    /\ worker' = [worker EXCEPT ![w] =
                          [at |-> "extract", bucket |-> b, mail |-> i,
                           json |-> [key |-> table.key[b], env |-> Envelope(m), body |-> files[m.mail_body_name],
                                     alone |-> Len(chain[b]) = 1]]]
                 \/ failed' = TRUE /\ Idle(w) /\ UNCHANGED <<table, chain, files, ring, blocks>>
              /\ UNCHANGED <<scene, client, posted, did, down>>
<1>1. PICK b, i : b = worker[w].bucket /\ i = worker[w].mail
  OBVIOUS
<1>2. /\ ~down /\ worker[w].at = "parse" /\ b \in DOMAIN chain /\ UNCHANGED <<scene, client, posted, did>>
  BY <1>1 DEF Parse, Freed
<1>3. b \in Buckets /\ chain[b] \in Seq(Mail)
  BY <1>2 DEF SessionInv, ChainInv
<1>4. ~(i \in DOMAIN chain[b] => NoName(chain[b][i]))
  BY <1>1, <1>2 DEF Parse, Crash, The
<1>5. PICK m : m = chain[b][i] /\ m \in Mail /\ i \in 1..Len(chain[b]) /\ ~NoName(m)
  BY <1>3, <1>4
<1>6. PICK m2 : m2 = [m EXCEPT !.result_json = TRUE]
  OBVIOUS
<1>7. \/ /\ Update(b, i, m2) /\ Allocated(b, 1) /\ UNCHANGED <<failed, table, files, ring, down>>
         /\ worker' = [worker EXCEPT ![w] =
               [at |-> "extract", bucket |-> b, mail |-> i,
                json |-> [key |-> table.key[b], env |-> Envelope(m), body |-> files[m.mail_body_name],
                          alone |-> Len(chain[b]) = 1]]]
      \/ failed' = TRUE /\ Idle(w) /\ UNCHANGED <<table, chain, files, ring, blocks, down>>
  BY <1>1, <1>2, <1>4, <1>5, <1>6 DEF Parse, Crash, The, EnvelopeOf, NoFault, Fault
<1>8. m2 \in Mail
  BY <1>5, <1>6 DEF Mail
<1>9. BlocksOfMail(m2) <= BlocksOfMail(m) + 1
  <2>1. PICK f, e, d, j \in 0..1, L \in Nat :
           /\ L = Len(m.rcpt_to) /\ f = One(m.mail_from # NULL) /\ e = One(m.mail_body_name # NULL)
           /\ d = One(m.mail_body_dir) /\ j = One(m.result_json)
           /\ BlocksOfMail(m) = 1 + f + 2 * L + e + d + j
    BY <1>5, BlocksAre
  <2>2. PICK f2, n2, d2, j2 \in 0..1, L2 \in Nat :
           /\ L2 = Len(m2.rcpt_to) /\ f2 = One(m2.mail_from # NULL) /\ n2 = One(m2.mail_body_name # NULL)
           /\ d2 = One(m2.mail_body_dir) /\ j2 = One(m2.result_json)
           /\ BlocksOfMail(m2) = 1 + f2 + 2 * L2 + n2 + d2 + j2
    BY <1>8, BlocksAre
  <2>3. f2 = f /\ n2 = e /\ d2 = d /\ L2 = L
    BY <1>5, <1>6, <2>1, <2>2 DEF Mail
  <2>4. BlocksOfMail(m) = 1 + f + 2 * L + e + d + j /\ BlocksOfMail(m2) = 1 + f2 + 2 * L2 + n2 + d2 + j2
    BY <2>1, <2>2
  <2> QED
    BY <2>3, <2>4
<1> QED
  BY <1>1, <1>2, <1>3, <1>5, <1>6, <1>7, <1>8, <1>9

\* Every step of a worker keeps the types and the blocks.
LEMMA WorkInv == ASSUME SessionInv, Enough, NEW w \in Workers, Work(w) PROVE SessionInv' /\ Enough'
<1>1. /\ ring \in Seq(Keys) /\ failed \in BOOLEAN /\ down \in BOOLEAN /\ WorkerInv /\ ChainInv
      /\ blocks \in [Buckets -> Int]
  BY DEF SessionInv
<1>2. CASE Take(w)
  BY <1>1, <1>2, TakeIs, WorkerKept DEF Take
<1>3. CASE UseFreed(w)
  <2>1. WorkerInv'
    BY <1>3, IdleIs DEF UseFreed
  <2> QED
    BY <1>1, <1>3, <2>1, WorkerKept DEF UseFreed, Crash
<1>4. CASE Parse(w)
  <2>1. CASE Crash /\ UNCHANGED worker
    <3>1. WorkerInv'
      BY <1>1, <2>1 DEF WorkerInv
    <3> QED
      BY <1>1, <1>4, <2>1, <3>1, WorkerKept DEF Parse, Crash
  <2>2. CASE UNCHANGED down
    <3>1. PICK b, i, m, m2 :
              /\ b = worker[w].bucket /\ i = worker[w].mail /\ worker[w].at = "parse"
              /\ b \in DOMAIN chain /\ b \in Buckets /\ i \in 1..Len(chain[b])
              /\ m = chain[b][i] /\ m \in Mail /\ ~NoName(m) /\ chain[b] \in Seq(Mail)
              /\ m2 = [m EXCEPT !.result_json = TRUE] /\ m2 \in Mail /\ BlocksOfMail(m2) <= BlocksOfMail(m) + 1
              /\ \/ /\ Update(b, i, m2) /\ Allocated(b, 1) /\ UNCHANGED <<failed, table, files, ring>>
                    /\ worker' = [worker EXCEPT ![w] =
                          [at |-> "extract", bucket |-> b, mail |-> i,
                           json |-> [key |-> table.key[b], env |-> Envelope(m), body |-> files[m.mail_body_name],
                                     alone |-> Len(chain[b]) = 1]]]
                 \/ failed' = TRUE /\ Idle(w) /\ UNCHANGED <<table, chain, files, ring, blocks>>
              /\ UNCHANGED <<scene, client, posted, did, down>>
      BY <1>4, <2>2, ParseIs
    <3>2. CASE failed' = TRUE /\ Idle(w) /\ UNCHANGED <<table, chain, files, ring, blocks>>
      <4>1. WorkerInv'
        BY <3>2, IdleIs
      <4> QED
        BY <1>1, <3>1, <3>2, <4>1, WorkerKept
    <3>3. CASE /\ Update(b, i, m2) /\ Allocated(b, 1) /\ UNCHANGED <<failed, table, files, ring>>
               /\ worker' = [worker EXCEPT ![w] =
                     [at |-> "extract", bucket |-> b, mail |-> i,
                      json |-> [key |-> table.key[b], env |-> Envelope(m), body |-> files[m.mail_body_name],
                                alone |-> Len(chain[b]) = 1]]]
      <4>a. /\ b \in DOMAIN chain /\ b \in Buckets /\ i \in 1..Len(chain[b]) /\ m = chain[b][i] /\ chain[b] \in Seq(Mail)
            /\ m \in Mail /\ m2 \in Mail /\ BlocksOfMail(m2) <= BlocksOfMail(m) + 1
            /\ Update(b, i, m2) /\ Allocated(b, 1)
        BY <3>1, <3>3, ZenonT(60)
      <4>b. UNCHANGED <<scene, client, table, files, ring, posted, failed, down, did>>
        BY <2>2, <3>1, <3>3, ZenonT(60)
      <4>1. /\ DOMAIN chain' = DOMAIN chain /\ chain' = [a \in DOMAIN chain' |-> chain'[a]]
            /\ chain'[b] = [chain[b] EXCEPT ![i] = m2]
            /\ chain'[b] \in Seq(Mail) /\ Len(chain'[b]) = Len(chain[b])
            /\ \A a \in DOMAIN chain : a # b => chain'[a] = chain[a]
        BY <1>1, <4>a, Updated
      <4>2. ChainInv' /\ TableInv'
        BY <1>1, <4>a, <4>b, <4>1, TableKept DEF ChainInv
      <4>3. PICK r : r = [at |-> "extract", bucket |-> b, mail |-> i,
                          json |-> [key |-> table.key[b], env |-> Envelope(m), body |-> files[m.mail_body_name],
                                    alone |-> Len(chain[b]) = 1]]
        OBVIOUS
      <4>4. WorkerInv'
        <5>1. r.at = "extract" /\ r.bucket = b /\ r.mail = i
          BY <4>3
        <5>2. i \in Nat /\ worker' = [worker EXCEPT ![w] = r]
          <6>1. i \in Nat
            BY <4>a
          <6> QED
            BY <3>3, <4>3, <6>1, ZenonT(60)
        <5> QED
          BY <4>a, <5>1, <5>2, WorkerMoved
      <4>5. blocks' \in [Buckets -> Int]
        BY <4>a, AllocatedIs
      <4>6. SessionInv'
        BY <1>1, <4>b, <4>2, <4>4, <4>5 DEF SessionInv, Clients
      <4>7. PICK s, s2 : s = chain[b] /\ s2 = chain'[b]
        OBVIOUS
      <4>8. SumOf(s2) = SumOf(s) - BlocksOfMail(m) + BlocksOfMail(m2)
        <5>1. s \in Seq(Mail) /\ i \in 1..Len(s) /\ s[i] = m /\ s2 = [s EXCEPT ![i] = m2]
          BY <4>a, <4>1, <4>7, ZenonT(60)
        <5> QED
          BY <4>a, <5>1, SumChange
      <4>9. SumOf(s) \in Nat /\ BlocksOfMail(m) \in Nat /\ BlocksOfMail(m2) \in Nat
        BY <4>a, <4>7, SumOne, BlocksNat
      <4>10. Owed(b) = 1 + SumOf(s) /\ Owed(b)' = 1 + SumOf(s2)
        BY <4>a, <4>1, <4>7 DEF Owed
      <4>11. Owed(b)' \in Int /\ Owed(b)' <= Owed(b) + 1
        BY <4>a, <4>8, <4>9, <4>10
      <4> QED
        BY <4>a, <4>1, <4>6, <4>11, EnoughKept
    <3> QED
      BY <3>1, <3>2, <3>3
  <2> QED
    BY <1>4, <2>1, <2>2 DEF Parse
<1>5. CASE Extract(w)
  <2>1. CASE NoFault /\ worker' = [worker EXCEPT ![w] = [at |-> "release", bucket |-> worker[w].bucket, mail |-> worker[w].mail]]
    <3>1. PICK r : r = [at |-> "release", bucket |-> worker[w].bucket, mail |-> worker[w].mail]
      OBVIOUS
    <3>2. /\ r.at = "release" /\ r.bucket \in Buckets /\ r.mail \in Nat
      BY <1>1, <1>5, <3>1 DEF Extract, WorkerInv
    <3>3. WorkerInv'
      BY <2>1, <3>1, <3>2, WorkerMoved
    <3> QED
      BY <1>1, <1>5, <2>1, <3>3, WorkerKept DEF Extract, NoFault
  <2>2. CASE failed' = TRUE /\ Idle(w)
    <3>1. WorkerInv'
      BY <2>2, IdleIs
    <3> QED
      BY <1>1, <1>5, <2>2, <3>1, WorkerKept DEF Extract
  <2> QED
    BY <1>5, <2>1, <2>2 DEF Extract, Fault
<1>6. CASE Release(w)
  <2>1. PICK b : b = worker[w].bucket
    OBVIOUS
  <2>2. /\ b \in DOMAIN chain /\ table' = RemoveHash(table, b) /\ FreeSmtp(b) /\ Idle(w)
        /\ UNCHANGED <<scene, client, files, ring, posted, failed, down>>
    BY <1>6, <2>1 DEF Release, Freed
  <2>3. /\ TableInv' /\ blocks' \in [Buckets -> Int] /\ Enough'
        /\ DOMAIN chain' = DOMAIN chain \ {b} /\ chain' = [a \in DOMAIN chain' |-> chain'[a]]
        /\ \A a \in DOMAIN chain' : chain'[a] = chain[a] /\ table'.key[a] = table.key[a]
    BY <2>2, FreedIs
  <2>4. ChainInv'
    BY <1>1, <2>2, <2>3 DEF ChainInv
  <2>5. WorkerInv'
    BY <2>2, IdleIs
  <2>6. did' \in [Keys -> SUBSET Deeds]
    BY <1>6 DEF Release, SessionInv, Did, Deeds
  <2> QED
    BY <1>1, <2>2, <2>3, <2>4, <2>5, <2>6 DEF SessionInv, Clients
<1> QED
  BY <1>2, <1>3, <1>4, <1>5, <1>6 DEF Work

\* It holds at the start, with an empty table.
LEMMA StartInv == Init => SessionInv /\ Enough
<1> SUFFICES ASSUME Init PROVE SessionInv /\ Enough
  OBVIOUS
<1>1. scene \in Scenes /\ scene \in SceneType
  BY SmtpSessionAssumption DEF Init
<1>2. client \in [Keys -> Clients]
  <2>1. 0 \in 0..scene.mails
    BY <1>1 DEF SceneType
  <2>2. [at |-> "ready", mail |-> 0, segment |-> 0, rcpts |-> 0] \in Clients
    BY <2>1 DEF Clients, Places
  <2> QED
    BY <2>2 DEF Init
<1>3. DOMAIN chain = {} /\ In(table) = {} /\ TableOK(table)
  BY CreateOK DEF Init
<1>4. TableInv
  BY <1>3 DEF TableInv
<1>5. ChainInv
  <2>1. chain = [a \in {} |-> chain[a]] /\ files \in Seq(Seq(Tokens))
    BY <1>3 DEF Init
  <2> QED
    BY <1>3, <2>1 DEF ChainInv
<1>6. WorkerInv
  BY DEF Init, WorkerInv, NULL
<1>7. ring \in Seq(Keys) /\ failed \in BOOLEAN /\ down \in BOOLEAN /\ did \in [Keys -> SUBSET Deeds]
      /\ blocks \in [Buckets -> Int]
  <2>1. ring = <<>> /\ failed = FALSE /\ down = FALSE
    BY DEF Init
  <2>2. did \in [Keys -> SUBSET Deeds]
    BY DEF Init
  <2>3. blocks \in [Buckets -> Int]
    BY DEF Init
  <2>4. ring \in Seq(Keys)
    BY <2>1
  <2>5. failed \in BOOLEAN /\ down \in BOOLEAN
    BY <2>1
  <2> QED
    BY <2>2, <2>3, <2>4, <2>5
<1>8. Enough
  BY <1>3 DEF Enough, Owed, Init
<1> QED
  BY <1>1, <1>2, <1>4, <1>5, <1>6, <1>7, <1>8 DEF SessionInv

\* The steps of the specification, as the invariants see them.
LEMMA NextIs ==
    ASSUME SessionInv, Next
    PROVE  \/ \E c \in Keys : Open(c)
           \/ \E c \in Keys : \E p : Exchange(c, p)
           \/ \E w \in Workers : Work(w)
<1>1. scene.wild \subseteq Keys
  BY DEF SessionInv, SceneType
<1> QED
  BY <1>1, ClientIs, ExtrasAre DEF Next

\* The types and the table are never lost.
LEMMA SessionAlways == Spec => [](SessionInv /\ Enough)
<1>1. Init => SessionInv /\ Enough
  BY StartInv
<1>2. SessionInv /\ Enough /\ [Next]_vars => SessionInv' /\ Enough'
  <2>1. SUFFICES ASSUME SessionInv, Enough, [Next]_vars PROVE SessionInv' /\ Enough'
    OBVIOUS
  <2>2. CASE Next
    BY <2>1, <2>2, NextIs, OpenInv, ExchangeInv, WorkInv
  <2>3. CASE UNCHANGED vars
    <3>1. ChainInv' /\ TableInv' /\ WorkerInv'
      BY <2>1, <2>3, TableKept DEF SessionInv, ChainInv, WorkerInv, vars
    <3> QED
      BY <2>1, <2>3, <3>1 DEF SessionInv, Clients, Enough, Owed, vars
  <2> QED
    BY <2>1, <2>2, <2>3
<1> QED
  BY <1>1, <1>2, PTL DEF Spec

-----------------------------------------------------------------------------
(* What an exchange does, in cases *)

\* No session but that of bucket b has changed, and the table has not.
Only(b) ==
    /\ UNCHANGED table /\ DOMAIN chain' = DOMAIN chain
    /\ \A a \in DOMAIN chain : a # b => chain'[a] = chain[a]

\* The mail that the packet found is changed.
Changed(c, p, b, i, m) == \E m2 \in Mail, k \in 0..2 :
    /\ Change(c, m, p, m2, k) /\ Only(b) /\ Len(chain'[b]) = Len(chain[b]) /\ chain'[b][i] = m2
    /\ chain'[b] = [chain[b] EXCEPT ![i] = m2]
    /\ \A j \in 1..Len(chain[b]) : j # i => chain'[b][j] = chain[b][j]
    /\ Allocated(b, k) /\ UNCHANGED down

\* Nothing is changed but for a failed allocation.
Unheard(b, i, m, p) ==
    /\ Ignored(b, i, m, p) /\ UNCHANGED <<table, chain, files, ring, down>>
    /\ failed' = TRUE \/ UNCHANGED failed
    /\ \E k \in 0..2 : Allocated(b, k) /\ (k # 0 => failed')

\* A second MAIL FROM adds a cleared mail to the chain.
Added(b, m, p) == \E m2 \in Mail :
    /\ p.verb = "MAIL" /\ ~m.starttls /\ m.data_store_flag # "START" /\ m.mail_from # NULL
    /\ m2 = [NewMail EXCEPT !.mail_from = p.mail] /\ Only(b)
    /\ chain'[b] = Append(chain[b], m2)
    /\ Len(chain'[b]) = Len(chain[b]) + 1 /\ chain'[b][Len(chain[b]) + 1] = m2
    /\ \A j \in 1..Len(chain[b]) : chain'[b][j] = chain[b][j]
    /\ Allocated(b, 2) /\ UNCHANGED <<files, ring, failed, down>>

\* RSET drops the mails from the one that it found on, and leaves a cleared one.
Reset(b, i, m, p) ==
    /\ p.verb = "RSET" /\ ~m.starttls /\ m.data_store_flag # "START" /\ Only(b)
    /\ Len(chain'[b]) = i /\ chain'[b][i] = NewMail
    /\ \A j \in 1..(i - 1) : chain'[b][j] = chain[b][j]
    /\ Allocated(b, 1) /\ UNCHANGED <<files, ring, failed, down>>

\* A session leaves the table, with every block that was counted for it.
Left(b) ==
    /\ DOMAIN chain' = DOMAIN chain \ {b}
    /\ \A a \in DOMAIN chain' : chain'[a] = chain[a] /\ table'.key[a] = table.key[a]
    /\ Allocated(b, - 1 - SumOf(chain[b]))

\* The answer to QUIT on a TLS connection drops its session.
Closed(b, m, p) ==
    /\ p.verb = "221" /\ m.starttls /\ Left(b) /\ UNCHANGED <<files, ring, failed, down>>

\* The server thread ends: it wrote through a name that is not there.
Fallen(m, p) ==
    /\ \/ failed' = TRUE
       \/ UNCHANGED failed /\ ~m.starttls /\ m.data_store_flag = "START" /\ NoName(m)
    /\ down' = TRUE /\ UNCHANGED <<table, chain, files, ring, blocks>>

\* Packet p of connection c reaches mail m, the ith of bucket b; cl and d are what the
\* client and the history of the connection were.
Turn(c, p, b, i, m, cl, d) ==
    /\ p.end \in BOOLEAN /\ p.token \in Tokens /\ p.mail \in Nat /\ ~down
    /\ cl = client[c] /\ d = did[c] /\ Says(p, cl, d, client'[c], did'[c])
    /\ \A k \in Keys : k # c => client'[k] = client[k] /\ did'[k] = did[k]
    /\ b \in DOMAIN chain /\ b \in Buckets /\ table.key[b] = c
    /\ \A a \in DOMAIN chain : table.key[a] \in Keys /\ (a # b => table.key[a] # c)
    /\ i = Position(b) /\ i \in 1..Len(chain[b]) /\ chain[b] \in Seq(Mail)
    /\ m = chain[b][i] /\ m \in Mail
    /\ \/ Changed(c, p, b, i, m) \/ Unheard(b, i, m, p) \/ Added(b, m, p)
       \/ Reset(b, i, m, p) \/ Closed(b, m, p) \/ Fallen(m, p)
    /\ UNCHANGED <<scene, worker, posted>>

\* An Exchange is one Turn of a client and its session.
LEMMA Turns ==
    ASSUME SessionInv, Enough, NEW c \in Keys, NEW p, Exchange(c, p)
    PROVE  \E b, i, m, cl, d : Turn(c, p, b, i, m, cl, d)
<1>1. PICK b, i, m : /\ b = Session(c) /\ b \in DOMAIN chain /\ b \in Buckets /\ table.key[b] = c
                     /\ i = Position(b) /\ i \in 1..Len(chain[b]) /\ chain[b] \in Seq(Mail)
                     /\ m = chain[b][i] /\ m \in Mail /\ Outcome(c, b, i, m, p)
  BY DEF Exchange
<1>2. p.mail \in Nat /\ p.token \in Tokens /\ p.end \in BOOLEAN /\ ~down /\ UNCHANGED <<scene, worker, posted>>
  BY DEF Exchange
<1>3. /\ files \in Seq(Seq(Tokens)) /\ ring \in Seq(Keys) /\ failed \in BOOLEAN /\ ChainInv
  BY DEF SessionInv, ChainInv
<1>4. PICK cl, d : cl = client[c] /\ d = did[c]
  OBVIOUS
<1>5. /\ Says(p, cl, d, client'[c], did'[c])
      /\ \A k \in Keys : k # c => client'[k] = client[k] /\ did'[k] = did[k]
  BY <1>4 DEF Exchange, SessionInv
<1>6. \A a \in DOMAIN chain : table.key[a] \in Keys /\ (a # b => table.key[a] # c)
  BY <1>1 DEF SessionInv, TableInv, TableOK
<1>14. SUFFICES \/ Changed(c, p, b, i, m) \/ Unheard(b, i, m, p) \/ Added(b, m, p)
                \/ Reset(b, i, m, p) \/ Closed(b, m, p) \/ Fallen(m, p)
  <2>1. ASSUME \/ Changed(c, p, b, i, m) \/ Unheard(b, i, m, p) \/ Added(b, m, p)
               \/ Reset(b, i, m, p) \/ Closed(b, m, p) \/ Fallen(m, p)
        PROVE  Turn(c, p, b, i, m, cl, d)
    BY <1>1, <1>2, <1>4, <1>5, <1>6, <2>1 DEF Turn
  <2> QED
    BY <2>1
<1>7. ASSUME NEW m2, NEW k, Change(c, m, p, m2, k), Update(b, i, m2), Allocated(b, k), UNCHANGED <<table, down>>
      PROVE  Changed(c, p, b, i, m)
  <2>1. m2 \in Mail /\ k \in 0..2
    BY <1>1, <1>2, <1>3, <1>7, ChangeIs
  <2>2. /\ DOMAIN chain' = DOMAIN chain
        /\ Len(chain'[b]) = Len(chain[b]) /\ chain'[b][i] = m2 /\ chain'[b] = [chain[b] EXCEPT ![i] = m2]
        /\ \A j \in 1..Len(chain[b]) : j # i => chain'[b][j] = chain[b][j]
        /\ \A a \in DOMAIN chain : a # b => chain'[a] = chain[a]
    BY <1>1, <1>3, <1>7, <2>1, Updated
  <2> QED
    BY <1>7, <2>1, <2>2 DEF Changed, Only
<1>8. CASE \E m2, k : /\ Change(c, m, p, m2, k) /\ Update(b, i, m2) /\ Allocated(b, k) /\ UNCHANGED <<table, down>>
  BY <1>7, <1>8
<1>9. CASE /\ Ignored(b, i, m, p)
           /\ \E k \in 0..2 : Allocated(b, k) /\ (k # 0 => failed')
           /\ (failed' = TRUE \/ UNCHANGED failed) /\ UNCHANGED <<table, chain, files, ring, down>>
  BY <1>9 DEF Unheard
<1>10. CASE /\ p.verb = "MAIL" /\ ~m.starttls /\ m.data_store_flag # "START" /\ m.mail_from # NULL
            /\ chain' = [chain EXCEPT ![b] = Append(@, [NewMail EXCEPT !.mail_from = p.mail])]
            /\ Allocated(b, 2) /\ UNCHANGED <<table, files, ring, failed, down>>
  <2>1. PICK m2 : m2 = [NewMail EXCEPT !.mail_from = p.mail]
    OBVIOUS
  <2>2. p.mail \in Nat \ {0}
    BY <1>5, <1>10 DEF Says
  <2>3. m2 \in Mail
    BY <2>1, <2>2, NewMailIs
  <2>4. PICK j : j = Len(chain[b]) + 1
    OBVIOUS
  <2>5. SubSeq(chain[b], 1, j - 1) = chain[b]
    BY <1>1, <2>4, SubAll
  <2>6. chain' = [chain EXCEPT ![b] = Append(SubSeq(chain[b], 1, j - 1), m2)]
    BY <1>10, <2>1, <2>5
  <2>7. /\ DOMAIN chain' = DOMAIN chain /\ chain'[b] = Append(chain[b], m2)
        /\ Len(chain'[b]) = j /\ chain'[b][j] = m2
        /\ \A n \in 1..(j - 1) : chain'[b][n] = chain[b][n]
        /\ \A a \in DOMAIN chain : a # b => chain'[a] = chain[a]
    BY <1>1, <1>3, <2>3, <2>4, <2>5, <2>6, Appended
  <2>8. \A n \in 1..Len(chain[b]) : chain'[b][n] = chain[b][n]
    BY <1>1, <2>4, <2>7
  <2> QED
    BY <1>10, <2>1, <2>3, <2>4, <2>7, <2>8 DEF Added, Only
<1>11. CASE /\ p.verb = "RSET" /\ ~m.starttls /\ m.data_store_flag # "START"
            /\ chain' = [chain EXCEPT ![b] = Append(SubSeq(@, 1, i - 1), NewMail)]
            /\ Allocated(b, 1) /\ UNCHANGED <<table, files, ring, failed, down>>
  <2>1. /\ DOMAIN chain' = DOMAIN chain /\ Len(chain'[b]) = i /\ chain'[b][i] = NewMail
        /\ \A n \in 1..(i - 1) : chain'[b][n] = chain[b][n]
        /\ \A a \in DOMAIN chain : a # b => chain'[a] = chain[a]
    BY <1>1, <1>3, <1>11, NewMailIs, Appended
  <2> QED
    BY <1>11, <2>1 DEF Reset, Only
<1>12. CASE /\ p.verb = "221" /\ m.starttls
            /\ table' = RemoveHash(table, b) /\ FreeSmtp(b) /\ UNCHANGED <<files, ring, failed, down>>
  <2>1. /\ DOMAIN chain' = DOMAIN chain \ {b}
        /\ \A a \in DOMAIN chain' : chain'[a] = chain[a] /\ table'.key[a] = table.key[a]
    BY <1>1, <1>12, FreedIs
  <2> QED
    BY <1>12, <2>1 DEF Closed, Left, FreeSmtp
<1>13. CASE /\ failed' = TRUE \/ (~m.starttls /\ m.data_store_flag = "START" /\ NoName(m)
                             /\ p.verb \notin {"354", "221", "5xx"} /\ UNCHANGED failed)
            /\ down' = TRUE /\ UNCHANGED <<table, chain, files, ring, blocks>>
  BY <1>13 DEF Fallen
<1> QED
  BY <1>1, <1>8, <1>9, <1>10, <1>11, <1>12, <1>13 DEF Outcome

-----------------------------------------------------------------------------
(* The other steps *)

\* A session comes for connection c.
Came(c, b) ==
    /\ ~down /\ b \in Buckets /\ b \notin DOMAIN chain /\ \A a \in DOMAIN chain : table.key[a] \in Keys \ {c}
    /\ DOMAIN chain' = DOMAIN chain \cup {b} /\ chain'[b] = <<NewMail>> /\ table'.key[b] = c
    /\ \A a \in DOMAIN chain : a # b /\ chain'[a] = chain[a] /\ table'.key[a] = table.key[a]
    /\ IF client[c].at \in {"ready", "quit"} THEN UNCHANGED did ELSE Did(c, "torn")
    /\ Allocated(b, 2) /\ UNCHANGED <<scene, client, files, ring, worker, posted, failed, down>>

\* An Open is one session that came.
LEMMA Comes == ASSUME SessionInv, NEW c \in Keys, Open(c) PROVE \E b : Came(c, b)
<1>1. PICK b \in Buckets :
         /\ b \notin DOMAIN chain /\ Session(c) = NULL /\ \A a \in DOMAIN chain : table.key[a] # c
         /\ table' = InsertHash(table, b, c) /\ chain' = With(chain, b, <<NewMail>>) /\ Allocated(b, 2)
  BY OpenIs
<1>2. /\ TableInv' /\ DOMAIN chain' = DOMAIN chain \cup {b}
      /\ chain'[b] = <<NewMail>> /\ table'.key[b] = c
      /\ \A a \in DOMAIN chain : a # b /\ chain'[a] = chain[a] /\ table'.key[a] = table.key[a]
  BY <1>1, OpenedIs
<1>3. \A a \in DOMAIN chain : table.key[a] \in Keys \ {c}
  BY <1>1 DEF SessionInv, TableInv, TableOK
<1>4. Came(c, b)
  BY <1>1, <1>2, <1>3 DEF Open, Came
<1> QED
  BY <1>4

\* A worker has made a JSON text of mail m, the ith of bucket b.
Parsed(w, b, i, m) == \E m2 \in Mail :
    /\ ~down /\ b = worker[w].bucket /\ i = worker[w].mail /\ worker[w].at = "parse"
    /\ b \in DOMAIN chain /\ b \in Buckets /\ i \in 1..Len(chain[b])
    /\ chain[b] \in Seq(Mail) /\ m = chain[b][i] /\ m \in Mail /\ ~NoName(m)
    /\ m2 = [m EXCEPT !.result_json = TRUE] /\ Only(b) /\ Len(chain'[b]) = Len(chain[b]) /\ chain'[b][i] = m2
    /\ chain'[b] = [chain[b] EXCEPT ![i] = m2]
    /\ \A j \in 1..Len(chain[b]) : j # i => chain'[b][j] = chain[b][j]
    /\ Allocated(b, 1)
    /\ worker'[w] = [at |-> "extract", bucket |-> b, mail |-> i,
                     json |-> [key |-> table.key[b], env |-> Envelope(m), body |-> files[m.mail_body_name],
                               alone |-> Len(chain[b]) = 1]]
    /\ \A v \in Workers : v # w => worker'[v] = worker[v]
    /\ UNCHANGED <<scene, client, files, ring, posted, failed, down, did>>

\* What a worker that makes a JSON text leaves as it was, and what it makes the text of.
LEMMA ParsedSays ==
    ASSUME NEW w \in Workers, NEW b, NEW i, NEW m, Parsed(w, b, i, m)
    PROVE  /\ ~down /\ b \in DOMAIN chain /\ i \in 1..Len(chain[b]) /\ m = chain[b][i] /\ m \in Mail /\ ~NoName(m)
           /\ worker'[w].json.key = table.key[b] /\ worker'[w].json.body = files[m.mail_body_name]
           /\ \A v \in Workers : v # w => worker'[v] = worker[v]
           /\ UNCHANGED <<scene, client, files, ring, posted, failed, down, did>>
<1>1. /\ ~down /\ b \in DOMAIN chain /\ i \in 1..Len(chain[b]) /\ m = chain[b][i] /\ m \in Mail /\ ~NoName(m)
      /\ worker'[w] = [at |-> "extract", bucket |-> b, mail |-> i,
                       json |-> [key |-> table.key[b], env |-> Envelope(m), body |-> files[m.mail_body_name],
                                 alone |-> Len(chain[b]) = 1]]
      /\ \A v \in Workers : v # w => worker'[v] = worker[v]
      /\ UNCHANGED <<scene, client, files, ring, posted, failed, down, did>>
  BY ZenonT(60) DEF Parsed
<1>2. PICK r : r = worker'[w]
  OBVIOUS
<1>3. PICK j : j = [key |-> table.key[b], env |-> Envelope(m), body |-> files[m.mail_body_name],
                    alone |-> Len(chain[b]) = 1]
  OBVIOUS
<1>4. r = [at |-> "extract", bucket |-> b, mail |-> i, json |-> j]
  BY <1>1, <1>2, <1>3, ZenonT(60)
<1>5. r.json = j
  BY <1>4
<1>6. j.key = table.key[b] /\ j.body = files[m.mail_body_name]
  BY <1>3
<1> QED
  BY <1>1, <1>2, <1>5, <1>6, ZenonT(60)

\* A worker has taken the mail of a connection from the ring, which had ended.
Taken(w, b) ==
    /\ ~down /\ b \in DOMAIN chain /\ table.key[b] = Head(ring) /\ chain[b][1].dot_seen /\ worker[w].at = "idle"
    /\ worker'[w] = [at |-> "parse", bucket |-> b, mail |-> Len(chain[b])]
    /\ \A v \in Workers : v # w => worker'[v] = worker[v]
    /\ ring # <<>> /\ ring' = Tail(ring)
    /\ UNCHANGED <<scene, client, table, chain, files, posted, blocks, failed, down, did>>

\* The head of the ring names no session whose end was seen.
Missed(w) ==
    /\ ~down /\ ring # <<>> /\ ring' = Tail(ring)
    /\ \A b \in DOMAIN chain : table.key[b] = Head(ring) => ~chain[b][1].dot_seen
    /\ UNCHANGED <<scene, client, table, chain, files, posted, blocks, failed, down, did, worker>>

\* The worker posts the JSON that it made.
Posted(w) ==
    /\ ~down /\ worker[w].at = "extract" /\ worker[w].bucket \in DOMAIN chain
    /\ posted' = posted \cup {worker[w].json}
    /\ worker'[w] = [at |-> "release", bucket |-> worker[w].bucket, mail |-> worker[w].mail]
    /\ \A v \in Workers : v # w => worker'[v] = worker[v]
    /\ UNCHANGED <<scene, client, table, chain, files, ring, blocks, failed, down, did>>

\* The worker drops the session; another one may still hold it.
Released(w, b) ==
    /\ ~down /\ worker[w].at = "release" /\ b = worker[w].bucket /\ b \in DOMAIN chain /\ table.key[b] \in Keys
    /\ Left(b) /\ worker'[w] = [at |-> "idle", bucket |-> NULL, mail |-> 0]
    /\ \A v \in Workers : v # w => worker'[v] = worker[v]
    /\ IF \E v \in Workers \ {w} : worker[v].bucket = b THEN Did(table.key[b], "shared") ELSE UNCHANGED did
    /\ UNCHANGED <<scene, client, files, ring, posted, failed, down>>

\* A fault has made a worker give up.
GivenUp(w) ==
    /\ ~down /\ failed' = TRUE /\ worker'[w] = [at |-> "idle", bucket |-> NULL, mail |-> 0]
    /\ \A v \in Workers : v # w => worker'[v] = worker[v]
    /\ UNCHANGED <<scene, client, table, chain, files, ring, posted, blocks, down, did>>

\* A worker has followed a null pointer or used what was freed.
WorkerFallen(w) ==
    /\ down' = TRUE /\ worker[w].at # "idle"
    /\ \/ worker[w].bucket \notin DOMAIN chain
       \/ /\ worker[w].at = "parse"
          /\ worker[w].mail \in DOMAIN chain[worker[w].bucket] => NoName(chain[worker[w].bucket][worker[w].mail])
    /\ \/ UNCHANGED worker
       \/ /\ worker'[w] = [at |-> "idle", bucket |-> NULL, mail |-> 0]
          /\ \A v \in Workers : v # w => worker'[v] = worker[v]
    /\ UNCHANGED <<scene, client, table, chain, files, ring, posted, blocks, failed, did>>

\* A step of a worker is one of these.
LEMMA Works ==
    ASSUME SessionInv, Enough, NEW w \in Workers, Work(w)
    PROVE  \/ \E b : Taken(w, b)
           \/ Missed(w) \/ WorkerFallen(w) \/ GivenUp(w) \/ Posted(w)
           \/ \E b, i, m : Parsed(w, b, i, m)
           \/ \E b : Released(w, b)
<1>1. worker = [v \in Workers |-> worker[v]] /\ ChainInv
  BY DEF SessionInv, WorkerInv
<1>2. CASE Take(w)
  <2>1. /\ ring # <<>> /\ ring' = Tail(ring) /\ worker[w].at = "idle"
        /\ \/ UNCHANGED worker
           \/ \E b \in DOMAIN chain :
                 /\ table.key[b] = Head(ring) /\ chain[b][1].dot_seen /\ b \in Buckets
                 /\ worker' = [worker EXCEPT ![w] = [at |-> "parse", bucket |-> b, mail |-> Len(chain[b])]]
        /\ \A b \in DOMAIN chain : table.key[b] = Head(ring) /\ chain[b][1].dot_seen
              => worker' = [worker EXCEPT ![w] = [at |-> "parse", bucket |-> b, mail |-> Len(chain[b])]]
    BY <1>2, TakeIs
  <2>2. UNCHANGED <<scene, client, table, chain, files, posted, blocks, failed, down, did>> /\ ~down
    BY <1>2 DEF Take
  <2>3. CASE \E b \in DOMAIN chain : table.key[b] = Head(ring) /\ chain[b][1].dot_seen
    <3>1. PICK b \in DOMAIN chain : table.key[b] = Head(ring) /\ chain[b][1].dot_seen
      BY <2>3
    <3>2. worker' = [worker EXCEPT ![w] = [at |-> "parse", bucket |-> b, mail |-> Len(chain[b])]]
      BY <2>1, <3>1
    <3>3. Taken(w, b)
      BY <1>1, <2>1, <2>2, <3>1, <3>2 DEF Taken
    <3> QED
      BY <3>3
  <2>4. CASE \A b \in DOMAIN chain : table.key[b] = Head(ring) => ~chain[b][1].dot_seen
    <3>1. UNCHANGED worker
      BY <2>1, <2>4
    <3> QED
      BY <2>1, <2>2, <2>4, <3>1 DEF Missed
  <2> QED
    BY <2>3, <2>4
<1>3. CASE UseFreed(w)
  BY <1>3, IdleIs DEF UseFreed, Crash, Freed, WorkerFallen
<1>4. CASE Parse(w)
  <2>1. CASE Crash /\ UNCHANGED worker
    <3>1. worker[w].mail \in DOMAIN chain[worker[w].bucket] => NoName(chain[worker[w].bucket][worker[w].mail])
      <4>1. ~(worker[w].at = "extract")
        BY <1>4 DEF Parse
      <4>2. CASE ~NoName(chain[worker[w].bucket][worker[w].mail]) /\ worker[w].mail \in DOMAIN chain[worker[w].bucket]
        <5>1. worker' # worker \/ UNCHANGED down
          BY <1>4, <4>2 DEF Parse, The
        <5> QED
          BY <1>4, <2>1, <5>1 DEF Crash, Parse
      <4> QED
        BY <4>2
    <3> QED
      BY <1>4, <2>1, <3>1 DEF Parse, Crash, WorkerFallen
  <2>2. CASE UNCHANGED down
    <3>1. PICK b, i, m, m2 :
              /\ b = worker[w].bucket /\ i = worker[w].mail /\ worker[w].at = "parse"
              /\ b \in DOMAIN chain /\ b \in Buckets /\ i \in 1..Len(chain[b])
              /\ m = chain[b][i] /\ m \in Mail /\ ~NoName(m) /\ chain[b] \in Seq(Mail)
              /\ m2 = [m EXCEPT !.result_json = TRUE] /\ m2 \in Mail /\ BlocksOfMail(m2) <= BlocksOfMail(m) + 1
              /\ \/ /\ Update(b, i, m2) /\ Allocated(b, 1) /\ UNCHANGED <<failed, table, files, ring>>
                    /\ worker' = [worker EXCEPT ![w] =
                          [at |-> "extract", bucket |-> b, mail |-> i,
                           json |-> [key |-> table.key[b], env |-> Envelope(m), body |-> files[m.mail_body_name],
                                     alone |-> Len(chain[b]) = 1]]]
                 \/ failed' = TRUE /\ Idle(w) /\ UNCHANGED <<table, chain, files, ring, blocks>>
              /\ UNCHANGED <<scene, client, posted, did, down>>
      BY <1>4, <2>2, ParseIs
    <3>0. ~down
      BY <1>4 DEF Parse
    <3>2. CASE failed' = TRUE /\ Idle(w) /\ UNCHANGED <<table, chain, files, ring, blocks>>
      BY <3>0, <3>1, <3>2, IdleIs DEF GivenUp
    <3>3. CASE /\ Update(b, i, m2) /\ Allocated(b, 1) /\ UNCHANGED <<failed, table, files, ring>>
               /\ worker' = [worker EXCEPT ![w] =
                     [at |-> "extract", bucket |-> b, mail |-> i,
                      json |-> [key |-> table.key[b], env |-> Envelope(m), body |-> files[m.mail_body_name],
                                alone |-> Len(chain[b]) = 1]]]
      <4>1. /\ DOMAIN chain' = DOMAIN chain
            /\ Len(chain'[b]) = Len(chain[b]) /\ chain'[b][i] = m2 /\ chain'[b] = [chain[b] EXCEPT ![i] = m2]
            /\ \A j \in 1..Len(chain[b]) : j # i => chain'[b][j] = chain[b][j]
            /\ \A a \in DOMAIN chain : a # b => chain'[a] = chain[a]
        <5>1. ChainInv /\ b \in DOMAIN chain /\ i \in 1..Len(chain[b]) /\ m2 \in Mail /\ Update(b, i, m2)
          BY <1>1, <3>1, <3>3
        <5> QED
          BY <5>1, Updated
      <4>2. Only(b)
        BY <3>3, <4>1 DEF Only
      <4>3. /\ worker'[w] = [at |-> "extract", bucket |-> b, mail |-> i,
                             json |-> [key |-> table.key[b], env |-> Envelope(m), body |-> files[m.mail_body_name],
                                       alone |-> Len(chain[b]) = 1]]
            /\ \A v \in Workers : v # w => worker'[v] = worker[v]
        BY <1>1, <3>3
      <4>4. Parsed(w, b, i, m)
        BY <3>0, <3>1, <3>3, <4>1, <4>2, <4>3 DEF Parsed
      <4> QED
        BY <4>4
    <3> QED
      BY <3>1, <3>2, <3>3
  <2> QED
    BY <1>4, <2>1, <2>2 DEF Parse
<1>5. CASE Extract(w)
  <2>1. CASE /\ posted' = posted \cup {worker[w].json} /\ NoFault
             /\ worker' = [worker EXCEPT ![w] = [at |-> "release", bucket |-> worker[w].bucket, mail |-> worker[w].mail]]
    BY <1>1, <1>5, <2>1 DEF Extract, NoFault, Freed, Posted
  <2>2. CASE failed' = TRUE /\ Idle(w) /\ UNCHANGED posted
    BY <1>5, <2>2, IdleIs DEF Extract, GivenUp
  <2> QED
    BY <1>5, <2>1, <2>2 DEF Extract, Fault
<1>6. CASE Release(w)
  <2>1. PICK b : b = worker[w].bucket
    OBVIOUS
  <2>2. /\ b \in DOMAIN chain /\ table' = RemoveHash(table, b) /\ FreeSmtp(b) /\ Idle(w)
        /\ UNCHANGED <<scene, client, files, ring, posted, failed, down>> /\ ~down /\ worker[w].at = "release"
        /\ IF \E v \in Workers \ {w} : worker[v].bucket = b THEN Did(table.key[b], "shared") ELSE UNCHANGED did
    BY <1>6, <2>1 DEF Release, Freed
  <2>3. /\ DOMAIN chain' = DOMAIN chain \ {b}
        /\ \A a \in DOMAIN chain' : chain'[a] = chain[a] /\ table'.key[a] = table.key[a]
    BY <2>2, FreedIs
  <2>4. Left(b)
    BY <2>2, <2>3 DEF FreeSmtp, Left
  <2>5. table.key[b] \in Keys
    BY <2>2 DEF SessionInv, TableInv, TableOK
  <2>6. Released(w, b)
    BY <2>1, <2>2, <2>4, <2>5, IdleIs DEF Released
  <2> QED
    BY <2>6
<1> QED
  BY <1>2, <1>3, <1>4, <1>5, <1>6 DEF Work

\* What a worker does takes no failure back.
LEMMA FailureStays ==
    ASSUME SessionInv, Enough, NEW w \in Workers, Work(w)
    PROVE  failed => failed'
<1>1. ASSUME NEW b, Taken(w, b) PROVE failed => failed'
  <2>1. failed' = failed
    BY <1>1 DEF Taken
  <2> QED
    BY <2>1
<1>2. CASE Missed(w)
  <2>1. failed' = failed
    BY <1>2 DEF Missed
  <2> QED
    BY <2>1
<1>3. CASE WorkerFallen(w)
  <2>1. failed' = failed
    BY <1>3 DEF WorkerFallen
  <2> QED
    BY <2>1
<1>4. CASE GivenUp(w)
  BY <1>4 DEF GivenUp
<1>5. CASE Posted(w)
  <2>1. failed' = failed
    BY <1>5 DEF Posted
  <2> QED
    BY <2>1
<1>6. ASSUME NEW b, NEW i, NEW m, Parsed(w, b, i, m) PROVE failed => failed'
  <2>1. failed' = failed
    BY <1>6 DEF Parsed
  <2> QED
    BY <2>1
<1>7. ASSUME NEW b, Released(w, b) PROVE failed => failed'
  <2>1. failed' = failed
    BY <1>7 DEF Released
  <2> QED
    BY <2>1
<1> QED
  BY <1>1, <1>2, <1>3, <1>4, <1>5, <1>6, <1>7, Works

-----------------------------------------------------------------------------
(* Each mail has a file of its own *)

\* Two mails never have the same file.
NamesApart ==
    /\ \A a \in DOMAIN chain : \A i \in 1..Len(chain[a]) : chain[a][i].mail_body_name <= Len(files)
    /\ \A a, b \in DOMAIN chain : \A i \in 1..Len(chain[a]), j \in 1..Len(chain[b]) :
          chain[a][i].mail_body_name = chain[b][j].mail_body_name /\ chain[a][i].mail_body_name # NULL
             => a = b /\ i = j

\* What a change makes of the files.
FilesOf(p, m, m2) ==
    \/ m2.mail_body_name = m.mail_body_name /\ UNCHANGED files
    \/ /\ p.verb = "354" /\ files' = Append(files, <<>>)
       /\ m2.mail_body_name \in {NULL, Len(files) + 1}
    \/ /\ p.verb \notin {"354", "221", "5xx"} /\ m.data_store_flag = "START" /\ ~m.starttls /\ ~NoName(m)
       /\ m2.mail_body_name = m.mail_body_name
       /\ files' = [files EXCEPT ![m.mail_body_name] = Append(@, p.token)]

\* What a changed mail does to the files.
LEMMA ChangeFiles ==
    ASSUME NEW c, NEW m \in Mail, NEW p, NEW m2, NEW k, Change(c, m, p, m2, k)
    PROVE  FilesOf(p, m, m2)
<1>1. PICK n : n = m.mail_body_name
  OBVIOUS
<1>2. DOMAIN m = {"mail_from", "rcpt_to", "mail_body_name", "mail_body_dir", "result_json", "starttls",
                  "data_store_flag", "data_seen", "bdat_seen", "dot_seen", "quit_seen", "bdat_total_len",
                  "bdat_read_len", "bdat_last", "session_quit_flag"}
  BY DEF Mail
<1> QED
  BY <1>1, <1>2 DEF Change, FilesOf

\* There are finitely many files.
LEMMA FilesLong == ASSUME SessionInv PROVE Len(files) \in Nat /\ files \in Seq(Seq(Tokens))
BY DEF SessionInv, ChainInv

\* The mails of a chain are mails.
LEMMA MailsAre ==
    ASSUME SessionInv, NEW b \in DOMAIN chain
    PROVE  /\ chain[b] \in Seq(Mail) /\ Len(chain[b]) \in Nat \ {0} /\ b \in Buckets
           /\ \A i \in 1..Len(chain[b]) : chain[b][i] \in Mail
BY DEF SessionInv, ChainInv

\* Mails of a chain whose names are as they were, none, or new.
NamesFrom(b, i) ==
    \A a \in DOMAIN chain' : \A j \in 1..Len(chain'[a]) :
       \/ /\ a \in DOMAIN chain /\ j \in 1..Len(chain[a])
          /\ chain'[a][j].mail_body_name = chain[a][j].mail_body_name
       \/ chain'[a][j].mail_body_name = NULL
       \/ /\ a = b /\ j = i /\ chain'[a][j].mail_body_name = Len(files) + 1 /\ Len(files') = Len(files) + 1

\* Names stay apart when one mail keeps its name, loses it or gets a new one.
LEMMA NamesKept ==
    ASSUME SessionInv, NamesApart, NEW b, NEW i, Len(files') \in Nat, Len(files) <= Len(files'),
           NamesFrom(b, i)
    PROVE  NamesApart'
<1>1. PICK L, L2 \in Nat : L = Len(files) /\ L2 = Len(files')
  BY FilesLong
<1>2. \A a \in DOMAIN chain : \A j \in 1..Len(chain[a]) :
         chain[a][j].mail_body_name \in Nat /\ chain[a][j].mail_body_name <= L
  <2>1. SUFFICES ASSUME NEW a \in DOMAIN chain, NEW j \in 1..Len(chain[a])
                 PROVE  chain[a][j].mail_body_name \in Nat /\ chain[a][j].mail_body_name <= L
    OBVIOUS
  <2>2. chain[a][j] \in Mail
    BY MailsAre
  <2> QED
    BY <1>1, <2>2 DEF Mail, NamesApart
<1>3. ASSUME NEW a \in DOMAIN chain', NEW j \in 1..Len(chain'[a]) PROVE chain'[a][j].mail_body_name <= L2
  <2>1. \/ /\ a \in DOMAIN chain /\ j \in 1..Len(chain[a])
           /\ chain'[a][j].mail_body_name = chain[a][j].mail_body_name
        \/ chain'[a][j].mail_body_name = NULL
        \/ chain'[a][j].mail_body_name = L + 1 /\ L2 = L + 1
    BY <1>1 DEF NamesFrom
  <2>2. L <= L2
    BY <1>1
  <2> QED
    BY <1>2, <2>1, <2>2 DEF NULL
<1>4. ASSUME NEW a \in DOMAIN chain', NEW d \in DOMAIN chain',
             NEW j \in 1..Len(chain'[a]), NEW k \in 1..Len(chain'[d]),
             chain'[a][j].mail_body_name = chain'[d][k].mail_body_name, chain'[a][j].mail_body_name # NULL
      PROVE  a = d /\ j = k
  <2>1. \/ /\ a \in DOMAIN chain /\ j \in 1..Len(chain[a])
           /\ chain'[a][j].mail_body_name = chain[a][j].mail_body_name
        \/ a = b /\ j = i /\ chain'[a][j].mail_body_name = L + 1
    BY <1>1, <1>4 DEF NamesFrom
  <2>2. \/ /\ d \in DOMAIN chain /\ k \in 1..Len(chain[d])
           /\ chain'[d][k].mail_body_name = chain[d][k].mail_body_name
        \/ d = b /\ k = i /\ chain'[d][k].mail_body_name = L + 1
    BY <1>1, <1>4 DEF NamesFrom
  <2> QED
    BY <1>2, <1>4, <2>1, <2>2 DEF NamesApart
<1> QED
  BY <1>1, <1>3, <1>4 DEF NamesApart

\* A cleared mail has no file.
LEMMA NewName == NewMail.mail_body_name = NULL
BY DEF NewMail

\* Every packet keeps them apart.
LEMMA NamesTurn ==
    ASSUME SessionInv, NamesApart, NEW c \in Keys, NEW p, NEW b, NEW i, NEW m, NEW cl, NEW d, Turn(c, p, b, i, m, cl, d)
    PROVE  NamesApart'
<1>1. /\ b \in DOMAIN chain /\ i \in 1..Len(chain[b]) /\ chain[b] \in Seq(Mail) /\ m = chain[b][i] /\ m \in Mail
  BY DEF Turn
<1>2. Len(files) \in Nat /\ files \in Seq(Seq(Tokens))
  BY FilesLong
<1>3. ASSUME UNCHANGED <<chain, files>> PROVE NamesApart'
  BY <1>3 DEF NamesApart
<1>4. CASE Changed(c, p, b, i, m)
  <2>1. PICK m2 \in Mail, k \in 0..2 :
          /\ Change(c, m, p, m2, k) /\ Only(b) /\ Len(chain'[b]) = Len(chain[b]) /\ chain'[b][i] = m2
          /\ \A j \in 1..Len(chain[b]) : j # i => chain'[b][j] = chain[b][j]
    BY <1>4 DEF Changed
  <2>2. \/ m2.mail_body_name = m.mail_body_name /\ Len(files') = Len(files)
        \/ Len(files') = Len(files) + 1 /\ m2.mail_body_name \in {NULL, Len(files) + 1}
    <3>2. Change(c, m, p, m2, k) /\ m \in Mail
      BY <1>1, <2>1
    <3>1. FilesOf(p, m, m2)
      BY <3>2, ChangeFiles
    <3> QED
      BY <1>2, <3>1 DEF FilesOf
  <2>3. NamesFrom(b, i)
    BY <1>1, <2>1, <2>2 DEF Only, NamesFrom
  <2>4. Len(files') \in Nat /\ Len(files) <= Len(files')
    BY <1>2, <2>2
  <2> QED
    BY <2>3, <2>4, NamesKept
<1>5. CASE Unheard(b, i, m, p)
  BY <1>3, <1>5 DEF Unheard
<1>6. CASE Added(b, m, p)
  <2>1. PICK m2 : /\ m2 = [NewMail EXCEPT !.mail_from = p.mail] /\ Only(b)
                  /\ Len(chain'[b]) = Len(chain[b]) + 1 /\ chain'[b][Len(chain[b]) + 1] = m2
                  /\ \A j \in 1..Len(chain[b]) : chain'[b][j] = chain[b][j]
                  /\ UNCHANGED files
    BY <1>6 DEF Added
  <2>2. m2.mail_body_name = NULL
    BY <2>1 DEF NewMail
  <2>3. ASSUME NEW a \in DOMAIN chain', NEW j \in 1..Len(chain'[a])
        PROVE  \/ /\ a \in DOMAIN chain /\ j \in 1..Len(chain[a])
                  /\ chain'[a][j].mail_body_name = chain[a][j].mail_body_name
               \/ chain'[a][j].mail_body_name = NULL
    <3>1. CASE a # b
      BY <2>1, <3>1 DEF Only
    <3>2. CASE a = b /\ j \in 1..Len(chain[b])
      BY <1>1, <2>1, <3>2
    <3>3. CASE a = b /\ j = Len(chain[b]) + 1
      BY <2>1, <2>2, <3>3
    <3>4. Len(chain[b]) \in Nat
      BY <1>1
    <3> QED
      BY <2>1, <3>1, <3>2, <3>3, <3>4
  <2> QED
    BY <1>2, <2>1, <2>3, NamesKept DEF NamesFrom
<1>7. CASE Reset(b, i, m, p)
  <2>1. /\ Only(b) /\ Len(chain'[b]) = i /\ chain'[b][i] = NewMail
        /\ \A j \in 1..(i - 1) : chain'[b][j] = chain[b][j] /\ UNCHANGED files
    BY <1>7 DEF Reset
  <2>2. UNCHANGED files
    BY <1>7 DEF Reset
  <2>3. ASSUME NEW a \in DOMAIN chain', NEW j \in 1..Len(chain'[a])
        PROVE  \/ /\ a \in DOMAIN chain /\ j \in 1..Len(chain[a])
                  /\ chain'[a][j].mail_body_name = chain[a][j].mail_body_name
               \/ chain'[a][j].mail_body_name = NULL
    BY <1>1, <2>1, NewName DEF Only
  <2> QED
    BY <1>2, <2>2, <2>3, NamesKept DEF NamesFrom
<1>8. CASE Closed(b, m, p)
  <2>1. ASSUME NEW a \in DOMAIN chain', NEW j \in 1..Len(chain'[a])
        PROVE  /\ a \in DOMAIN chain /\ j \in 1..Len(chain[a])
               /\ chain'[a][j].mail_body_name = chain[a][j].mail_body_name
    BY <1>8 DEF Closed, Left
  <2>2. UNCHANGED files
    BY <1>8 DEF Closed
  <2> QED
    BY <1>2, <2>1, <2>2, NamesKept DEF NamesFrom
<1>9. CASE Fallen(m, p)
  BY <1>3, <1>9 DEF Fallen
<1> QED
  BY <1>4, <1>5, <1>6, <1>7, <1>8, <1>9 DEF Turn

\* So does a new connection.
LEMMA NamesCome == ASSUME SessionInv, NamesApart, NEW c, NEW b, Came(c, b) PROVE NamesApart'
<1>1. UNCHANGED files /\ Len(files) \in Nat
  BY FilesLong DEF Came
<1>2. ASSUME NEW a \in DOMAIN chain', NEW j \in 1..Len(chain'[a])
      PROVE  \/ /\ a \in DOMAIN chain /\ j \in 1..Len(chain[a])
                /\ chain'[a][j].mail_body_name = chain[a][j].mail_body_name
             \/ chain'[a][j].mail_body_name = NULL
  <2>1. CASE a = b
    <3>1. chain'[a] = <<NewMail>>
      BY <2>1 DEF Came
    <3>2. chain'[a][j] = NewMail
      BY <3>1
    <3> QED
      BY <3>2, NewName
  <2>2. CASE a # b
    BY <2>2 DEF Came
  <2> QED
    BY <2>1, <2>2
<1> QED
  BY <1>1, <1>2, NamesKept DEF NamesFrom

\* So does a worker.
LEMMA NamesWork == ASSUME SessionInv, Enough, NamesApart, NEW w \in Workers, Work(w) PROVE NamesApart'
<1>1. ASSUME UNCHANGED <<chain, files>> PROVE NamesApart'
  BY <1>1 DEF NamesApart
<1>2. CASE (\E b : Taken(w, b)) \/ Missed(w) \/ WorkerFallen(w) \/ GivenUp(w) \/ Posted(w)
  BY <1>1, <1>2 DEF Taken, Missed, WorkerFallen, GivenUp, Posted
<1>3. Len(files) \in Nat
  BY FilesLong
<1>4. ASSUME NEW b, NEW i, NEW m, Parsed(w, b, i, m) PROVE NamesApart'
  <2>1. PICK m2 \in Mail :
           /\ b \in DOMAIN chain /\ i \in 1..Len(chain[b]) /\ m = chain[b][i] /\ m \in Mail
           /\ m2 = [m EXCEPT !.result_json = TRUE] /\ Only(b) /\ Len(chain'[b]) = Len(chain[b]) /\ chain'[b][i] = m2
           /\ \A j \in 1..Len(chain[b]) : j # i => chain'[b][j] = chain[b][j]
           /\ UNCHANGED files
    BY <1>4 DEF Parsed
  <2>2. m2.mail_body_name = m.mail_body_name
    BY <2>1 DEF Mail
  <2>3. ASSUME NEW a \in DOMAIN chain', NEW j \in 1..Len(chain'[a])
        PROVE  /\ a \in DOMAIN chain /\ j \in 1..Len(chain[a])
               /\ chain'[a][j].mail_body_name = chain[a][j].mail_body_name
    BY <2>1, <2>2 DEF Only
  <2>4. Len(files') \in Nat /\ Len(files) <= Len(files')
    BY <1>3, <2>1
  <2> QED
    BY <2>3, <2>4, NamesKept DEF NamesFrom
<1>5. ASSUME NEW b, Released(w, b) PROVE NamesApart'
  <2>1. ASSUME NEW a \in DOMAIN chain', NEW j \in 1..Len(chain'[a])
        PROVE  /\ a \in DOMAIN chain /\ j \in 1..Len(chain[a])
               /\ chain'[a][j].mail_body_name = chain[a][j].mail_body_name
    BY <1>5 DEF Released, Left
  <2>2. UNCHANGED files
    BY <1>5 DEF Released
  <2> QED
    BY <1>3, <2>1, <2>2, NamesKept DEF NamesFrom
<1> QED
  BY <1>2, <1>4, <1>5, Works

-----------------------------------------------------------------------------
(* A change of a mail, field by field *)

\* What a handler leaves alone, and what it writes.
SameEnvelope(m, m2) == m2.mail_from = m.mail_from /\ m2.rcpt_to = m.rcpt_to
SameName(m, m2) == m2.mail_body_name = m.mail_body_name /\ m2.mail_body_dir = m.mail_body_dir
SameFlags(m, m2) == m2.data_store_flag = m.data_store_flag /\ m2.bdat_seen = m.bdat_seen
SameEnd(m, m2) == m2.dot_seen = m.dot_seen /\ m2.result_json = m.result_json
WithRcpt(m, p) == Append(m.rcpt_to, p.mail)
Files(p, m) == files' = [files EXCEPT ![m.mail_body_name] = Append(@, p.token)] /\ UNCHANGED failed

\* The handlers once more, field by field: what of a mail each of them changes.
Fields(c, p, m, m2, k) ==
    \/ /\ p.verb = "STARTTLS" /\ ~m.starttls /\ m.data_store_flag # "START" /\ m2.starttls /\ k = 0
       /\ SameEnvelope(m, m2) /\ SameName(m, m2) /\ SameFlags(m, m2) /\ SameEnd(m, m2)
       /\ m2.data_seen = m.data_seen /\ UNCHANGED <<files, ring, failed>>
    \/ /\ \/ p.verb = "QUIT" /\ (m.starttls \/ m.data_store_flag # "START")
          \/ p.verb = "221" /\ ~m.starttls
       /\ m2.starttls = m.starttls /\ SameEnvelope(m, m2) /\ SameName(m, m2) /\ SameFlags(m, m2) /\ k = 0
       /\ SameEnd(m, m2) /\ m2.data_seen = m.data_seen /\ UNCHANGED <<files, ring, failed>>
    \/ /\ p.verb = "MAIL" /\ ~m.starttls /\ ~m2.starttls /\ m.data_store_flag # "START"
       /\ m.mail_from = NULL /\ m2.mail_from = p.mail /\ m2.rcpt_to = m.rcpt_to /\ SameName(m, m2)
       /\ SameFlags(m, m2) /\ SameEnd(m, m2) /\ m2.data_seen = m.data_seen /\ k = 1
       /\ UNCHANGED <<files, ring, failed>>
    \/ /\ p.verb = "RCPT" /\ ~m.starttls /\ ~m2.starttls /\ m.data_store_flag # "START"
       /\ m2.mail_from = m.mail_from /\ SameName(m, m2) /\ k = 2
       /\ SameFlags(m, m2) /\ SameEnd(m, m2) /\ m2.data_seen = m.data_seen /\ UNCHANGED <<files, ring>>
       /\ \/ m2.rcpt_to = WithRcpt(m, p) /\ UNCHANGED failed
          \/ failed' = TRUE
    \/ /\ p.verb = "DATA" /\ ~m.starttls /\ ~m2.starttls /\ m.data_store_flag # "START" /\ k = 0
       /\ SameEnvelope(m, m2) /\ SameName(m, m2) /\ m2.data_store_flag = m.data_store_flag /\ ~m2.bdat_seen
       /\ SameEnd(m, m2) /\ m2.data_seen /\ UNCHANGED <<files, ring, failed>>
    \/ /\ p.verb = "BDAT" /\ ~m.starttls /\ ~m2.starttls /\ m.data_store_flag # "START" /\ k = 0
       /\ SameEnvelope(m, m2) /\ SameName(m, m2) /\ m2.data_store_flag = "START" /\ m2.bdat_seen
       /\ SameEnd(m, m2) /\ UNCHANGED <<files, ring, failed>>
    \/ /\ p.verb = "BDAT LAST" /\ ~m.starttls /\ ~m2.starttls /\ m.data_store_flag # "START" /\ k = 0
       /\ SameEnvelope(m, m2) /\ SameName(m, m2) /\ SameFlags(m, m2)
       /\ SameEnd(m, m2) /\ UNCHANGED <<files, ring, failed>>
    \/ /\ p.verb = "354" /\ ~m.starttls /\ ~m2.starttls /\ files' = Append(files, <<>>)
       /\ SameEnvelope(m, m2) /\ m2.data_store_flag = "START" /\ m2.bdat_seen = m.bdat_seen
       /\ SameEnd(m, m2) /\ UNCHANGED ring /\ m2.mail_body_name \in {NULL, Len(files) + 1}
       /\ \/ m2.mail_body_name = Len(files) + 1 /\ m2.mail_body_dir /\ k = 2 /\ UNCHANGED failed
          \/ failed' = TRUE
    \/ /\ p.verb \notin {"354", "221", "5xx"} /\ ~m.starttls /\ ~m2.starttls /\ m.data_store_flag = "START"
       /\ ~m.bdat_seen /\ ~m2.bdat_seen /\ ~NoName(m) /\ SameEnvelope(m, m2) /\ SameName(m, m2) /\ k = 0
       /\ Files(p, m) \/ (UNCHANGED files /\ failed' = TRUE)
       /\ ring' = IF p.end THEN Append(ring, c) ELSE ring
       /\ m2.result_json = m.result_json /\ m2.dot_seen = (m.dot_seen \/ p.end)
       /\ m2.data_store_flag = IF m2.dot_seen THEN "END" ELSE "START"
    \/ /\ p.verb \notin {"354", "221", "5xx"} /\ ~m.starttls /\ ~m2.starttls /\ m.data_store_flag = "START"
       /\ m.bdat_seen /\ m2.bdat_seen /\ ~NoName(m) /\ SameEnvelope(m, m2) /\ SameName(m, m2) /\ k = 0
       /\ Files(p, m) \/ (UNCHANGED files /\ failed' = TRUE)
       /\ UNCHANGED ring /\ SameEnd(m, m2)

\* A changed mail has changed in one of these ways.
LEMMA FieldsAre ==
    ASSUME NEW c, NEW p, NEW m \in Mail, NEW m2 \in Mail, NEW k, Change(c, m, p, m2, k), p.end \in BOOLEAN
    PROVE  Fields(c, p, m, m2, k)
<1>1. DOMAIN m = {"mail_from", "rcpt_to", "mail_body_name", "mail_body_dir", "result_json", "starttls",
                  "data_store_flag", "data_seen", "bdat_seen", "dot_seen", "quit_seen", "bdat_total_len",
                  "bdat_read_len", "bdat_last", "session_quit_flag"}
  BY DEF Mail
<1>2. /\ m.starttls \in BOOLEAN /\ m.dot_seen \in BOOLEAN /\ m.bdat_seen \in BOOLEAN
      /\ m2.starttls \in BOOLEAN /\ m2.dot_seen \in BOOLEAN /\ m2.bdat_seen \in BOOLEAN
  BY DEF Mail
<1> USE DEF SameEnvelope, SameName, SameFlags, SameEnd
<1>3. ASSUME /\ p.verb = "STARTTLS" /\ ~m.starttls /\ m.data_store_flag # "START"
             /\ m2 = [m EXCEPT !.starttls = TRUE] /\ k = 0 /\ UNCHANGED <<files, ring, failed>>
      PROVE  Fields(c, p, m, m2, k)
  <2>1. m2.starttls /\ SameEnvelope(m, m2) /\ SameName(m, m2) /\ SameFlags(m, m2) /\ SameEnd(m, m2) /\ m2.data_seen = m.data_seen
    BY <1>1, <1>2, <1>3
  <2> QED
    BY <1>3, <2>1 DEF Fields
<1>4. ASSUME /\ p.verb = "QUIT" /\ (m.starttls \/ m.data_store_flag # "START")
             /\ m2 = [m EXCEPT !.quit_seen = TRUE] /\ k = 0 /\ UNCHANGED <<files, ring, failed>>
      PROVE  Fields(c, p, m, m2, k)
  <2>1. m2.starttls = m.starttls /\ SameEnvelope(m, m2) /\ SameName(m, m2) /\ SameFlags(m, m2) /\ SameEnd(m, m2) /\ m2.data_seen = m.data_seen
    BY <1>1, <1>2, <1>4
  <2> QED
    BY <1>4, <2>1 DEF Fields
<1>5. ASSUME /\ p.verb = "221" /\ ~m.starttls
             /\ m2 = [m EXCEPT !.session_quit_flag = TRUE] /\ k = 0 /\ UNCHANGED <<files, ring, failed>>
      PROVE  Fields(c, p, m, m2, k)
  <2>1. m2.starttls = m.starttls /\ SameEnvelope(m, m2) /\ SameName(m, m2) /\ SameFlags(m, m2) /\ SameEnd(m, m2) /\ m2.data_seen = m.data_seen
    BY <1>1, <1>2, <1>5
  <2> QED
    BY <1>5, <2>1 DEF Fields
<1>6. ASSUME /\ p.verb = "MAIL" /\ ~m.starttls /\ m.data_store_flag # "START" /\ m.mail_from = NULL
             /\ m2 = [m EXCEPT !.mail_from = p.mail] /\ k = 1 /\ UNCHANGED <<files, ring, failed>>
      PROVE  Fields(c, p, m, m2, k)
  <2>1. /\ m2.mail_from = p.mail /\ m2.rcpt_to = m.rcpt_to /\ SameName(m, m2) /\ SameFlags(m, m2)
        /\ SameEnd(m, m2) /\ m2.data_seen = m.data_seen /\ ~m2.starttls
    BY <1>1, <1>2, <1>6
  <2> QED
    BY <1>6, <2>1 DEF Fields
<1>7. ASSUME NEW r, /\ p.verb = "RCPT" /\ ~m.starttls /\ m.data_store_flag # "START" /\ k = 2
                    /\ m2 = [m EXCEPT !.rcpt_to = r] /\ UNCHANGED <<files, ring>>
                    /\ (r = WithRcpt(m, p) /\ UNCHANGED failed) \/ failed' = TRUE
      PROVE  Fields(c, p, m, m2, k)
  <2>1. /\ m2.mail_from = m.mail_from /\ m2.rcpt_to = r /\ SameName(m, m2) /\ SameFlags(m, m2)
        /\ SameEnd(m, m2) /\ m2.data_seen = m.data_seen /\ ~m2.starttls
    BY <1>1, <1>2, <1>7
  <2> QED
    BY <1>7, <2>1 DEF Fields
<1>8. ASSUME /\ p.verb = "DATA" /\ ~m.starttls /\ m.data_store_flag # "START" /\ k = 0
             /\ m2 = [m EXCEPT !.data_seen = TRUE, !.bdat_seen = FALSE] /\ UNCHANGED <<files, ring, failed>>
      PROVE  Fields(c, p, m, m2, k)
  <2>1. /\ SameEnvelope(m, m2) /\ SameName(m, m2) /\ m2.data_store_flag = m.data_store_flag /\ ~m2.bdat_seen
        /\ SameEnd(m, m2) /\ m2.data_seen /\ ~m2.starttls
    BY <1>1, <1>2, <1>8
  <2> QED
    BY <1>8, <2>1 DEF Fields
<1>9. ASSUME /\ p.verb = "BDAT" /\ ~m.starttls /\ m.data_store_flag # "START" /\ k = 0
             /\ m2 = [m EXCEPT !.bdat_seen = TRUE, !.data_seen = FALSE, !.data_store_flag = "START",
                               !.bdat_total_len = Segments]
             /\ UNCHANGED <<files, ring, failed>>
      PROVE  Fields(c, p, m, m2, k)
  <2>1. /\ SameEnvelope(m, m2) /\ SameName(m, m2) /\ m2.data_store_flag = "START" /\ m2.bdat_seen
        /\ SameEnd(m, m2) /\ ~m2.starttls
    BY <1>1, <1>2, <1>9
  <2> QED
    BY <1>9, <2>1 DEF Fields
<1>10. ASSUME /\ p.verb = "BDAT LAST" /\ ~m.starttls /\ m.data_store_flag # "START" /\ k = 0
              /\ m2 = [m EXCEPT !.bdat_last = TRUE, !.bdat_total_len = Segments] /\ UNCHANGED <<files, ring, failed>>
      PROVE  Fields(c, p, m, m2, k)
  <2>1. SameEnvelope(m, m2) /\ SameName(m, m2) /\ SameFlags(m, m2) /\ SameEnd(m, m2) /\ ~m2.starttls
    BY <1>1, <1>2, <1>10
  <2> QED
    BY <1>10, <2>1 DEF Fields
<1>11. ASSUME /\ p.verb = "354" /\ ~m.starttls /\ files' = Append(files, <<>>) /\ UNCHANGED ring /\ k = 2
              /\ m2 = [m EXCEPT !.data_store_flag = "START", !.mail_body_name = Len(files) + 1,
                                !.mail_body_dir = TRUE]
              /\ UNCHANGED failed
      PROVE  Fields(c, p, m, m2, k)
  <2>1. /\ SameEnvelope(m, m2) /\ m2.data_store_flag = "START" /\ m2.bdat_seen = m.bdat_seen /\ SameEnd(m, m2)
        /\ ~m2.starttls /\ m2.mail_body_name = Len(files) + 1 /\ m2.mail_body_dir
    BY <1>1, <1>2, <1>11
  <2> QED
    BY <1>11, <2>1 DEF Fields
<1>12. ASSUME NEW n, /\ p.verb = "354" /\ ~m.starttls /\ files' = Append(files, <<>>) /\ UNCHANGED ring
                     /\ m2 = [m EXCEPT !.data_store_flag = "START", !.mail_body_name = n]
                     /\ n \in {NULL, Len(files) + 1} /\ failed' = TRUE
      PROVE  Fields(c, p, m, m2, k)
  <2>1. /\ SameEnvelope(m, m2) /\ m2.data_store_flag = "START" /\ m2.bdat_seen = m.bdat_seen /\ SameEnd(m, m2)
        /\ ~m2.starttls /\ m2.mail_body_name = n
    BY <1>1, <1>2, <1>12
  <2> QED
    BY <1>12, <2>1 DEF Fields
<1>13. ASSUME /\ p.verb \notin {"354", "221", "5xx"} /\ ~m.starttls /\ m.data_store_flag = "START"
              /\ ~m.bdat_seen /\ ~NoName(m) /\ k = 0
              /\ Files(p, m) \/ (UNCHANGED files /\ failed' = TRUE)
              /\ ring' = IF p.end THEN Append(ring, c) ELSE ring
              /\ \/ /\ p.end /\ m2 = [m EXCEPT !.data_seen = FALSE, !.bdat_seen = FALSE, !.dot_seen = TRUE,
                                               !.data_store_flag = "END"]
                 \/ /\ ~p.end /\ m2 = IF m.dot_seen THEN [m EXCEPT !.data_store_flag = "END"] ELSE m
       PROVE  Fields(c, p, m, m2, k)
  <2>1. CASE p.end
    <3>1. /\ SameEnvelope(m, m2) /\ SameName(m, m2) /\ m2.data_store_flag = "END" /\ ~m2.bdat_seen
          /\ m2.dot_seen /\ m2.result_json = m.result_json /\ ~m2.starttls
      BY <1>1, <1>2, <1>13, <2>1
    <3> QED
      BY <1>2, <1>13, <2>1, <3>1 DEF Fields
  <2>2. CASE ~p.end /\ m.dot_seen
    <3>1. /\ SameEnvelope(m, m2) /\ SameName(m, m2) /\ m2.data_store_flag = "END" /\ ~m2.bdat_seen
          /\ m2.dot_seen /\ m2.result_json = m.result_json /\ ~m2.starttls
      BY <1>1, <1>2, <1>13, <2>2
    <3> QED
      BY <1>2, <1>13, <2>2, <3>1 DEF Fields
  <2>3. CASE ~p.end /\ ~m.dot_seen
    <3>1. m2 = m
      BY <1>13, <2>3
    <3> QED
      BY <1>2, <1>13, <2>3, <3>1 DEF Fields
  <2> QED
    BY <2>1, <2>2, <2>3
<1>14. ASSUME /\ p.verb \notin {"354", "221", "5xx"} /\ ~m.starttls /\ m.data_store_flag = "START"
              /\ m.bdat_seen /\ ~NoName(m) /\ k = 0
              /\ Files(p, m) \/ (UNCHANGED files /\ failed' = TRUE)
              /\ UNCHANGED ring
              /\ \/ m2 = [m EXCEPT !.data_store_flag = "END", !.bdat_read_len = 0, !.bdat_total_len = 0]
                 \/ m2 = [m EXCEPT !.bdat_read_len = @ + 1]
       PROVE  Fields(c, p, m, m2, k)
  <2>1. /\ SameEnvelope(m, m2) /\ SameName(m, m2) /\ m2.bdat_seen /\ SameEnd(m, m2) /\ ~m2.starttls
    BY <1>1, <1>2, <1>14
  <2> QED
    BY <1>14, <2>1 DEF Fields
<1>15. /\ (p.verb = "RCPT" /\ m2 = [m EXCEPT !.rcpt_to = <<NULL>>] => \E r : m2 = [m EXCEPT !.rcpt_to = r])
       /\ m2 = [m EXCEPT !.rcpt_to = Append(@, p.mail)] => m2 = [m EXCEPT !.rcpt_to = WithRcpt(m, p)]
  BY DEF WithRcpt
<1> QED
  BY <1>3, <1>4, <1>5, <1>6, <1>7, <1>8, <1>9, <1>10, <1>11, <1>12, <1>13, <1>14, <1>15 DEF Change, Files

(* What is sent, field by field *)

\* The client says what belongs to the same mail, or sends the next segment of it.
Same(cl, cl2) == cl2.mail = cl.mail /\ cl2.segment = cl.segment
Further(cl, cl2) == cl2.mail = cl.mail /\ cl2.segment = cl.segment + 1

\* What a client says, and what the history notes of it.
Spoken(p, cl, d, cl2, d2) ==
    \/ /\ p.verb = "MAIL" /\ cl.at = "ready" /\ p.mail \in Nat \ {0} /\ ~p.end
       /\ cl2.at = "mail" /\ cl2.mail = p.mail /\ cl2.segment = 0
       /\ d2 = d \cup {IF cl.mail = 0 THEN "mail" ELSE "mails"}
    \/ /\ p.verb = "RCPT" /\ cl.at \in {"mail", "rcpt"} /\ p.mail = cl.mail /\ ~p.end
       /\ cl2.at = "rcpt" /\ Same(cl, cl2) /\ d2 = d
    \/ /\ p.verb = "DATA" /\ cl.at = "rcpt" /\ cl.segment = 0 /\ ~p.end
       /\ cl2.at = "data" /\ Same(cl, cl2) /\ d2 = d
    \/ /\ p.verb = "354" /\ cl.at = "data" /\ ~p.end
       /\ cl2.at = "body" /\ Same(cl, cl2) /\ d2 = d
    \/ /\ p.verb = "segment" /\ cl.at = "body" /\ p.token = <<"segment", cl.mail, cl.segment + 1>>
       /\ p.end = (cl.segment + 1 = Segments) /\ Further(cl, cl2)
       /\ cl2.at = IF p.end THEN "ready" ELSE "body"
       /\ d2 = IF p.end THEN d \cup {"body"} ELSE d
    \/ /\ p.verb = "QUIT" /\ cl.at = "ready" /\ ~p.end /\ cl2.at = "quit" /\ Same(cl, cl2) /\ d2 = d
    \/ /\ p.verb = "221" /\ cl.at = "quit" /\ ~p.end /\ cl2.at = "closed" /\ Same(cl, cl2) /\ d2 = d
    \/ /\ p.verb = "5xx" /\ cl.at = "data" /\ ~p.end
       /\ cl2.at = "ready" /\ Same(cl, cl2) /\ d2 = d \cup {"refused"}
    \/ /\ p.verb = "RSET" /\ cl.at \in {"ready", "mail", "rcpt"} /\ ~p.end
       /\ cl2.at = "ready" /\ Same(cl, cl2) /\ d2 = d \cup {"RSET"}
    \/ /\ p.verb = "STARTTLS" /\ cl.at = "ready" /\ d = {} /\ ~p.end
       /\ cl2.at = "ready" /\ Same(cl, cl2) /\ d2 = d \cup {"STARTTLS"}
    \/ /\ p.verb = "BDAT" /\ cl.at = "rcpt" /\ ~p.end
       /\ cl2.at = "chunk" /\ Same(cl, cl2) /\ d2 = d \cup {"BDAT"}
    \/ /\ p.verb = "BDAT LAST" /\ cl.at = "rcpt" /\ ~p.end
       /\ cl2.at = "last chunk" /\ Same(cl, cl2) /\ d2 = d \cup {"BDAT"}
    \/ /\ p.verb = "chunk" /\ cl.at \in {"chunk", "last chunk"} /\ ~p.end /\ Further(cl, cl2)
       /\ cl2.at \in {"ready", "rcpt", cl.at} /\ (cl2.at = "rcpt" => cl.at = "chunk") /\ d2 = d

\* A client speaks in one of these ways.
LEMMA SpokenIs ==
    ASSUME NEW p, NEW cl \in Clients, NEW d, NEW cl2, NEW d2, Says(p, cl, d, cl2, d2)
    PROVE  Spoken(p, cl, d, cl2, d2)
<1>1. DOMAIN cl = {"at", "mail", "segment", "rcpts"} /\ cl.segment \in Nat
  BY DEF Clients
<1>2. ASSUME NEW a, cl2 = [cl EXCEPT !.at = a] PROVE cl2.at = a /\ Same(cl, cl2)
  BY <1>1, <1>2 DEF Same
<1>3. ASSUME NEW a, cl2 = [cl EXCEPT !.segment = @ + 1, !.at = a] PROVE cl2.at = a /\ Further(cl, cl2)
  BY <1>1, <1>3 DEF Further
<1>4. CASE p.verb = "MAIL"
  <2>1. /\ cl.at = "ready" /\ p.mail \in Nat \ {0} /\ ~p.end
        /\ cl2 = [at |-> "mail", mail |-> p.mail, segment |-> 0, rcpts |-> 0]
        /\ d2 = d \cup {IF cl.mail = 0 THEN "mail" ELSE "mails"}
    BY <1>4 DEF Says
  <2> QED
    BY <1>4, <2>1 DEF Spoken
<1>5. CASE p.verb = "RCPT"
  <2>1. /\ cl.at \in {"mail", "rcpt"} /\ p.mail = cl.mail /\ ~p.end
        /\ cl2 = [cl EXCEPT !.at = "rcpt", !.rcpts = @ + 1] /\ d2 = d
    BY <1>5 DEF Says
  <2>2. cl2.at = "rcpt" /\ Same(cl, cl2)
    BY <1>1, <2>1 DEF Same
  <2> QED
    BY <1>5, <2>1, <2>2 DEF Spoken
<1>6. CASE p.verb = "DATA"
  <2>1. /\ cl.at = "rcpt" /\ cl.segment = 0 /\ ~p.end
        /\ cl2 = [cl EXCEPT !.at = "data"] /\ d2 = d
    BY <1>6 DEF Says
  <2> QED
    BY <1>2, <1>6, <2>1 DEF Spoken
<1>7. CASE p.verb \in {"354", "221", "5xx"}
  <2>1. \E a : cl2 = [cl EXCEPT !.at = a]
    BY <1>7 DEF Says
  <2>2. Same(cl, cl2)
    BY <1>2, <2>1
  <2>3. \/ p.verb = "354" /\ cl.at = "data" /\ ~p.end /\ cl2 = [cl EXCEPT !.at = "body"] /\ d2 = d
        \/ p.verb = "221" /\ cl.at = "quit" /\ ~p.end /\ cl2 = [cl EXCEPT !.at = "closed"] /\ d2 = d
        \/ /\ p.verb = "5xx" /\ cl.at = "data" /\ ~p.end /\ cl2 = [cl EXCEPT !.at = "ready"]
           /\ d2 = d \cup {"refused"}
    BY <1>7 DEF Says
  <2> QED
    BY <1>2, <2>2, <2>3 DEF Spoken
<1>8. CASE p.verb = "segment"
  <2>1. /\ cl.at = "body" /\ p.token = <<"segment", cl.mail, cl.segment + 1>>
        /\ p.end = (cl.segment + 1 = Segments)
        /\ cl2 = [cl EXCEPT !.segment = @ + 1, !.at = IF p.end THEN "ready" ELSE "body"]
        /\ d2 = IF p.end THEN d \cup {"body"} ELSE d
    BY <1>8 DEF Says
  <2> QED
    BY <1>3, <1>8, <2>1 DEF Spoken
<1>9. CASE p.verb \in {"QUIT", "RSET"}
  <2>1. \/ p.verb = "QUIT" /\ cl.at = "ready" /\ ~p.end /\ cl2 = [cl EXCEPT !.at = "quit"] /\ d2 = d
        \/ /\ p.verb = "RSET" /\ cl.at \in {"ready", "mail", "rcpt"} /\ ~p.end
           /\ cl2 = [cl EXCEPT !.at = "ready"] /\ d2 = d \cup {"RSET"}
    BY <1>9 DEF Says
  <2> QED
    BY <1>2, <2>1 DEF Spoken
<1>10. CASE p.verb = "STARTTLS"
  <2>1. cl.at = "ready" /\ d = {} /\ ~p.end /\ cl2 = cl /\ d2 = d \cup {"STARTTLS"}
    BY <1>10 DEF Says
  <2> QED
    BY <1>10, <2>1 DEF Spoken, Same
<1>11. CASE p.verb \in {"BDAT", "BDAT LAST"}
  <2>1. /\ cl.at = "rcpt" /\ ~p.end /\ d2 = d \cup {"BDAT"}
        /\ cl2 = [cl EXCEPT !.at = IF p.verb = "BDAT" THEN "chunk" ELSE "last chunk"]
    BY <1>11 DEF Says
  <2> QED
    BY <1>2, <1>11, <2>1 DEF Spoken
<1>12. CASE p.verb = "chunk"
  <2>1. /\ cl.at \in {"chunk", "last chunk"} /\ ~p.end /\ d2 = d
        /\ \E a \in {"ready", "rcpt", cl.at} :
              cl2 = [cl EXCEPT !.segment = @ + 1, !.at = a] /\ (a = "rcpt" => cl.at = "chunk")
    BY <1>12 DEF Says
  <2> QED
    BY <1>3, <1>12, <2>1 DEF Spoken
<1> QED
  BY <1>4, <1>5, <1>6, <1>7, <1>8, <1>9, <1>10, <1>11, <1>12 DEF Says

\* What a packet does takes no failure back.
LEMMA FailureTurns ==
    ASSUME NEW c \in Keys, NEW p, NEW b, NEW i, NEW m, NEW cl, NEW d, Turn(c, p, b, i, m, cl, d)
    PROVE  failed => failed'
<1>1. \/ Changed(c, p, b, i, m) \/ Unheard(b, i, m, p) \/ Added(b, m, p)
      \/ Reset(b, i, m, p) \/ Closed(b, m, p) \/ Fallen(m, p)
  BY DEF Turn
<1>2. CASE Changed(c, p, b, i, m)
  <2>1. PICK m2 \in Mail, k \in 0..2 : Change(c, m, p, m2, k)
    BY <1>2 DEF Changed
  <2>2. failed' = TRUE \/ failed' = failed
    BY <2>1, ZenonT(60) DEF Change
  <2> QED
    BY <2>2
<1>3. CASE Unheard(b, i, m, p)
  <2>1. failed' = TRUE \/ failed' = failed
    BY <1>3 DEF Unheard
  <2> QED
    BY <2>1
<1>4. CASE Added(b, m, p)
  <2>1. failed' = failed
    BY <1>4 DEF Added
  <2> QED
    BY <2>1
<1>5. CASE Reset(b, i, m, p)
  <2>1. failed' = failed
    BY <1>5 DEF Reset
  <2> QED
    BY <2>1
<1>6. CASE Closed(b, m, p)
  <2>1. failed' = failed
    BY <1>6 DEF Closed
  <2> QED
    BY <2>1
<1>7. CASE Fallen(m, p)
  <2>1. failed' = TRUE \/ failed' = failed
    BY <1>7 DEF Fallen
  <2> QED
    BY <2>1
<1> QED
  BY <1>1, <1>2, <1>3, <1>4, <1>5, <1>6, <1>7

\* What is common to all that a packet can do.
LEMMA TurnIs ==
    ASSUME SessionInv, NEW c \in Keys, NEW p, NEW b, NEW i, NEW m, NEW cl, NEW d, Turn(c, p, b, i, m, cl, d)
    PROVE  /\ b \in DOMAIN chain /\ b \in Buckets /\ table.key[b] = c
           /\ i = Position(b) /\ i \in 1..Len(chain[b]) /\ Len(chain[b]) \in Nat
           /\ chain[b] \in Seq(Mail) /\ m = chain[b][i] /\ m \in Mail /\ ~down
           /\ cl = client[c] /\ cl \in Clients /\ d = did[c] /\ d \in SUBSET Deeds
           /\ Spoken(p, cl, d, client'[c], did'[c]) /\ p.end \in BOOLEAN /\ p.mail \in Nat
           /\ \A k \in Keys : k # c => client'[k] = client[k] /\ did'[k] = did[k]
           /\ \A a \in DOMAIN chain : table.key[a] \in Keys /\ (a # b => table.key[a] # c)
           /\ UNCHANGED <<scene, worker, posted>>
           /\ \A k \in Keys : did[k] \subseteq did'[k]
<1>1. /\ b \in DOMAIN chain /\ b \in Buckets /\ table.key[b] = c
      /\ i = Position(b) /\ i \in 1..Len(chain[b]) /\ chain[b] \in Seq(Mail) /\ m = chain[b][i] /\ m \in Mail /\ ~down
      /\ cl = client[c] /\ d = did[c] /\ Says(p, cl, d, client'[c], did'[c]) /\ p.end \in BOOLEAN /\ p.mail \in Nat
      /\ \A k \in Keys : k # c => client'[k] = client[k] /\ did'[k] = did[k]
      /\ \A a \in DOMAIN chain : table.key[a] \in Keys /\ (a # b => table.key[a] # c)
      /\ UNCHANGED <<scene, worker, posted>>
  BY DEF Turn
<1>2. cl \in Clients /\ d \in SUBSET Deeds
  BY <1>1 DEF SessionInv
<1>3. Spoken(p, cl, d, client'[c], did'[c])
  BY <1>1, <1>2, SpokenIs
<1>4. did[c] \subseteq did'[c]
  BY <1>1, <1>3 DEF Spoken
<1>5. Len(chain[b]) \in Nat
  BY <1>1
<1> QED
  BY <1>1, <1>2, <1>3, <1>4, <1>5

\* A change of the mail a packet reaches.
LEMMA ChangedIs ==
    ASSUME SessionInv, NEW c \in Keys, NEW p, NEW b, NEW i, NEW m \in Mail, Changed(c, p, b, i, m), p.end \in BOOLEAN
    PROVE  \E m2 \in Mail, k \in 0..2 :
              /\ Fields(c, p, m, m2, k) /\ Only(b) /\ Len(chain'[b]) = Len(chain[b]) /\ chain'[b][i] = m2
              /\ \A j \in 1..Len(chain[b]) : j # i => chain'[b][j] = chain[b][j]
              /\ chain'[b] = [chain[b] EXCEPT ![i] = m2] /\ Allocated(b, k) /\ UNCHANGED down
<1>1. PICK m2 \in Mail, k \in 0..2 :
          /\ Change(c, m, p, m2, k) /\ Only(b) /\ Len(chain'[b]) = Len(chain[b]) /\ chain'[b][i] = m2
          /\ \A j \in 1..Len(chain[b]) : j # i => chain'[b][j] = chain[b][j]
          /\ chain'[b] = [chain[b] EXCEPT ![i] = m2] /\ Allocated(b, k) /\ UNCHANGED down
  BY DEF Changed
<1>2. Fields(c, p, m, m2, k)
  BY <1>1, FieldsAre
<1> QED
  BY <1>1, <1>2

-----------------------------------------------------------------------------
(* A file holds one mail, in order *)

\* A segment is appended to one file and to no other.
LEMMA FileAppended ==
    ASSUME SessionInv, NEW n \in 1..Len(files), NEW t \in Tokens, files' = [files EXCEPT ![n] = Append(@, t)]
    PROVE  /\ Len(files') = Len(files) /\ Len(files[n]) \in Nat
           /\ \A f \in 1..Len(files) : f # n => files'[f] = files[f]
           /\ Len(files'[n]) = Len(files[n]) + 1 /\ files'[n][Len(files[n]) + 1] = t
           /\ \A x \in 1..Len(files[n]) : files'[n][x] = files[n][x]
<1>1. files \in Seq(Seq(Tokens)) /\ Len(files) \in Nat
  BY FilesLong
<1>2. PICK f : f = files[n] /\ f \in Seq(Tokens)
  BY <1>1
<1>3. /\ Len(Append(f, t)) = Len(f) + 1 /\ Append(f, t)[Len(f) + 1] = t /\ Len(f) \in Nat
      /\ \A x \in 1..Len(f) : Append(f, t)[x] = f[x]
  BY <1>2
<1>4. files'[n] = Append(f, t) /\ Len(files') = Len(files)
  BY <1>1, <1>2
<1> QED
  BY <1>1, <1>2, <1>3, <1>4

\* A new file is empty, and the others stay as they are.
LEMMA FileAdded ==
    ASSUME SessionInv, files' = Append(files, <<>>)
    PROVE  /\ Len(files') = Len(files) + 1 /\ files'[Len(files) + 1] = <<>> /\ Len(files) \in Nat
           /\ \A f \in 1..Len(files) : files'[f] = files[f]
<1>1. files \in Seq(Seq(Tokens)) /\ Len(files) \in Nat
  BY FilesLong
<1>2. <<>> \in Seq(Tokens)
  OBVIOUS
<1> QED
  BY <1>1, <1>2

\* The name of a mail is the number of a file.
LEMMA NameIs ==
    ASSUME SessionInv, NamesApart, NEW b \in DOMAIN chain, NEW i \in 1..Len(chain[b])
    PROVE  /\ chain[b][i].mail_body_name \in Nat /\ chain[b][i].mail_body_name <= Len(files)
           /\ chain[b][i].mail_body_name # NULL => chain[b][i].mail_body_name \in 1..Len(files)
<1>1. chain[b][i] \in Mail /\ Len(files) \in Nat
  BY MailsAre, FilesLong
<1>2. chain[b][i].mail_body_name \in Nat /\ chain[b][i].mail_body_name <= Len(files)
  BY <1>1 DEF Mail, NamesApart
<1> QED
  BY <1>1, <1>2 DEF NULL

\* No client uses BDAT.
NoChunks == \A c \in Keys : "BDAT" \notin did[c]

\* A file holds segments of one mail, in the order they were sent.
InOrder(f) == \A x \in 1..Len(f) :
    f[x][1] = "segment" /\ f[x][2] = f[1][2] /\ (x > 1 => f[x][3] > f[x - 1][3])

\* The file holds nothing that its client has not sent.
Behind(f, cl) == \A x \in 1..Len(f) : f[x][2] = cl.mail /\ f[x][3] <= cl.segment

\* Mail i of bucket b is being stored.
Storing(b, i) ==
    /\ i = Position(b) /\ ~chain[b][i].starttls /\ client[table.key[b]].at = "body"
    /\ chain[b][i].mail_body_name # NULL
          => Behind(files[chain[b][i].mail_body_name], client[table.key[b]])

\* A mail that is being stored has the file of the mail its client is sending.
StoringIn(b) == \A i \in 1..Len(chain[b]) :
    /\ ~chain[b][i].bdat_seen
    /\ ~down /\ chain[b][i].data_store_flag = "START" => Storing(b, i)

\* Every file is one mail, in order, while no client uses BDAT.
FilesInv == NoChunks =>
    /\ \A f \in 1..Len(files) : InOrder(files[f])
    /\ \A c \in Keys : client[c].at \notin {"chunk", "last chunk"}
    /\ \A b \in DOMAIN chain : StoringIn(b)

\* A session that a step leaves alone.
LEMMA StoringKept ==
    ASSUME SessionInv, NamesApart, NoChunks, FilesInv, NEW a \in DOMAIN chain, chain'[a] = chain[a],
           table'.key[a] = table.key[a], client'[table.key[a]] = client[table.key[a]], scene' = scene,
           ~down' => ~down,
           \A i \in 1..Len(chain[a]) :
              chain[a][i].mail_body_name # NULL
                 => files'[chain[a][i].mail_body_name] = files[chain[a][i].mail_body_name]
    PROVE  StoringIn(a)'
<1>1. SUFFICES ASSUME NEW i \in 1..Len(chain[a])
               PROVE  /\ ~chain'[a][i].bdat_seen
                      /\ ~down' /\ chain'[a][i].data_store_flag = "START" => Storing(a, i)'
  BY DEF StoringIn
<1>2. /\ ~chain[a][i].bdat_seen
      /\ ~down /\ chain[a][i].data_store_flag = "START" => Storing(a, i)
  BY DEF FilesInv, StoringIn
<1> QED
  BY <1>2 DEF Storing, Position

\* A session of which no mail is being stored.
LEMMA NotStoring ==
    ASSUME NEW b, \A i \in 1..Len(chain'[b]) : ~chain'[b][i].bdat_seen /\ chain'[b][i].data_store_flag # "START"
    PROVE  StoringIn(b)'
BY DEF StoringIn

\* A client that goes on stays ahead of the file.
LEMMA BehindMore ==
    ASSUME NEW f \in Seq(Tokens), NEW cl \in Clients, NEW cl2, Further(cl, cl2), Behind(f, cl), cl.segment \in Nat
    PROVE  Behind(f, cl2)
<1>1. \A x \in 1..Len(f) : f[x] \in Tokens
  OBVIOUS
<1>2. \A x \in 1..Len(f) : f[x][3] \in Nat
  BY <1>1 DEF Tokens
<1> QED
  BY <1>2 DEF Behind, Further

\* A segment is appended to the mail's file.
LEMMA SegmentStored ==
    ASSUME SessionInv, NamesApart, NoChunks, FilesInv, ~down, NEW b \in DOMAIN chain, NEW i \in 1..Len(chain[b]),
           chain[b][i].data_store_flag = "START", chain[b][i].mail_body_name # NULL,
           NEW cl \in Clients, cl = client[table.key[b]], NEW cl2, Further(cl, cl2),
           files' = [files EXCEPT ![chain[b][i].mail_body_name] = Append(@, <<"segment", cl.mail, cl.segment + 1>>)]
    PROVE  /\ \A f \in 1..Len(files') : InOrder(files'[f])
           /\ \A f \in 1..Len(files) : f # chain[b][i].mail_body_name => files'[f] = files[f]
           /\ Behind(files'[chain[b][i].mail_body_name], cl2)
<1>1. PICK n, t : n = chain[b][i].mail_body_name /\ t = <<"segment", cl.mail, cl.segment + 1>>
  OBVIOUS
<1>2. n \in 1..Len(files) /\ cl.segment \in Nat /\ cl.mail \in Nat /\ t \in Tokens
  <2>1. cl.segment \in Nat /\ cl.mail \in Nat
    BY DEF SessionInv, Clients, SceneType
  <2>2. t \in Tokens
    <3>1. "segment" \in ClientVerbs \cup ServerVerbs /\ cl.segment + 1 \in Nat
      BY <2>1 DEF ClientVerbs
    <3> QED
      BY <1>1, <2>1, <3>1, TokenIs
  <2> QED
    BY <1>1, <2>1, <2>2, NameIs
<1>3. /\ Len(files') = Len(files) /\ Len(files[n]) \in Nat
      /\ \A f \in 1..Len(files) : f # n => files'[f] = files[f]
      /\ Len(files'[n]) = Len(files[n]) + 1 /\ files'[n][Len(files[n]) + 1] = t
      /\ \A x \in 1..Len(files[n]) : files'[n][x] = files[n][x]
  BY <1>1, <1>2, FileAppended, ZenonT(60)
<1>4. InOrder(files[n]) /\ Behind(files[n], cl)
  BY <1>1, <1>2 DEF FilesInv, StoringIn, Storing
<1>5. PICK L \in Nat : L = Len(files[n])
  BY <1>3
<1>6. /\ t[1] = "segment" /\ t[2] = cl.mail /\ t[3] = cl.segment + 1
  BY <1>1
<1>7. files \in Seq(Seq(Tokens))
  BY FilesLong
<1>8. files[n] \in Seq(Tokens)
  BY <1>2, <1>7
<1>9. \A x \in 1..L : files[n][x] \in Tokens
  BY <1>5, <1>8
<1>10. \A x \in 1..L : files[n][x][3] \in Nat
  BY <1>9 DEF Tokens
<1>11. InOrder(files'[n])
  <2>1. SUFFICES ASSUME NEW x \in 1..(L + 1)
                 PROVE  /\ files'[n][x][1] = "segment" /\ files'[n][x][2] = files'[n][1][2]
                        /\ x > 1 => files'[n][x][3] > files'[n][x - 1][3]
    BY <1>3, <1>5 DEF InOrder
  <2>2. CASE x \in 1..L
    <3>1. 1 \in 1..L /\ (x > 1 => x - 1 \in 1..L)
      BY <2>2
    <3> QED
      BY <1>3, <1>4, <1>5, <2>2, <3>1 DEF InOrder
  <2>3. CASE x = L + 1
    <3>1. CASE L = 0
      <4>1. x = 1 /\ ~(x > 1) /\ L + 1 = 1
        BY <2>3, <3>1
      <4>2. files'[n][1] = t
        BY <1>3, <1>5, <4>1
      <4> QED
        BY <1>6, <4>1, <4>2, ZenonT(60)
    <3>2. CASE L # 0
      <4>1. 1 \in 1..L /\ L \in 1..L /\ x - 1 = L
        BY <2>3, <3>2
      <4>2. files[n][1][2] = cl.mail /\ files[n][L][3] <= cl.segment
        BY <1>4, <1>5, <4>1 DEF Behind
      <4>3. /\ files'[n][x] = t /\ files'[n][1] = files[n][1] /\ files'[n][x - 1] = files[n][L]
        BY <1>3, <1>5, <2>3, <4>1
      <4>4. files[n][L][3] \in Nat
        BY <1>10, <4>1
      <4>5. /\ files'[n][x][1] = "segment" /\ files'[n][x][2] = cl.mail /\ files'[n][x][3] = cl.segment + 1
            /\ files'[n][1][2] = cl.mail /\ files'[n][x - 1][3] = files[n][L][3]
        BY <1>6, <4>2, <4>3
      <4>6. PICK u, v \in Nat : u = files[n][L][3] /\ v = cl.segment
        BY <1>2, <4>4
      <4>7. u <= v /\ v + 1 > u
        BY <4>2, <4>6, SMTT(60)
      <4> QED
        BY <4>5, <4>6, <4>7
    <3> QED
      BY <3>1, <3>2
  <2>4. x \in 1..L \/ x = L + 1
    BY <1>5
  <2> QED
    BY <2>2, <2>3, <2>4
<1>12. Behind(files'[n], cl2)
  <2>2. cl2.mail = cl.mail /\ cl2.segment = cl.segment + 1
    BY DEF Further
  <2>3. ASSUME NEW x \in 1..(L + 1) PROVE files'[n][x][2] = cl2.mail /\ files'[n][x][3] <= cl2.segment
    <3>1. CASE x \in 1..L
      <4>1. files'[n][x] = files[n][x] /\ files[n][x][2] = cl.mail /\ files[n][x][3] <= cl.segment
        BY <1>3, <1>4, <1>5, <3>1 DEF Behind
      <4>2. files[n][x][3] \in Nat
        BY <1>10, <3>1
      <4>3. PICK u, v \in Nat : u = files[n][x][3] /\ v = cl.segment
        BY <1>2, <4>2
      <4>4. u <= v + 1
        BY <4>1, <4>3, SMTT(60)
      <4> QED
        BY <2>2, <4>1, <4>3, <4>4
    <3>2. CASE x = L + 1
      <4>1. files'[n][x] = t
        BY <1>3, <1>5, <3>2
      <4>2. files'[n][x][2] = cl.mail /\ files'[n][x][3] = cl.segment + 1 /\ cl.segment \in Nat
        BY <1>2, <1>6, <4>1
      <4>3. PICK v \in Nat : v = cl.segment
        BY <4>2
      <4>4. v + 1 <= v + 1
        OBVIOUS
      <4> QED
        BY <2>2, <4>2, <4>3, <4>4
    <3>3. x \in 1..L \/ x = L + 1
      BY <1>5
    <3> QED
      BY <3>1, <3>2, <3>3
  <2> QED
    BY <1>3, <1>5, <2>3 DEF Behind
<1> QED
  BY <1>1, <1>3, <1>11, <1>12 DEF FilesInv

\* Every packet keeps the files one mail each.
LEMMA FilesTurn ==
    ASSUME SessionInv, NamesApart, FilesInv, NEW c \in Keys, NEW p, NEW b, NEW i, NEW m, NEW cl, NEW d,
           Turn(c, p, b, i, m, cl, d)
    PROVE  FilesInv'
<1> SUFFICES ASSUME NoChunks' PROVE FilesInv'
  BY DEF FilesInv
<1>1. /\ b \in DOMAIN chain /\ b \in Buckets /\ table.key[b] = c /\ i = Position(b) /\ i \in 1..Len(chain[b])
      /\ chain[b] \in Seq(Mail) /\ m = chain[b][i] /\ m \in Mail /\ ~down
      /\ cl = client[c] /\ cl \in Clients /\ Spoken(p, cl, d, client'[c], did'[c]) /\ p.end \in BOOLEAN
      /\ \A k \in Keys : k # c => client'[k] = client[k] /\ did'[k] = did[k]
      /\ \A a \in DOMAIN chain : table.key[a] \in Keys /\ (a # b => table.key[a] # c)
      /\ UNCHANGED scene /\ \A k \in Keys : did[k] \subseteq did'[k]
  BY TurnIs
<1>2. NoChunks /\ p.verb \notin {"BDAT", "BDAT LAST"}
  BY <1>1 DEF NoChunks, Spoken
<1>3. /\ \A f \in 1..Len(files) : InOrder(files[f])
      /\ \A k \in Keys : client[k].at \notin {"chunk", "last chunk"}
      /\ \A a \in DOMAIN chain : StoringIn(a)
  BY <1>2 DEF FilesInv
<1>5. /\ client'[c].at \notin {"chunk", "last chunk"}
      /\ p.verb # "chunk" /\ (p.verb = "354" => client'[c].at = "body" /\ cl.at = "data")
  BY <1>1, <1>2, <1>3 DEF Spoken
<1>6. m.data_store_flag = "START" => cl.at = "body" /\ ~m.starttls /\ p.verb = "segment"
  <2>1. m.data_store_flag = "START" => cl.at = "body" /\ ~m.starttls
    BY <1>1, <1>3 DEF StoringIn, Storing
  <2> QED
    BY <1>1, <2>1 DEF Spoken
<1>17. b \in DOMAIN chain /\ i \in 1..Len(chain[b]) /\ Len(chain[b]) \in Nat /\ m = chain[b][i] /\ m \in Mail
  BY TurnIs
<1>7. \A j \in 1..Len(chain[b]) : /\ ~chain[b][j].bdat_seen
                                  /\ j # i => chain[b][j].data_store_flag # "START"
  BY <1>1, <1>3 DEF StoringIn, Storing
<1>8. SUFFICES /\ \A f \in 1..Len(files') : InOrder(files'[f])
               /\ \A a \in DOMAIN chain' : StoringIn(a)'
  BY <1>1, <1>3, <1>5 DEF FilesInv
\* Nothing is being stored for the connection.
<1>9. ASSUME UNCHANGED files, DOMAIN chain' \subseteq DOMAIN chain,
             \A a \in DOMAIN chain' : a # b => chain'[a] = chain[a] /\ table'.key[a] = table.key[a],
             \/ b \notin DOMAIN chain'
             \/ \A j \in 1..Len(chain'[b]) : ~chain'[b][j].bdat_seen /\ chain'[b][j].data_store_flag # "START"
      PROVE  /\ \A f \in 1..Len(files') : InOrder(files'[f])
             /\ \A a \in DOMAIN chain' : StoringIn(a)'
  <2>1. ASSUME NEW a \in DOMAIN chain', a # b PROVE StoringIn(a)'
    <3>1. /\ a \in DOMAIN chain /\ chain'[a] = chain[a] /\ table'.key[a] = table.key[a]
          /\ client'[table.key[a]] = client[table.key[a]]
      BY <1>1, <1>9, <2>1
    <3> QED
      BY <1>1, <1>2, <1>9, <3>1, StoringKept
  <2>2. b \in DOMAIN chain' => StoringIn(b)'
    BY <1>9, NotStoring
  <2>3. \A f \in 1..Len(files') : InOrder(files'[f])
    BY <1>3, <1>9
  <2>4. \A a \in DOMAIN chain' : StoringIn(a)'
    BY <2>1, <2>2
  <2> QED
    BY <2>3, <2>4
<1>10. ASSUME Only(b), NEW m2, UNCHANGED files, Len(chain'[b]) = Len(chain[b]), chain'[b][i] = m2,
              \A j \in 1..Len(chain[b]) : j # i => chain'[b][j] = chain[b][j],
              ~m2.bdat_seen, m2.data_store_flag # "START"
       PROVE  /\ \A f \in 1..Len(files') : InOrder(files'[f])
              /\ \A a \in DOMAIN chain' : StoringIn(a)'
  <2>1. \A j \in 1..Len(chain'[b]) : ~chain'[b][j].bdat_seen /\ chain'[b][j].data_store_flag # "START"
    BY <1>7, <1>10, <1>17
  <2> QED
    BY <1>9, <1>10, <2>1 DEF Only
<1>11. CASE Changed(c, p, b, i, m)
  <2>1. PICK m2 \in Mail, k \in 0..2 :
          /\ Fields(c, p, m, m2, k) /\ Only(b) /\ Len(chain'[b]) = Len(chain[b]) /\ chain'[b][i] = m2
          /\ \A j \in 1..Len(chain[b]) : j # i => chain'[b][j] = chain[b][j]
          /\ UNCHANGED down
    <3>1. m \in Mail /\ p.end \in BOOLEAN /\ Changed(c, p, b, i, m)
      BY <1>1, <1>11
    <3>2. \E m2 \in Mail, k \in 0..2 :
            /\ Fields(c, p, m, m2, k) /\ Only(b) /\ Len(chain'[b]) = Len(chain[b]) /\ chain'[b][i] = m2
            /\ \A j \in 1..Len(chain[b]) : j # i => chain'[b][j] = chain[b][j]
            /\ chain'[b] = [chain[b] EXCEPT ![i] = m2] /\ Allocated(b, k) /\ UNCHANGED down
      BY <3>1, ChangedIs
    <3> QED
      BY <3>2
  <2>2. ~m.bdat_seen
    BY <1>7, <1>17
  <2>3. table' = table /\ DOMAIN chain' = DOMAIN chain /\ Position(b)' = Position(b)
    BY <1>1, <2>1 DEF Only, Position
  <2>4. ASSUME \A f \in 1..Len(files) : f # m.mail_body_name => files'[f] = files[f], NEW a \in DOMAIN chain, a # b,
               m.data_store_flag = "START" \/ \A f \in 1..Len(files) : files'[f] = files[f]
        PROVE  StoringIn(a)'
    <3>1. /\ chain'[a] = chain[a] /\ table'.key[a] = table.key[a]
          /\ client'[table.key[a]] = client[table.key[a]]
      BY <1>1, <2>1, <2>3, <2>4 DEF Only
    <3>2. ASSUME NEW j \in 1..Len(chain[a]), chain[a][j].mail_body_name # NULL
          PROVE  files'[chain[a][j].mail_body_name] = files[chain[a][j].mail_body_name]
      <4>1. chain[a][j].mail_body_name \in 1..Len(files)
        BY <3>2, NameIs
      <4>2. chain[a][j].mail_body_name # m.mail_body_name
        BY <1>1, <2>4, <3>2 DEF NamesApart
      <4> QED
        BY <2>4, <4>1, <4>2
    <3> QED
      BY <1>1, <1>2, <2>1, <3>1, <3>2, StoringKept
  <2>5. ASSUME ~m2.bdat_seen, m2.data_store_flag = "START" => Storing(b, i)' PROVE StoringIn(b)'
    BY <1>7, <1>17, <2>1, <2>5 DEF StoringIn
  <2>6. CASE p.verb = "354"
    <3>1. /\ files' = Append(files, <<>>) /\ m2.mail_body_name \in {NULL, Len(files) + 1}
          /\ ~m2.starttls /\ ~m2.bdat_seen
      BY <2>1, <2>2, <2>6 DEF Fields
    <3>2. /\ Len(files') = Len(files) + 1 /\ files'[Len(files) + 1] = <<>> /\ Len(files) \in Nat
          /\ \A f \in 1..Len(files) : files'[f] = files[f]
      BY <3>1, FileAdded
    <3>3. InOrder(<<>>) /\ Behind(<<>>, client'[c])
      BY DEF InOrder, Behind
    <3>4. \A f \in 1..Len(files') : InOrder(files'[f])
      <4>1. SUFFICES ASSUME NEW f \in 1..(Len(files) + 1) PROVE InOrder(files'[f])
        BY <3>2
      <4>2. CASE f \in 1..Len(files)
        BY <1>3, <3>2, <4>2
      <4>3. CASE f = Len(files) + 1
        BY <3>2, <3>3, <4>3
      <4> QED
        BY <3>2, <4>2, <4>3
    <3>5. Storing(b, i)'
      BY <1>1, <1>5, <2>1, <2>3, <2>6, <3>1, <3>2, <3>3 DEF Storing
    <3> QED
      BY <2>3, <2>4, <2>5, <3>1, <3>2, <3>4, <3>5
  <2>7. CASE m.data_store_flag = "START"
    <3>1. /\ p.verb = "segment" /\ cl.at = "body" /\ p.token = <<"segment", cl.mail, cl.segment + 1>>
          /\ Further(cl, client'[c]) /\ client'[c].at = IF p.end THEN "ready" ELSE "body"
      BY <1>1, <1>6, <2>7 DEF Spoken
    <3>2. /\ ~m2.bdat_seen /\ ~m2.starttls /\ ~NoName(m) /\ SameName(m, m2) /\ (p.end => m2.data_store_flag = "END")
          /\ Files(p, m) \/ UNCHANGED files
      BY <2>1, <2>2, <2>7, <3>1 DEF Fields
    <3>3. m.mail_body_name # NULL /\ m.mail_body_name \in 1..Len(files) /\ m2.mail_body_name = m.mail_body_name
      BY <1>1, <3>2, NameIs DEF NoName, SameName
    <3>4. /\ \A f \in 1..Len(files') : InOrder(files'[f])
          /\ \A f \in 1..Len(files) : f # m.mail_body_name => files'[f] = files[f]
          /\ Behind(files'[m.mail_body_name], client'[c])
      <4>1. CASE Files(p, m)
        BY <1>1, <1>2, <2>7, <3>1, <3>3, <4>1, SegmentStored DEF Files
      <4>2. CASE UNCHANGED files
        <5>1. Behind(files[m.mail_body_name], cl)
          BY <1>1, <1>3, <2>7, <3>3 DEF StoringIn, Storing
        <5>2. files[m.mail_body_name] \in Seq(Tokens) /\ cl.segment \in Nat
          BY <1>1, <3>3, FilesLong DEF Clients
        <5> QED
          BY <1>1, <1>3, <3>1, <4>2, <5>1, <5>2, BehindMore
      <4> QED
        BY <3>2, <4>1, <4>2
    <3>5. m2.data_store_flag = "START" => Storing(b, i)'
      BY <1>1, <2>1, <2>3, <3>1, <3>2, <3>3, <3>4 DEF Storing
    <3> QED
      BY <2>3, <2>4, <2>5, <2>7, <3>2, <3>4, <3>5
  <2>8. CASE m.data_store_flag # "START" /\ p.verb # "354"
    <3>1. UNCHANGED files /\ ~m2.bdat_seen /\ m2.data_store_flag # "START"
      BY <1>2, <2>1, <2>2, <2>8 DEF Fields, SameFlags
    <3> QED
      BY <1>10, <2>1, <3>1
  <2> QED
    BY <2>6, <2>7, <2>8
<1>12. CASE Unheard(b, i, m, p)
  <2>1. Ignored(b, i, m, p) /\ UNCHANGED <<table, chain, files, down>>
    BY <1>12 DEF Unheard
  <2>2. m.data_store_flag # "START"
    BY <1>6, <2>1 DEF Ignored
  <2> QED
    <3>1. \A j \in 1..Len(chain'[b]) : ~chain'[b][j].bdat_seen /\ chain'[b][j].data_store_flag # "START"
      BY <1>7, <1>17, <2>1, <2>2
    <3> QED
      BY <1>9, <2>1, <3>1
<1>13. CASE Added(b, m, p)
  <2>1. PICK m2 \in Mail : /\ m2 = [NewMail EXCEPT !.mail_from = p.mail] /\ Only(b) /\ m.data_store_flag # "START"
                           /\ Len(chain'[b]) = Len(chain[b]) + 1 /\ chain'[b][Len(chain[b]) + 1] = m2
                           /\ \A j \in 1..Len(chain[b]) : chain'[b][j] = chain[b][j] /\ UNCHANGED files
    BY <1>13 DEF Added
  <2>2. ~m2.bdat_seen /\ m2.data_store_flag # "START" /\ UNCHANGED files
    BY <1>13, <2>1 DEF NewMail, Added
  <2>3. \A j \in 1..Len(chain'[b]) : ~chain'[b][j].bdat_seen /\ chain'[b][j].data_store_flag # "START"
    <3>1. SUFFICES ASSUME NEW j \in 1..(Len(chain[b]) + 1)
                   PROVE  ~chain'[b][j].bdat_seen /\ chain'[b][j].data_store_flag # "START"
      BY <2>1
    <3>2. CASE j \in 1..Len(chain[b])
      <4>1. chain'[b][j] = chain[b][j]
        BY <2>1, <3>2
      <4>2. ~chain[b][j].bdat_seen /\ chain[b][j].data_store_flag # "START"
        BY <1>7, <1>17, <2>1, <3>2
      <4> QED
        BY <4>1, <4>2
    <3>3. CASE j = Len(chain[b]) + 1
      BY <2>1, <2>2, <3>3
    <3> QED
      BY <1>17, <3>2, <3>3
  <2> QED
    BY <1>9, <2>1, <2>2, <2>3 DEF Only
<1>14. CASE Reset(b, i, m, p)
  <2>1. ~NewMail.bdat_seen /\ NewMail.data_store_flag # "START"
    BY DEF NewMail
  <2>2. \A j \in 1..Len(chain'[b]) : ~chain'[b][j].bdat_seen /\ chain'[b][j].data_store_flag # "START"
    BY <1>7, <1>14, <1>17, <2>1 DEF Reset
  <2> QED
    BY <1>9, <1>14, <2>2 DEF Only, Reset
<1>15. CASE Closed(b, m, p)
  BY <1>9, <1>15 DEF Closed, Left
<1>16. CASE Fallen(m, p)
  <2>1. down' /\ UNCHANGED <<table, chain, files>>
    BY <1>16 DEF Fallen
  <2>2. ASSUME NEW a \in DOMAIN chain' PROVE StoringIn(a)'
    BY <1>3, <2>1, <2>2 DEF StoringIn
  <2> QED
    BY <1>3, <2>1, <2>2
<1> QED
  BY <1>11, <1>12, <1>13, <1>14, <1>15, <1>16 DEF Turn

\* So does a new connection.
LEMMA FilesCome ==
    ASSUME SessionInv, NamesApart, FilesInv, NEW c \in Keys, NEW b, Came(c, b) PROVE FilesInv'
<1> SUFFICES ASSUME NoChunks' PROVE FilesInv'
  BY DEF FilesInv
<1>1. NoChunks
  <2>1. \A k \in Keys : did[k] \subseteq did'[k]
    BY DEF Came, Did, SessionInv
  <2> QED
    BY <2>1 DEF NoChunks
<1>2. /\ \A f \in 1..Len(files) : InOrder(files[f])
      /\ \A k \in Keys : client[k].at \notin {"chunk", "last chunk"}
  BY <1>1 DEF FilesInv
<1>3. ASSUME NEW a \in DOMAIN chain' PROVE StoringIn(a)'
  <2>1. CASE a = b
    <3>1. chain'[a] = <<NewMail>>
      BY <2>1 DEF Came
    <3>2. \A i \in 1..Len(chain'[a]) : chain'[a][i] = NewMail
      BY <3>1
    <3> QED
      BY <3>2, NotStoring DEF NewMail
  <2>2. CASE a # b
    BY <1>1, <1>3, <2>2, StoringKept DEF Came
  <2> QED
    BY <2>1, <2>2
<1> QED
  BY <1>2, <1>3 DEF FilesInv, Came

\* What no step of a worker changes.
LEMMA WorkLeaves ==
    ASSUME SessionInv, Enough, NEW w \in Workers, Work(w)
    PROVE  /\ UNCHANGED <<files, client, scene>> /\ ~down
           /\ \A k \in Keys : did[k] \subseteq did'[k]
<1>1. CASE (\E b : Taken(w, b)) \/ Missed(w) \/ GivenUp(w) \/ Posted(w)
  BY <1>1 DEF Taken, Missed, GivenUp, Posted
<1>4. CASE \E b, i, m : Parsed(w, b, i, m)
  BY <1>4, ParsedSays
<1>2. CASE WorkerFallen(w)
  <2>1. ~down
    BY DEF Work, Take, UseFreed, Parse, Extract, Release
  <2> QED
    BY <1>2, <2>1 DEF WorkerFallen
<1>3. ASSUME NEW b, Released(w, b)
      PROVE  UNCHANGED <<files, client, scene>> /\ ~down /\ \A k \in Keys : did[k] \subseteq did'[k]
  <2>1. \A k \in Keys : did[k] \subseteq did'[k]
    <3>1. CASE UNCHANGED did
      BY <3>1
    <3>2. CASE Did(table.key[b], "shared")
      <4>1. did' = [did EXCEPT ![table.key[b]] = did[table.key[b]] \cup {"shared"}] /\ did \in [Keys -> SUBSET Deeds]
        BY <3>2, DidIs DEF SessionInv
      <4> QED
        BY <4>1
    <3> QED
      BY <1>3, <3>1, <3>2 DEF Released
  <2> QED
    BY <1>3, <2>1 DEF Released
<1> QED
  BY <1>1, <1>2, <1>3, <1>4, Works

\* So does a worker.
LEMMA FilesWork ==
    ASSUME SessionInv, Enough, NamesApart, FilesInv, NEW w \in Workers, Work(w) PROVE FilesInv'
<1> SUFFICES ASSUME NoChunks' PROVE FilesInv'
  BY DEF FilesInv
<1>1. NoChunks
  <2>1. \A k \in Keys : did[k] \subseteq did'[k]
    BY WorkLeaves
  <2> QED
    BY <2>1 DEF NoChunks
<1>2. /\ \A f \in 1..Len(files) : InOrder(files[f])
      /\ \A k \in Keys : client[k].at \notin {"chunk", "last chunk"}
      /\ \A a \in DOMAIN chain : StoringIn(a)
  BY <1>1 DEF FilesInv
<1>3. UNCHANGED <<files, client, scene>> /\ (~down' => ~down)
  BY WorkLeaves
<1>4. SUFFICES \A a \in DOMAIN chain' : StoringIn(a)'
  BY <1>2, <1>3 DEF FilesInv
<1>5. ASSUME NEW a \in DOMAIN chain, chain'[a] = chain[a], table'.key[a] = table.key[a] PROVE StoringIn(a)'
  BY <1>1, <1>3, <1>5, StoringKept
<1>6. CASE (\E b : Taken(w, b)) \/ Missed(w) \/ WorkerFallen(w) \/ GivenUp(w) \/ Posted(w)
  <2>1. UNCHANGED <<chain, table>>
    BY <1>6 DEF Taken, Missed, WorkerFallen, GivenUp, Posted
  <2> QED
    BY <1>5, <2>1
<1>7. ASSUME NEW b, NEW i, NEW m, Parsed(w, b, i, m) PROVE \A a \in DOMAIN chain' : StoringIn(a)'
  <2>1. PICK m2 \in Mail :
           /\ b \in DOMAIN chain /\ i \in 1..Len(chain[b]) /\ m = chain[b][i] /\ m \in Mail
           /\ m2 = [m EXCEPT !.result_json = TRUE] /\ Only(b) /\ Len(chain'[b]) = Len(chain[b]) /\ chain'[b][i] = m2
           /\ \A j \in 1..Len(chain[b]) : j # i => chain'[b][j] = chain[b][j]
           /\ UNCHANGED files
    BY <1>7 DEF Parsed
  <2>2. /\ m2.mail_body_name = m.mail_body_name /\ m2.starttls = m.starttls /\ m2.bdat_seen = m.bdat_seen
        /\ m2.data_store_flag = m.data_store_flag
    BY <2>1 DEF Mail
  <2>3. StoringIn(b)'
    <3>1. UNCHANGED <<table, down>>
      BY <1>7 DEF Parsed, Only
    <3>2. Position(b)' = Position(b)
      BY <1>3, <2>1 DEF Position
    <3>3. ASSUME NEW j \in 1..Len(chain[b])
          PROVE  /\ ~chain'[b][j].bdat_seen
                 /\ ~down' /\ chain'[b][j].data_store_flag = "START" => Storing(b, j)'
      <4>1. /\ ~chain[b][j].bdat_seen
            /\ ~down /\ chain[b][j].data_store_flag = "START" => Storing(b, j)
        BY <1>2, <2>1 DEF StoringIn
      <4>2. /\ chain'[b][j].mail_body_name = chain[b][j].mail_body_name
            /\ chain'[b][j].starttls = chain[b][j].starttls /\ chain'[b][j].bdat_seen = chain[b][j].bdat_seen
            /\ chain'[b][j].data_store_flag = chain[b][j].data_store_flag
        BY <2>1, <2>2
      <4> QED
        BY <1>3, <3>1, <3>2, <4>1, <4>2 DEF Storing
    <3> QED
      BY <2>1, <3>3 DEF StoringIn
  <2> QED
    BY <1>5, <2>1, <2>3 DEF Only
<1>8. ASSUME NEW b, Released(w, b) PROVE \A a \in DOMAIN chain' : StoringIn(a)'
  BY <1>5, <1>8 DEF Released, Left
<1> QED
  BY <1>6, <1>7, <1>8, Works

-----------------------------------------------------------------------------
(* The newest mail of a connection is the one its client is at *)

\* Where a client is within a mail, and where it is between two.
Mids == {"mail", "rcpt", "data", "body", "chunk", "last chunk"}
Quiet == {"ready", "quit", "closed"}
Blank(m) == m.mail_from = NULL /\ m.rcpt_to = <<>> /\ m.mail_body_name = NULL /\ m.data_store_flag # "START"

\* The mail that its client is in the middle of.
Middle(m, cl) ==
    /\ ~m.starttls /\ cl.at \in Mids /\ m.mail_from = cl.mail /\ cl.mail # 0
    /\ \A i \in 1..Len(m.rcpt_to) : m.rcpt_to[i] = cl.mail
    /\ cl.at # "body" => m.mail_body_name = NULL
    /\ cl.at \notin {"body", "chunk"} => m.data_store_flag # "START"
    /\ cl.at = "chunk" => m.data_store_flag = "START" /\ m.bdat_seen
    /\ cl.at \in {"data", "body"} => ~m.bdat_seen

\* A mail while its client is between two.
Between(m, cl) ==
    /\ ~m.starttls /\ cl.at \in Quiet /\ m.data_store_flag # "START"
    /\ m.mail_from = NULL => Blank(m)

\* The last mail of a session goes along with its client.
Mine(m, cl) == (m.starttls /\ Blank(m)) \/ Middle(m, cl) \/ Between(m, cl)

\* One more recipient of the same mail.
LEMMA RcptAre ==
    ASSUME NEW m \in Mail, NEW p, p.mail \in Nat, \A i \in 1..Len(m.rcpt_to) : m.rcpt_to[i] = p.mail
    PROVE  \A i \in 1..Len(WithRcpt(m, p)) : WithRcpt(m, p)[i] = p.mail
<1>1. PICK r \in Seq(Nat) : r = m.rcpt_to
  BY DEF Mail
<1>2. \A i \in 1..Len(r) : r[i] = p.mail
  BY <1>1
<1>3. \A i \in 1..Len(Append(r, p.mail)) : Append(r, p.mail)[i] = p.mail
  BY <1>1, <1>2
<1> QED
  BY <1>1, <1>3 DEF WithRcpt

\* It stays the one when a packet changes it.
LEMMA MineChanged ==
    ASSUME NEW c, NEW p, NEW m \in Mail, NEW m2 \in Mail, NEW k, Fields(c, p, m, m2, k), p.mail \in Nat,
           NEW cl, NEW d, NEW cl2, NEW d2, Spoken(p, cl, d, cl2, d2), Mine(m, cl),
           d = {} => m.mail_from = NULL, failed' # TRUE
    PROVE  /\ Mine(m2, cl2) /\ (d2 = {} => m2.mail_from = NULL)
           /\ SameEnvelope(m, m2) \/ m2.mail_body_name = NULL
           /\ \/ UNCHANGED files /\ SameName(m, m2)
              \/ files' = Append(files, <<>>) /\ m2.mail_body_name = Len(files) + 1
              \/ /\ Files(p, m) /\ SameName(m, m2) /\ SameEnvelope(m, m2) /\ ~NoName(m)
                 /\ p.token = <<"segment", cl.mail, cl.segment + 1>> /\ Middle(m, cl)
<1>1. CASE p.verb = "STARTTLS"
  <2>1. /\ ~m.starttls /\ m.data_store_flag # "START" /\ m2.starttls
        /\ SameEnvelope(m, m2) /\ SameName(m, m2) /\ SameFlags(m, m2) /\ UNCHANGED files
    BY <1>1 DEF Fields, Mine, Middle, Mids, Between, Spoken
  <2>2. cl.at = "ready" /\ d = {} /\ d2 # {}
    BY <1>1 DEF Spoken
  <2>3. Blank(m)
    BY <2>1, <2>2 DEF Mine, Middle, Mids, Between
  <2>4. Blank(m2)
    BY <2>1, <2>3 DEF Blank, SameEnvelope, SameName, SameFlags
  <2> QED
    BY <2>1, <2>2, <2>4 DEF Mine
<1>2. CASE p.verb \in {"QUIT", "221"}
  <2>1. /\ m2.starttls = m.starttls /\ SameEnvelope(m, m2) /\ SameName(m, m2) /\ SameFlags(m, m2) /\ UNCHANGED files
    BY <1>2 DEF Fields, Mine, Middle, Mids, Spoken, Between
  <2>2. cl.at \in {"ready", "quit"} /\ cl2.at \in {"quit", "closed"} /\ d2 = d
    BY <1>2 DEF Spoken
  <2> QED
    BY <2>1, <2>2 DEF Mine, Middle, Mids, Between, Quiet, Blank, SameEnvelope, SameName, SameFlags
<1>3. CASE p.verb = "MAIL"
  <2>1. /\ cl.at = "ready" /\ cl2.at = "mail" /\ cl2.mail = p.mail /\ p.mail # 0 /\ d2 # {}
    BY <1>3 DEF Spoken
  <2>2. /\ ~m.starttls /\ ~m2.starttls /\ m.data_store_flag # "START" /\ m.mail_from = NULL /\ m2.mail_from = p.mail
        /\ m2.rcpt_to = m.rcpt_to /\ SameName(m, m2) /\ SameFlags(m, m2) /\ UNCHANGED files
    BY <1>3, <2>1 DEF Fields, Mine, Middle, Mids, Between
  <2>3. Blank(m)
    BY <2>1, <2>2 DEF Mine, Middle, Mids, Between
  <2>4. Middle(m2, cl2)
    BY <2>1, <2>2, <2>3 DEF Middle, Mids, Blank, SameName, SameFlags
  <2> QED
    BY <2>1, <2>2, <2>3, <2>4 DEF Mine, Blank, SameName
<1>4. CASE p.verb = "RCPT"
  <2>1. /\ cl.at \in {"mail", "rcpt"} /\ p.mail = cl.mail /\ cl2.at = "rcpt" /\ cl2.mail = cl.mail /\ d2 = d
    BY <1>4 DEF Spoken, Same
  <2>2. /\ ~m.starttls /\ ~m2.starttls /\ m.data_store_flag # "START" /\ m2.mail_from = m.mail_from
        /\ SameName(m, m2) /\ SameFlags(m, m2) /\ UNCHANGED files /\ m2.rcpt_to = WithRcpt(m, p)
    BY <1>4, <2>1 DEF Fields, Mine, Middle, Mids, Between, Quiet
  <2>3. Middle(m, cl)
    BY <2>1, <2>2 DEF Mine, Between, Quiet
  <2>4. \A i \in 1..Len(m2.rcpt_to) : m2.rcpt_to[i] = cl.mail
    BY <2>1, <2>2, <2>3, RcptAre DEF Middle
  <2>5. Middle(m2, cl2) /\ m2.mail_body_name = NULL
    BY <2>1, <2>2, <2>3, <2>4 DEF Middle, Mids, SameName, SameFlags
  <2> QED
    BY <2>1, <2>2, <2>5 DEF Mine, Middle
<1>5. CASE p.verb \in {"DATA", "BDAT", "BDAT LAST"}
  <2>1. /\ cl.at = "rcpt" /\ cl2.mail = cl.mail /\ d \subseteq d2
        /\ p.verb = "DATA" => cl2.at = "data"
        /\ p.verb = "BDAT" => cl2.at = "chunk"
        /\ p.verb = "BDAT LAST" => cl2.at = "last chunk"
    BY <1>5 DEF Spoken, Same
  <2>2. Middle(m, cl) \/ m.starttls
    BY <2>1 DEF Mine, Between, Quiet
  <2>3. /\ ~m.starttls /\ ~m2.starttls /\ m.data_store_flag # "START" /\ SameEnvelope(m, m2) /\ SameName(m, m2)
        /\ UNCHANGED files
        /\ p.verb = "DATA" => m2.data_store_flag # "START" /\ ~m2.bdat_seen
        /\ p.verb = "BDAT" => m2.data_store_flag = "START" /\ m2.bdat_seen
        /\ p.verb = "BDAT LAST" => m2.data_store_flag # "START"
    BY <1>5, <2>1, <2>2 DEF Fields, Middle, SameFlags
  <2>4. Middle(m2, cl2)
    BY <1>5, <2>1, <2>2, <2>3 DEF Middle, Mids, SameName, SameEnvelope
  <2> QED
    BY <2>1, <2>3, <2>4 DEF Mine, SameEnvelope
<1>6. CASE p.verb = "354"
  <2>1. cl.at = "data" /\ cl2.at = "body" /\ cl2.mail = cl.mail /\ d2 = d
    BY <1>6 DEF Spoken, Same
  <2>2. /\ ~m.starttls /\ ~m2.starttls /\ files' = Append(files, <<>>) /\ SameEnvelope(m, m2)
        /\ m2.bdat_seen = m.bdat_seen /\ m2.mail_body_name = Len(files) + 1
    BY <1>6 DEF Fields
  <2>3. Middle(m, cl)
    BY <2>1, <2>2 DEF Mine, Between, Quiet
  <2>4. Middle(m2, cl2)
    BY <2>1, <2>2, <2>3 DEF Middle, Mids, SameEnvelope
  <2> QED
    BY <2>1, <2>2, <2>4 DEF Mine, SameEnvelope
<1>7. CASE /\ p.verb \notin {"354", "221", "5xx"} /\ ~m.starttls /\ ~m2.starttls /\ m.data_store_flag = "START"
           /\ ~m.bdat_seen /\ ~m2.bdat_seen /\ ~NoName(m) /\ SameEnvelope(m, m2) /\ SameName(m, m2)
           /\ Files(p, m) /\ m2.dot_seen = (m.dot_seen \/ p.end)
           /\ m2.data_store_flag = IF m2.dot_seen THEN "END" ELSE "START"
  <2>1. Middle(m, cl) /\ cl.at = "body"
    BY <1>7 DEF Mine, Middle, Between
  <2>2. /\ p.token = <<"segment", cl.mail, cl.segment + 1>> /\ cl2.mail = cl.mail
        /\ cl2.at = (IF p.end THEN "ready" ELSE "body") /\ d2 = (IF p.end THEN d \cup {"body"} ELSE d)
    BY <2>1 DEF Spoken, Further
  <2>3. CASE p.end
    <3>1. m2.data_store_flag # "START" /\ cl2.at = "ready" /\ m2.mail_from # NULL /\ d2 # {}
      BY <1>7, <2>1, <2>2, <2>3 DEF SameEnvelope, Middle, NULL
    <3>2. Between(m2, cl2)
      BY <1>7, <3>1 DEF Between, Quiet
    <3> QED
      BY <1>7, <2>1, <2>2, <3>1, <3>2 DEF Mine
  <2>4. CASE ~p.end
    <3>1. Middle(m2, cl2)
      BY <1>7, <2>1, <2>2, <2>4 DEF Middle, SameEnvelope
    <3> QED
      BY <1>7, <2>1, <2>2, <2>4, <3>1 DEF Mine, SameEnvelope
  <2> QED
    BY <2>3, <2>4
<1>8. CASE ~m.starttls /\ m.data_store_flag = "START" /\ m.bdat_seen /\ ~NoName(m)
  BY <1>8 DEF Mine, Middle, Between, NoName
<1> QED
  BY <1>1, <1>2, <1>3, <1>4, <1>5, <1>6, <1>7, <1>8 DEF Fields

\* It stays the one when a packet does not change it.
LEMMA MineUnheard ==
    ASSUME NEW p, NEW m, NEW cl, NEW d, NEW cl2, NEW d2, Spoken(p, cl, d, cl2, d2), Mine(m, cl),
           d = {} => m.mail_from = NULL,
           \/ m.starttls
           \/ p.verb \in {"segment", "chunk"} /\ m.data_store_flag # "START"
           \/ p.verb \in {"354", "221", "5xx"}
    PROVE  /\ Mine(m, cl2) \/ (p.verb = "354" /\ m.data_seen)
           /\ d2 = {} => m.mail_from = NULL
<1>1. d2 = {} => d = {}
  BY DEF Spoken
<1>2. CASE m.starttls
  BY <1>1, <1>2 DEF Mine, Middle, Between
<1>3. CASE p.verb = "segment" /\ m.data_store_flag # "START" /\ ~m.starttls
  <2>1. cl.at = "body" /\ cl2.at \in {"ready", "body"} /\ cl2.mail = cl.mail
    BY <1>3 DEF Spoken, Further
  <2>2. Middle(m, cl)
    BY <1>3, <2>1 DEF Mine, Between, Quiet
  <2> QED
    BY <1>1, <1>3, <2>1, <2>2 DEF Mine, Middle, Mids, Between, Quiet, NULL
<1>4. CASE p.verb = "chunk" /\ m.data_store_flag # "START" /\ ~m.starttls
  <2>1. /\ cl.at \in {"chunk", "last chunk"} /\ cl2.at \in {"ready", "rcpt", cl.at} /\ cl2.mail = cl.mail
        /\ cl2.at = "rcpt" => cl.at = "chunk"
    BY <1>4 DEF Spoken, Further
  <2>2. Middle(m, cl) /\ cl.at = "last chunk"
    BY <1>4, <2>1 DEF Mine, Between, Quiet, Middle
  <2> QED
    BY <1>1, <1>4, <2>1, <2>2 DEF Mine, Middle, Mids, Between, Quiet, NULL
<1>5. CASE p.verb = "354" /\ ~m.starttls
  <2>1. cl.at = "data" /\ cl2.at = "body" /\ cl2.mail = cl.mail
    BY <1>5 DEF Spoken, Same
  <2>2. Middle(m, cl)
    BY <1>5, <2>1 DEF Mine, Between, Quiet
  <2> QED
    BY <1>1, <1>5, <2>1, <2>2 DEF Mine, Middle, Mids
<1>6. CASE p.verb = "221" /\ ~m.starttls
  BY <1>1, <1>6 DEF Spoken, Mine, Middle, Mids, Between, Quiet
<1>7. CASE p.verb = "5xx" /\ ~m.starttls
  <2>1. cl.at = "data" /\ cl2.at = "ready"
    BY <1>7 DEF Spoken
  <2>2. Middle(m, cl)
    BY <1>7, <2>1 DEF Mine, Between, Quiet
  <2> QED
    BY <1>1, <1>7, <2>1, <2>2 DEF Mine, Middle, Between, Quiet, NULL
<1> QED
  BY <1>2, <1>3, <1>4, <1>5, <1>6, <1>7

\* An envelope fits a file when both are of the same mail.
Fits(e, f) == \A x \in 1..Len(f) : e.from \in {NULL, f[x][2]} /\ \A r \in e.to : r = f[x][2]

\* The envelope of a mail fits the file of the mail.
FitsFile(m) == m.mail_body_name # NULL => Fits(Envelope(m), files[m.mail_body_name])

\* The mails of a session have each its own envelope and file.
OwnIn(b) == "torn" \notin did[table.key[b]] =>
    /\ \A i \in 1..Len(chain[b]) : FitsFile(chain[b][i])
    /\ did[table.key[b]] = {} => chain[b][Len(chain[b])].mail_from = NULL
    /\ ~down => Mine(chain[b][Len(chain[b])], client[table.key[b]])

\* So have the JSONs made of them, when the newest mail is the one that is found.
OwnInv == scene.pick = "newest" /\ ~failed =>
    /\ \A j \in posted : "torn" \notin did[j.key] => Fits(j.env, j.body)
    /\ \A w \in Workers : worker[w].at = "extract" /\ "torn" \notin did[worker[w].json.key]
                             => Fits(worker[w].json.env, worker[w].json.body)
    /\ \A b \in DOMAIN chain : OwnIn(b)

\* The envelope is made of the sender and the recipients.
LEMMA EnvelopeIs ==
    ASSUME NEW m, NEW m2, SameEnvelope(m, m2)
    PROVE  Envelope(m2) = Envelope(m)
BY DEF SameEnvelope, Envelope

\* An envelope of one mail names that mail only.
LEMMA EnvelopeAll ==
    ASSUME NEW m \in Mail, NEW n, m.mail_from = n, \A i \in 1..Len(m.rcpt_to) : m.rcpt_to[i] = n
    PROVE  Envelope(m).from = n /\ \A r \in Envelope(m).to : r = n
<1>1. DOMAIN m.rcpt_to = 1..Len(m.rcpt_to)
  BY DEF Mail
<1> QED
  BY <1>1 DEF Envelope

\* JSON texts are of connections.
KeysInv ==
    /\ \A j \in posted : j.key \in Keys
    /\ \A w \in Workers : worker[w].at = "extract" => worker[w].json.key \in Keys

\* A worker keeps the sessions of the connections.
LEMMA KeysWork == ASSUME SessionInv, Enough, KeysInv, NEW w \in Workers, Work(w) PROVE KeysInv'
<1>1. CASE Missed(w)
  BY <1>1 DEF Missed, KeysInv
<1>2. ASSUME NEW b, Taken(w, b) PROVE KeysInv'
  BY <1>2 DEF Taken, KeysInv
<1>3. CASE WorkerFallen(w) \/ GivenUp(w)
  BY <1>3 DEF WorkerFallen, GivenUp, KeysInv
<1>4. CASE Posted(w)
  BY <1>4 DEF Posted, KeysInv
<1>5. ASSUME NEW b, NEW i, NEW m, Parsed(w, b, i, m) PROVE KeysInv'
  <2>1. b \in DOMAIN chain /\ worker'[w].json.key = table.key[b] /\ UNCHANGED posted
        /\ \A v \in Workers : v # w => worker'[v] = worker[v]
    BY <1>5, ParsedSays
  <2>2. table.key[b] \in Keys
    BY <2>1 DEF SessionInv, TableInv, TableOK
  <2> QED
    BY <2>1, <2>2 DEF KeysInv
<1>6. ASSUME NEW b, Released(w, b) PROVE KeysInv'
  BY <1>6 DEF Released, KeysInv
<1> QED
  BY <1>1, <1>2, <1>3, <1>4, <1>5, <1>6, Works

\* A session that a step leaves alone.
LEMMA OwnKept ==
    ASSUME SessionInv, NamesApart, NEW a \in DOMAIN chain, chain'[a] = chain[a], OwnIn(a),
           table'.key[a] = table.key[a], client'[table.key[a]] = client[table.key[a]],
           did[table.key[a]] \subseteq did'[table.key[a]], ~down' => ~down,
           \A i \in 1..Len(chain[a]) :
              chain[a][i].mail_body_name # NULL
                 => files'[chain[a][i].mail_body_name] = files[chain[a][i].mail_body_name]
    PROVE  OwnIn(a)'
<1>1. SUFFICES ASSUME "torn" \notin did'[table.key[a]] PROVE OwnIn(a)'
  BY DEF OwnIn
<1>2. "torn" \notin did[table.key[a]] /\ (did'[table.key[a]] = {} => did[table.key[a]] = {})
  BY <1>1
<1>3. /\ \A i \in 1..Len(chain[a]) : FitsFile(chain[a][i])
      /\ did[table.key[a]] = {} => chain[a][Len(chain[a])].mail_from = NULL
      /\ ~down => Mine(chain[a][Len(chain[a])], client[table.key[a]])
  BY <1>2 DEF OwnIn
<1>4. \A i \in 1..Len(chain[a]) : FitsFile(chain[a][i])'
  BY <1>3 DEF FitsFile
<1> QED
  BY <1>2, <1>3, <1>4 DEF OwnIn

\* The files of other mails.
LEMMA FilesElse ==
    ASSUME SessionInv, NEW c, NEW p, NEW m, NEW m2, NEW k, Fields(c, p, m, m2, k)
    PROVE  \A f \in 1..Len(files) : f # m.mail_body_name \/ m.mail_body_name = NULL => files'[f] = files[f]
<1>1. files \in Seq(Seq(Tokens)) /\ Len(files) \in Nat
  BY FilesLong
<1>2. CASE UNCHANGED files
  BY <1>2
<1>3. CASE files' = Append(files, <<>>)
  BY <1>3, FileAdded
<1>4. CASE Files(p, m) /\ ~NoName(m)
  <2>1. PICK n : n = m.mail_body_name /\ n # NULL /\ files' = [files EXCEPT ![n] = Append(@, p.token)]
    BY <1>4 DEF Files, NoName
  <2>2. \A f \in 1..Len(files) : f # n => files'[f] = files[f]
    BY <1>1, <2>1
  <2> QED
    BY <2>1, <2>2
<1> QED
  BY <1>2, <1>3, <1>4 DEF Fields

\* A segment of its own mail fits a mail.
LEMMA SegmentFits ==
    ASSUME SessionInv, NEW m \in Mail, NEW n \in 1..Len(files), NEW t \in Tokens, Fits(Envelope(m), files[n]),
           files' = [files EXCEPT ![n] = Append(@, t)], m.mail_from = t[2],
           \A i \in 1..Len(m.rcpt_to) : m.rcpt_to[i] = t[2]
    PROVE  Fits(Envelope(m), files'[n])
<1>1. /\ Len(files[n]) \in Nat
      /\ Len(files'[n]) = Len(files[n]) + 1 /\ files'[n][Len(files[n]) + 1] = t
      /\ \A x \in 1..Len(files[n]) : files'[n][x] = files[n][x]
  BY FileAppended
<1>2. Envelope(m).from = t[2] /\ \A r \in Envelope(m).to : r = t[2]
  BY EnvelopeAll
<1>3. PICK e : e = Envelope(m)
  OBVIOUS
<1>4. SUFFICES ASSUME NEW x \in 1..(Len(files[n]) + 1)
               PROVE  e.from \in {NULL, files'[n][x][2]} /\ \A r \in e.to : r = files'[n][x][2]
  BY <1>1, <1>3 DEF Fits
<1>5. CASE x \in 1..Len(files[n])
  BY <1>1, <1>3, <1>5 DEF Fits
<1>6. CASE x = Len(files[n]) + 1
  BY <1>1, <1>2, <1>3, <1>6
<1> QED
  BY <1>1, <1>5, <1>6

\* What is to be shown of the session of connection c.
OwnOf(b, c) ==
    /\ \A j \in 1..Len(chain[b]) : FitsFile(chain[b][j])
    /\ did[c] = {} => chain[b][Len(chain[b])].mail_from = NULL
    /\ ~down => Mine(chain[b][Len(chain[b])], client[c])

\* Every packet keeps each mail with its own envelope.
LEMMA OwnTurn ==
    ASSUME SessionInv, NamesApart, KeysInv, OwnInv, NEW c \in Keys, NEW p, NEW b, NEW i, NEW m, NEW cl, NEW d,
           Turn(c, p, b, i, m, cl, d)
    PROVE  OwnInv'
<1>1. /\ b \in DOMAIN chain /\ b \in Buckets /\ table.key[b] = c /\ i = Position(b) /\ i \in 1..Len(chain[b])
      /\ chain[b] \in Seq(Mail) /\ m = chain[b][i] /\ m \in Mail /\ ~down /\ d = did[c] /\ p.mail \in Nat
      /\ cl = client[c] /\ cl \in Clients /\ Spoken(p, cl, d, client'[c], did'[c]) /\ p.end \in BOOLEAN
      /\ \A k \in Keys : k # c => client'[k] = client[k] /\ did'[k] = did[k]
      /\ \A a \in DOMAIN chain : table.key[a] \in Keys /\ (a # b => table.key[a] # c)
      /\ UNCHANGED <<scene, worker, posted>>
  BY TurnIs
<1>2. \A k : did[k] \subseteq did'[k] \/ k \notin Keys
  BY TurnIs
<1>3. failed => failed'
  BY FailureTurns
<1>4. SUFFICES ASSUME scene.pick = "newest", failed' # TRUE
               PROVE  /\ \A a \in DOMAIN chain' : OwnIn(a)'
                      /\ \A j \in posted : "torn" \notin did'[j.key] => Fits(j.env, j.body)
                      /\ \A w \in Workers : worker[w].at = "extract" /\ "torn" \notin did'[worker[w].json.key]
                                               => Fits(worker[w].json.env, worker[w].json.body)
  BY <1>1 DEF OwnInv
<1>5. /\ \A a \in DOMAIN chain : OwnIn(a)
      /\ \A j \in posted : "torn" \notin did[j.key] => Fits(j.env, j.body)
      /\ \A w \in Workers : worker[w].at = "extract" /\ "torn" \notin did[worker[w].json.key]
                               => Fits(worker[w].json.env, worker[w].json.body)
  BY <1>3, <1>4 DEF OwnInv
<1>6. \A k \in Keys : "torn" \notin did'[k] => "torn" \notin did[k]
  BY <1>2
<1>7. SUFFICES \A a \in DOMAIN chain' : OwnIn(a)'
  BY <1>5, <1>6 DEF KeysInv
<1>8. i = Len(chain[b]) /\ i \in Nat
  BY <1>1, <1>4 DEF Position
\* The other sessions.
<1>9. ASSUME \A f \in 1..Len(files) : f # m.mail_body_name \/ m.mail_body_name = NULL => files'[f] = files[f],
             NEW a \in DOMAIN chain, a # b, chain'[a] = chain[a], table'.key[a] = table.key[a]
      PROVE  OwnIn(a)'
  <2>1. ASSUME NEW j \in 1..Len(chain[a]), chain[a][j].mail_body_name # NULL
        PROVE  files'[chain[a][j].mail_body_name] = files[chain[a][j].mail_body_name]
    <3>1. chain[a][j].mail_body_name \in 1..Len(files)
      BY <2>1, NameIs
    <3>2. chain[a][j].mail_body_name # m.mail_body_name
      BY <1>1, <1>9, <2>1 DEF NamesApart
    <3> QED
      BY <1>9, <3>1, <3>2
  <2>2. /\ client'[table.key[a]] = client[table.key[a]] /\ did[table.key[a]] \subseteq did'[table.key[a]]
        /\ (~down' => ~down) /\ OwnIn(a)
    BY <1>1, <1>2, <1>5, <1>9
  <2> QED
    BY <1>9, <2>1, <2>2, OwnKept
\* The session of the connection.
<1>10. ASSUME \A f \in 1..Len(files) : f # m.mail_body_name \/ m.mail_body_name = NULL => files'[f] = files[f],
              DOMAIN chain' \subseteq DOMAIN chain,
              \A a \in DOMAIN chain' : a # b => chain'[a] = chain[a] /\ table'.key[a] = table.key[a],
              b \in DOMAIN chain' /\ "torn" \notin d => table'.key[b] = c /\ OwnOf(b, c)',
              b \in DOMAIN chain' => table'.key[b] = c
       PROVE  \A a \in DOMAIN chain' : OwnIn(a)'
  <2>1. ASSUME NEW a \in DOMAIN chain', a # b PROVE OwnIn(a)'
    BY <1>9, <1>10, <2>1
  <2>2. ASSUME b \in DOMAIN chain' PROVE OwnIn(b)'
    <3>1. "torn" \notin did'[c] => "torn" \notin d
      BY <1>1, <1>6
    <3> QED
      BY <1>10, <2>2, <3>1 DEF OwnIn, OwnOf
  <2> QED
    BY <2>1, <2>2
<1>11. "torn" \notin d => /\ \A j \in 1..Len(chain[b]) : FitsFile(chain[b][j])
                         /\ (d = {} => m.mail_from = NULL) /\ Mine(m, cl)
  BY <1>1, <1>5, <1>8 DEF OwnIn
<1>12. CASE Changed(c, p, b, i, m)
  <2>1. PICK m2 \in Mail, k \in 0..2 :
            /\ Fields(c, p, m, m2, k) /\ Only(b) /\ Len(chain'[b]) = Len(chain[b]) /\ chain'[b][i] = m2
            /\ \A j \in 1..Len(chain[b]) : j # i => chain'[b][j] = chain[b][j]
            /\ UNCHANGED down
    <3>1. m \in Mail /\ p.end \in BOOLEAN /\ Changed(c, p, b, i, m)
      BY <1>1, <1>12
    <3>2. \E m2 \in Mail, k \in 0..2 :
            /\ Fields(c, p, m, m2, k) /\ Only(b) /\ Len(chain'[b]) = Len(chain[b]) /\ chain'[b][i] = m2
            /\ \A j \in 1..Len(chain[b]) : j # i => chain'[b][j] = chain[b][j]
            /\ chain'[b] = [chain[b] EXCEPT ![i] = m2] /\ Allocated(b, k) /\ UNCHANGED down
      BY <3>1, ChangedIs
    <3> QED
      BY <3>2
  <2>2. \A f \in 1..Len(files) : f # m.mail_body_name \/ m.mail_body_name = NULL => files'[f] = files[f]
    BY <2>1, FilesElse
  <2>3. DOMAIN chain' = DOMAIN chain /\ table' = table /\ \A a \in DOMAIN chain : a # b => chain'[a] = chain[a]
    BY <2>1 DEF Only
  <2>4. ASSUME "torn" \notin d PROVE OwnOf(b, c)'
    <3>1. /\ \A j \in 1..Len(chain[b]) : FitsFile(chain[b][j])
          /\ (d = {} => m.mail_from = NULL) /\ Mine(m, cl)
      BY <1>11, <2>4
    <3>2. Fields(c, p, m, m2, k) /\ Spoken(p, cl, d, client'[c], did'[c]) /\ p.mail \in Nat /\ m \in Mail
      BY <1>1, <2>1
    <3>3. /\ Mine(m2, client'[c]) /\ (did'[c] = {} => m2.mail_from = NULL)
          /\ SameEnvelope(m, m2) \/ m2.mail_body_name = NULL
          /\ \/ UNCHANGED files /\ SameName(m, m2)
             \/ files' = Append(files, <<>>) /\ m2.mail_body_name = Len(files) + 1
             \/ /\ Files(p, m) /\ SameName(m, m2) /\ SameEnvelope(m, m2) /\ ~NoName(m)
                /\ p.token = <<"segment", cl.mail, cl.segment + 1>> /\ Middle(m, cl)
      BY <1>4, <3>1, <3>2, MineChanged
    <3>4. ASSUME NEW j \in 1..Len(chain[b]), j # i PROVE FitsFile(chain[b][j])'
      <4>1. FitsFile(chain[b][j]) /\ chain'[b][j] = chain[b][j]
        BY <2>1, <3>1, <3>4
      <4>2. CASE chain[b][j].mail_body_name = NULL
        BY <4>1, <4>2 DEF FitsFile
      <4>3. CASE chain[b][j].mail_body_name # NULL
        <5>1. chain[b][j].mail_body_name \in 1..Len(files) /\ chain[b][j].mail_body_name # m.mail_body_name
          BY <1>1, <3>4, <4>3, NameIs DEF NamesApart
        <5>2. files'[chain[b][j].mail_body_name] = files[chain[b][j].mail_body_name]
          BY <2>2, <5>1
        <5> QED
          BY <4>1, <5>2 DEF FitsFile
      <4> QED
        BY <4>2, <4>3
    <3>5. FitsFile(chain[b][i])'
      <4>1. SUFFICES m2.mail_body_name # NULL => Fits(Envelope(m2), files'[m2.mail_body_name])
        BY <2>1 DEF FitsFile
      <4>2. FitsFile(m)
        BY <1>1, <3>1
      <4>3. CASE m2.mail_body_name # NULL /\ UNCHANGED files /\ SameName(m, m2)
        BY <3>3, <4>2, <4>3, EnvelopeIs DEF FitsFile, SameName
      <4>4. CASE files' = Append(files, <<>>) /\ m2.mail_body_name = Len(files) + 1
        <5>1. files'[m2.mail_body_name] = <<>>
          BY <4>4, FileAdded
        <5> QED
          BY <5>1 DEF Fits
      <4>5. CASE /\ Files(p, m) /\ SameName(m, m2) /\ SameEnvelope(m, m2) /\ ~NoName(m)
                 /\ p.token = <<"segment", cl.mail, cl.segment + 1>> /\ Middle(m, cl)
        <5>1. PICK n, t : n = m.mail_body_name /\ t = <<"segment", cl.mail, cl.segment + 1>>
          OBVIOUS
        <5>2. n \in 1..Len(files) /\ n # NULL
          BY <1>1, <4>5, <5>1, NameIs DEF NoName
        <5>3. t \in Tokens /\ t[2] = cl.mail
          <6>1. cl.segment + 1 \in Nat /\ cl.mail \in Nat
            BY <1>1 DEF Clients, SessionInv, SceneType
          <6>2. "segment" \in ClientVerbs \cup ServerVerbs
            BY DEF ClientVerbs
          <6> QED
            BY <5>1, <6>1, <6>2, TokenIs
        <5>4. Fits(Envelope(m), files'[n])
          <6>1. Fits(Envelope(m), files[n]) /\ files' = [files EXCEPT ![n] = Append(@, t)]
            BY <4>2, <4>5, <5>1, <5>2 DEF FitsFile, Files
          <6>2. m.mail_from = t[2] /\ \A x \in 1..Len(m.rcpt_to) : m.rcpt_to[x] = t[2]
            BY <4>5, <5>3 DEF Middle
          <6> QED
            BY <3>2, <5>2, <5>3, <6>1, <6>2, SegmentFits
        <5>5. Envelope(m2) = Envelope(m) /\ m2.mail_body_name = n
          BY <4>5, <5>1, EnvelopeIs DEF SameName
        <5> QED
          BY <5>4, <5>5
      <4> QED
        BY <3>3, <4>3, <4>4, <4>5
    <3>6. \A j \in 1..Len(chain'[b]) : FitsFile(chain[b][j])'
      BY <2>1, <3>4, <3>5
    <3>7. chain'[b][Len(chain'[b])] = m2
      BY <1>8, <2>1
    <3> QED
      BY <3>3, <3>6, <3>7 DEF OwnOf
  <2> QED
    BY <1>1, <1>10, <2>2, <2>3, <2>4
<1>13. ASSUME UNCHANGED <<chain, table, files>>,
              "torn" \notin d => (did'[c] = {} => m.mail_from = NULL) /\ (~down' => Mine(m, client'[c]))
       PROVE  \A a \in DOMAIN chain' : OwnIn(a)'
  <2>1. ASSUME "torn" \notin d PROVE OwnOf(b, c)'
    <3>1. \A j \in 1..Len(chain'[b]) : FitsFile(chain[b][j])'
      BY <1>11, <1>13, <2>1 DEF FitsFile
    <3> QED
      BY <1>1, <1>8, <1>13, <2>1, <3>1 DEF OwnOf
  <2> QED
    BY <1>1, <1>10, <1>13, <2>1
<1>14. CASE Unheard(b, i, m, p)
  <2>1. Ignored(b, i, m, p) /\ UNCHANGED <<table, chain, files>>
    BY <1>14 DEF Unheard
  <2>2. ASSUME "torn" \notin d PROVE (did'[c] = {} => m.mail_from = NULL) /\ Mine(m, client'[c])
    <3>1. Mine(m, cl) /\ (d = {} => m.mail_from = NULL)
      BY <1>11, <2>2
    <3>2. \/ m.starttls
          \/ p.verb \in {"segment", "chunk"} /\ m.data_store_flag # "START"
          \/ p.verb \in {"354", "221", "5xx"}
      <4>1. ~(m.mail_from # NULL /\ \E j \in i..Len(chain[b]) : chain[b][j].mail_from = NULL)
        BY <1>1, <1>8
      <4> QED
        BY <1>4, <2>1, <4>1 DEF Ignored
    <3>3. ~(p.verb = "354" /\ m.data_seen) \/ m.starttls
      BY <2>1, <1>4 DEF Ignored
    <3>4. Spoken(p, cl, d, client'[c], did'[c])
      BY <1>1
    <3>5. m.starttls => Mine(m, client'[c])
      BY <3>1 DEF Mine, Middle, Between
    <3> QED
      BY <3>1, <3>2, <3>3, <3>4, <3>5, MineUnheard
  <2> QED
    BY <1>13, <2>1, <2>2
<1>15. CASE Added(b, m, p)
  <2>1. PICK m2 \in Mail : /\ m2 = [NewMail EXCEPT !.mail_from = p.mail] /\ Only(b) /\ p.verb = "MAIL"
                           /\ Len(chain'[b]) = Len(chain[b]) + 1 /\ chain'[b][Len(chain[b]) + 1] = m2
                           /\ \A j \in 1..Len(chain[b]) : chain'[b][j] = chain[b][j]
    BY <1>15 DEF Added
  <2>2. UNCHANGED <<files, down>>
    BY <1>15 DEF Added
  <2>3. /\ m2.mail_from = p.mail /\ m2.rcpt_to = <<>> /\ m2.mail_body_name = NULL /\ ~m2.starttls
        /\ m2.data_store_flag # "START"
    BY <2>1 DEF NewMail
  <2>4. client'[c].at = "mail" /\ client'[c].mail = p.mail /\ p.mail # 0 /\ did'[c] # {}
    BY <1>1, <2>1 DEF Spoken
  <2>5. Mine(m2, client'[c])
    BY <2>3, <2>4 DEF Mine, Middle, Mids
  <2>6. ASSUME "torn" \notin d PROVE OwnOf(b, c)'
    <3>1. ASSUME NEW j \in 1..(Len(chain[b]) + 1) PROVE FitsFile(chain[b][j])'
      <4>1. CASE j \in 1..Len(chain[b])
        <5>1. chain'[b][j] = chain[b][j] /\ FitsFile(chain[b][j])
          BY <1>11, <2>1, <2>6, <4>1
        <5> QED
          BY <2>2, <5>1 DEF FitsFile
      <4>2. CASE j = Len(chain[b]) + 1
        BY <2>1, <2>3, <4>2 DEF FitsFile
      <4> QED
        BY <1>8, <4>1, <4>2
    <3> QED
      BY <2>1, <2>4, <2>5, <3>1 DEF OwnOf
  <2> QED
    BY <1>1, <1>10, <2>1, <2>2, <2>6 DEF Only
<1>16. CASE Reset(b, i, m, p)
  <2>1. /\ p.verb = "RSET" /\ Only(b) /\ Len(chain'[b]) = i /\ chain'[b][i] = NewMail
        /\ \A j \in 1..(i - 1) : chain'[b][j] = chain[b][j]
    BY <1>16 DEF Reset
  <2>2. UNCHANGED files
    BY <1>16 DEF Reset
  <2>3. /\ NewMail.mail_from = NULL /\ NewMail.rcpt_to = <<>> /\ NewMail.mail_body_name = NULL /\ ~NewMail.starttls
        /\ NewMail.data_store_flag # "START"
    BY DEF NewMail
  <2>4. client'[c].at = "ready"
    BY <1>1, <2>1 DEF Spoken
  <2>5. Mine(NewMail, client'[c])
    BY <2>3, <2>4 DEF Mine, Between, Quiet, Blank
  <2>6. ASSUME "torn" \notin d PROVE OwnOf(b, c)'
    <3>1. ASSUME NEW j \in 1..i PROVE FitsFile(chain[b][j])'
      <4>1. CASE j \in 1..(i - 1)
        <5>1. chain'[b][j] = chain[b][j] /\ FitsFile(chain[b][j])
          BY <1>8, <1>11, <2>1, <2>6, <4>1
        <5> QED
          BY <2>2, <5>1 DEF FitsFile
      <4>2. CASE j = i
        BY <2>1, <2>3, <4>2 DEF FitsFile
      <4> QED
        BY <1>8, <4>1, <4>2
    <3> QED
      BY <2>1, <2>3, <2>5, <3>1 DEF OwnOf
  <2> QED
    BY <1>1, <1>10, <2>1, <2>2, <2>6 DEF Only
<1>17. CASE Closed(b, m, p)
  BY <1>10, <1>17 DEF Closed, Left
<1>18. CASE Fallen(m, p)
  <2>1. down' /\ UNCHANGED <<chain, table, files>>
    BY <1>18 DEF Fallen
  <2>2. did'[c] = {} => d = {}
    BY <1>1 DEF Spoken
  <2> QED
    BY <1>11, <1>13, <2>1, <2>2
<1> QED
  BY <1>12, <1>14, <1>15, <1>16, <1>17, <1>18 DEF Turn

\* So does a new connection.
LEMMA OwnCome == ASSUME SessionInv, NamesApart, KeysInv, OwnInv, NEW c \in Keys, NEW b, Came(c, b) PROVE OwnInv'
<1>1. /\ b \notin DOMAIN chain /\ \A a \in DOMAIN chain : table.key[a] \in Keys \ {c}
      /\ DOMAIN chain' = DOMAIN chain \cup {b} /\ chain'[b] = <<NewMail>> /\ table'.key[b] = c
      /\ \A a \in DOMAIN chain : a # b /\ chain'[a] = chain[a] /\ table'.key[a] = table.key[a]
      /\ IF client[c].at \in {"ready", "quit"} THEN UNCHANGED did ELSE Did(c, "torn")
      /\ UNCHANGED <<scene, client, files, ring, worker, posted, failed, down>>
  BY DEF Came
<1>2. \A k \in Keys : did[k] \subseteq did'[k]
  BY <1>1 DEF Did, SessionInv
<1>3. client[c].at \notin {"ready", "quit"} => "torn" \in did'[c]
  BY <1>1 DEF Did, SessionInv
<1>4. SUFFICES ASSUME scene.pick = "newest", ~failed
               PROVE  /\ \A a \in DOMAIN chain' : OwnIn(a)'
                      /\ \A j \in posted : "torn" \notin did'[j.key] => Fits(j.env, j.body)
                      /\ \A w \in Workers : worker[w].at = "extract" /\ "torn" \notin did'[worker[w].json.key]
                                               => Fits(worker[w].json.env, worker[w].json.body)
  BY <1>1 DEF OwnInv
<1>5. /\ \A a \in DOMAIN chain : OwnIn(a)
      /\ \A j \in posted : "torn" \notin did[j.key] => Fits(j.env, j.body)
      /\ \A w \in Workers : worker[w].at = "extract" /\ "torn" \notin did[worker[w].json.key]
                               => Fits(worker[w].json.env, worker[w].json.body)
  BY <1>4 DEF OwnInv
<1>6. \A k \in Keys : "torn" \notin did'[k] => "torn" \notin did[k]
  BY <1>2
<1>7. SUFFICES \A a \in DOMAIN chain' : OwnIn(a)'
  BY <1>5, <1>6 DEF KeysInv
<1>8. ASSUME NEW a \in DOMAIN chain PROVE OwnIn(a)'
  BY <1>1, <1>2, <1>5, <1>8, OwnKept
<1>9. OwnIn(b)'
  <2>1. Len(chain'[b]) = 1 /\ chain'[b][1] = NewMail /\ \A j \in 1..Len(chain'[b]) : chain'[b][j] = NewMail
    BY <1>1
  <2>2. /\ NewMail.mail_from = NULL /\ NewMail.rcpt_to = <<>> /\ NewMail.mail_body_name = NULL /\ ~NewMail.starttls
        /\ NewMail.data_store_flag # "START"
    BY DEF NewMail
  <2>3. \A j \in 1..Len(chain'[b]) : FitsFile(chain[b][j])'
    BY <2>1, <2>2 DEF FitsFile
  <2>4. "torn" \notin did'[c] => Mine(NewMail, client'[c])
    BY <1>1, <1>3, <2>2 DEF Mine, Between, Quiet, Blank
  <2> QED
    BY <1>1, <2>1, <2>2, <2>3, <2>4 DEF OwnIn
<1> QED
  BY <1>1, <1>8, <1>9

\* So does a worker.
LEMMA OwnWork ==
    ASSUME SessionInv, Enough, NamesApart, KeysInv, OwnInv, NEW w \in Workers, Work(w)
    PROVE  OwnInv'
<1>1. UNCHANGED <<files, client, scene>> /\ ~down /\ \A k \in Keys : did[k] \subseteq did'[k]
  BY WorkLeaves
<1>2. failed => failed'
  BY FailureStays
<1> SUFFICES ASSUME scene.pick = "newest", failed' # TRUE PROVE OwnInv'
  BY <1>1 DEF OwnInv
<1>3. /\ \A a \in DOMAIN chain : OwnIn(a)
      /\ \A j \in posted : "torn" \notin did[j.key] => Fits(j.env, j.body)
      /\ \A v \in Workers : worker[v].at = "extract" /\ "torn" \notin did[worker[v].json.key]
                               => Fits(worker[v].json.env, worker[v].json.body)
  BY <1>2 DEF OwnInv
<1>4. \A k \in Keys : "torn" \notin did'[k] => "torn" \notin did[k]
  BY <1>1
<1>5. ASSUME NEW a \in DOMAIN chain, chain'[a] = chain[a], table'.key[a] = table.key[a] PROVE OwnIn(a)'
  <2>1. table.key[a] \in Keys
    BY DEF SessionInv, TableInv, TableOK
  <2> QED
    BY <1>1, <1>3, <1>5, <2>1, OwnKept
<1>6. CASE (\E b : Taken(w, b)) \/ Missed(w) \/ WorkerFallen(w) \/ Posted(w)
  <2>1. UNCHANGED <<chain, table, did>>
    BY <1>6 DEF Taken, Missed, WorkerFallen, Posted
  <2>2. \A j \in posted' : j \in posted \/ (worker[w].at = "extract" /\ j = worker[w].json)
    BY <1>6 DEF Taken, Missed, WorkerFallen, Posted
  <2>3. \A v \in Workers : worker'[v].at = "extract" => worker'[v] = worker[v]
    <3>1. CASE Missed(w)
      BY <3>1 DEF Missed
    <3>2. ASSUME NEW b, Taken(w, b) PROVE \A v \in Workers : worker'[v].at = "extract" => worker'[v] = worker[v]
      BY <3>2 DEF Taken
    <3>3. CASE WorkerFallen(w)
      BY <3>3 DEF WorkerFallen
    <3>4. CASE Posted(w)
      BY <3>4 DEF Posted
    <3> QED
      BY <1>6, <3>1, <3>2, <3>3, <3>4
  <2>4. \A a \in DOMAIN chain' : OwnIn(a)'
    BY <1>5, <2>1
  <2>5. \A j \in posted' : "torn" \notin did'[j.key] => Fits(j.env, j.body)
    BY <1>3, <2>1, <2>2
  <2>6. \A v \in Workers : worker'[v].at = "extract" /\ "torn" \notin did'[worker'[v].json.key]
                               => Fits(worker'[v].json.env, worker'[v].json.body)
    BY <1>3, <2>1, <2>3
  <2> QED
    BY <2>4, <2>5, <2>6 DEF OwnInv
<1>7. CASE GivenUp(w)
  BY <1>7 DEF GivenUp
<1>8. ASSUME NEW b, NEW i, NEW m, Parsed(w, b, i, m) PROVE OwnInv'
  <2>1. PICK m2 \in Mail :
           /\ b \in DOMAIN chain /\ i \in 1..Len(chain[b]) /\ m = chain[b][i] /\ m \in Mail /\ ~NoName(m)
           /\ m2 = [m EXCEPT !.result_json = TRUE] /\ Only(b) /\ Len(chain'[b]) = Len(chain[b]) /\ chain'[b][i] = m2
           /\ \A j \in 1..Len(chain[b]) : j # i => chain'[b][j] = chain[b][j]
           /\ worker'[w] = [at |-> "extract", bucket |-> b, mail |-> i,
                            json |-> [key |-> table.key[b], env |-> Envelope(m), body |-> files[m.mail_body_name],
                                      alone |-> Len(chain[b]) = 1]]
           /\ \A v \in Workers : v # w => worker'[v] = worker[v]
           /\ UNCHANGED <<posted, did, down, table>>
    BY <1>8 DEF Parsed, Only
  <2>2. /\ m2.mail_body_name = m.mail_body_name /\ m2.starttls = m.starttls /\ m2.bdat_seen = m.bdat_seen
        /\ m2.data_store_flag = m.data_store_flag /\ m2.mail_from = m.mail_from /\ m2.rcpt_to = m.rcpt_to
    BY <2>1 DEF Mail
  <2>3. Envelope(m2) = Envelope(m) /\ (\A cl : Mine(m, cl) => Mine(m2, cl)) /\ (FitsFile(m) => FitsFile(m2)')
    <3>1. Envelope(m2) = Envelope(m)
      BY <2>2, EnvelopeIs DEF SameEnvelope
    <3> QED
      BY <1>1, <2>2, <3>1 DEF Mine, Middle, Between, Blank, FitsFile
  <2>4. OwnIn(b)'
    <3>1. SUFFICES ASSUME "torn" \notin did[table.key[b]] PROVE OwnIn(b)'
      BY <2>1 DEF OwnIn
    <3>2. /\ \A j \in 1..Len(chain[b]) : FitsFile(chain[b][j])
          /\ did[table.key[b]] = {} => chain[b][Len(chain[b])].mail_from = NULL
          /\ Mine(chain[b][Len(chain[b])], client[table.key[b]])
      BY <1>1, <1>3, <2>1, <3>1 DEF OwnIn
    <3>3. ASSUME NEW j \in 1..Len(chain[b]) PROVE FitsFile(chain[b][j])'
      BY <1>1, <2>1, <2>3, <3>2 DEF FitsFile
    <3>4. Len(chain[b]) \in Nat
      BY <2>1, MailsAre
    <3>5. /\ chain'[b][Len(chain[b])].mail_from = chain[b][Len(chain[b])].mail_from
          /\ \A cl : Mine(chain[b][Len(chain[b])], cl) => Mine(chain'[b][Len(chain[b])], cl)
      <4>0. Len(chain[b]) \in 1..Len(chain[b])
        BY <2>1, <3>4
      <4>1. CASE Len(chain[b]) = i
        <5>1. chain'[b][Len(chain[b])] = m2 /\ chain[b][Len(chain[b])] = m
          BY <2>1, <4>1
        <5> QED
          BY <2>2, <2>3, <5>1
      <4>2. CASE Len(chain[b]) # i
        <5>1. chain'[b][Len(chain[b])] = chain[b][Len(chain[b])]
          BY <2>1, <4>0, <4>2
        <5> QED
          BY <5>1
      <4> QED
        BY <4>1, <4>2
    <3> QED
      BY <1>1, <2>1, <3>2, <3>3, <3>5 DEF OwnIn
  <2>5. \A a \in DOMAIN chain' : OwnIn(a)'
    BY <1>5, <2>1, <2>4 DEF Only
  <2>6. "torn" \notin did[table.key[b]] => Fits(Envelope(m), files[m.mail_body_name])
    BY <1>3, <2>1 DEF OwnIn, FitsFile, NoName
  <2>7. ASSUME NEW v \in Workers, worker'[v].at = "extract", "torn" \notin did'[worker'[v].json.key]
        PROVE  Fits(worker'[v].json.env, worker'[v].json.body)
    <3>1. CASE v # w
      BY <1>3, <2>1, <2>7, <3>1
    <3>2. CASE v = w
      <4>1. worker'[v].json = [key |-> table.key[b], env |-> Envelope(m), body |-> files[m.mail_body_name],
                               alone |-> Len(chain[b]) = 1]
        BY <2>1, <3>2
      <4>2. /\ worker'[v].json.key = table.key[b] /\ worker'[v].json.env = Envelope(m)
            /\ worker'[v].json.body = files[m.mail_body_name]
        BY <4>1
      <4> QED
        BY <2>1, <2>6, <2>7, <4>2
    <3> QED
      BY <3>1, <3>2
  <2> QED
    BY <1>3, <2>1, <2>5, <2>7 DEF OwnInv
<1>9. ASSUME NEW b, Released(w, b) PROVE OwnInv'
  <2>1. /\ DOMAIN chain' = DOMAIN chain \ {b} /\ UNCHANGED posted
        /\ \A a \in DOMAIN chain' : chain'[a] = chain[a] /\ table'.key[a] = table.key[a]
        /\ worker'[w].at = "idle" /\ \A v \in Workers : v # w => worker'[v] = worker[v]
    BY <1>9 DEF Released, Left
  <2>2. \A a \in DOMAIN chain' : OwnIn(a)'
    BY <1>5, <2>1
  <2>3. \A j \in posted : "torn" \notin did'[j.key] => Fits(j.env, j.body)
    BY <1>3, <1>4 DEF KeysInv
  <2>4. \A v \in Workers : worker'[v].at = "extract" /\ "torn" \notin did'[worker'[v].json.key]
                               => Fits(worker'[v].json.env, worker'[v].json.body)
    BY <1>3, <1>4, <2>1 DEF KeysInv
  <2> QED
    BY <2>1, <2>2, <2>3, <2>4 DEF OwnInv
<1> QED
  BY <1>6, <1>7, <1>8, <1>9, Works

-----------------------------------------------------------------------------
(* Plain connections *)

\* No allocation failed, and no session was dropped while another worker held it.
Calm == ~failed /\ \A k \in Keys : "shared" \notin did[k]
\* Who has a session in hand, and who waits for it in the ring.
Held(b) == \E w \in Workers : worker[w].bucket = b
InRing(c) == \E x \in 1..Len(ring) : ring[x] = c
RingOnce(c) == \A x, y \in 1..Len(ring) : ring[x] = c /\ ring[y] = c => x = y

\* A mail that has a sender and no recipient without a name.
Addressed(m) == m.mail_from # NULL /\ \A i \in 1..Len(m.rcpt_to) : m.rcpt_to[i] # NULL

\* The mail of a connection that has sent none, that is sending one, that has sent one.
Fresh(m) ==
    /\ m.mail_from = NULL /\ m.rcpt_to = <<>> /\ m.mail_body_name = NULL /\ ~m.mail_body_dir /\ ~m.result_json
    /\ ~m.starttls /\ m.data_store_flag # "START" /\ ~m.data_seen /\ ~m.bdat_seen /\ ~m.dot_seen

\* The one mail of a plain connection while it is being sent.
Unsent(m, cl, d) ==
    /\ Addressed(m) /\ cl.mail # 0 /\ d # {} /\ ~m.starttls /\ ~m.dot_seen /\ ~m.bdat_seen /\ ~m.result_json
    /\ \/ /\ cl.at \in {"mail", "rcpt", "data"} /\ cl.segment = 0
          /\ m.data_store_flag # "START" /\ m.mail_body_name = NULL /\ ~m.mail_body_dir
          /\ cl.at # "mail" => m.rcpt_to # <<>>
          /\ cl.at = "data" => m.data_seen
       \/ /\ cl.at = "body" /\ m.rcpt_to # <<>> /\ m.data_store_flag = "START" /\ ~NoName(m)
          /\ Len(files[m.mail_body_name]) = cl.segment /\ cl.segment < Segments

\* The same mail when its end has been seen.
Ended(m, cl, d) ==
    /\ Addressed(m) /\ m.rcpt_to # <<>> /\ cl.mail # 0 /\ d # {} /\ ~m.starttls /\ m.dot_seen /\ ~NoName(m)
    /\ m.data_store_flag # "START" /\ Len(files[m.mail_body_name]) = Segments

\* One worker, and only one, works on the mail of bucket b.
HeldOnce(b) == \E w \in Workers :
    /\ worker[w].bucket = b /\ worker[w].mail = 1
    /\ worker[w].at = "parse" => ~chain[b][1].result_json
    /\ \A v \in Workers : worker[v].bucket = b => v = w

\* The session of a plain connection: before its mail, during it, and until a worker has
\* dropped it, which no more than one worker holds.
PlainSession(c, b) ==
    /\ Len(chain[b]) = 1
    /\ \/ client[c].at \in Quiet /\ Fresh(chain[b][1]) /\ ~Held(b) /\ ~InRing(c)
       \/ Unsent(chain[b][1], client[c], did[c]) /\ ~Held(b) /\ ~InRing(c)
       \/ /\ client[c].at \in Quiet /\ Ended(chain[b][1], client[c], did[c])
          /\ \/ InRing(c) /\ ~Held(b) /\ ~chain[b][1].result_json
             \/ ~InRing(c) /\ HeldOnce(b)

\* The JSON of a whole mail.
Complete(j) == Len(j.body) = Segments /\ j.alone /\ j.env.from # NULL /\ j.env.to # {}

\* No worker ever gets a session that has gone over to TLS.
TlsIn(b) == \A i \in 1..Len(chain[b]) :
    chain[b][i].starttls => Len(chain[b]) = 1 /\ ~chain[b][i].dot_seen /\ ~Held(b)

\* In a bucket of a plain connection is its session.
PlainIn(b) == Plain(table.key[b]) => PlainSession(table.key[b], b)

\* A connection without a session.
Away(c) == Plain(c) /\ (\A b \in DOMAIN chain : table.key[b] # c) => client[c].at \in Quiet /\ ~InRing(c)

\* What holds of plain connections, whatever the other connections do.
PlainInv == Calm =>
    /\ \A w \in Workers : worker[w].at # "idle" => worker[w].bucket \in DOMAIN chain
    /\ \A b \in DOMAIN chain : TlsIn(b) /\ PlainIn(b)
    /\ \A c \in Keys : Away(c) /\ (Plain(c) => RingOnce(c))
    /\ \A j \in posted : Plain(j.key) => Complete(j)
    /\ \A w \in Workers : worker[w].at = "extract" /\ Plain(worker[w].json.key) => Complete(worker[w].json)

\* A connection put into the ring is in it, and the others as before.
LEMMA RingAppended ==
    ASSUME SessionInv, NEW c \in Keys, ring' = Append(ring, c)
    PROVE  /\ \A k : k # c => (InRing(k)' <=> InRing(k)) /\ (RingOnce(k) => RingOnce(k)')
           /\ InRing(c)' /\ (~InRing(c) => RingOnce(c)')
<1>1. ring \in Seq(Keys)
  BY DEF SessionInv
<1>2. /\ Len(ring') = Len(ring) + 1 /\ ring'[Len(ring) + 1] = c /\ Len(ring) \in Nat
      /\ \A x \in 1..Len(ring) : ring'[x] = ring[x]
  BY <1>1
<1>3. PICK n \in Nat : n = Len(ring) /\ Len(ring') = n + 1
  BY <1>2
<1>4. ASSUME NEW k, k # c PROVE (InRing(k)' <=> InRing(k)) /\ (RingOnce(k) => RingOnce(k)')
  <2>1. \A x \in 1..(n + 1) : ring'[x] = k => x \in 1..n
    BY <1>2, <1>3, <1>4
  <2>2. \A x \in 1..n : x \in 1..(n + 1) /\ ring'[x] = ring[x]
    BY <1>2, <1>3
  <2> QED
    BY <1>3, <2>1, <2>2 DEF InRing, RingOnce
<1>5. InRing(c)'
  <2>1. n + 1 \in 1..(n + 1)
    OBVIOUS
  <2> QED
    BY <1>2, <1>3, <2>1 DEF InRing
<1>6. ASSUME ~InRing(c) PROVE RingOnce(c)'
  <2>1. \A x \in 1..(n + 1) : ring'[x] = c => x = n + 1
    BY <1>2, <1>3, <1>6 DEF InRing
  <2> QED
    BY <1>3, <2>1 DEF RingOnce
<1> QED
  BY <1>4, <1>5, <1>6

\* A connection taken from the ring was at its head.
LEMMA RingTaken ==
    ASSUME SessionInv, ring # <<>>, ring' = Tail(ring), NEW h, h = Head(ring)
    PROVE  /\ h \in Keys /\ InRing(h)
           /\ \A k : RingOnce(k) => RingOnce(k)'
           /\ \A k : k # h => (InRing(k)' <=> InRing(k))
           /\ RingOnce(h) => ~InRing(h)'
<1>1. ring \in Seq(Keys)
  BY DEF SessionInv
<1>2. PICK n \in Nat : Len(ring) = n + 1
  <2>1. Len(ring) \in Nat \ {0}
    BY <1>1
  <2>2. Len(ring) - 1 \in Nat /\ Len(ring) = (Len(ring) - 1) + 1
    BY <2>1
  <2> QED
    BY <2>2
<1>4. \A x \in 1..n : x + 1 \in 1..(n + 1) /\ x + 1 # 1
  OBVIOUS
<1>5. \A x \in 1..(n + 1) : x = 1 \/ (x - 1 \in 1..n /\ x = (x - 1) + 1)
  OBVIOUS
<1>6. h = ring[1] /\ 1 \in 1..(n + 1) /\ h \in Keys
  BY <1>1, <1>2
<1>7. Len(ring') = n /\ \A x \in 1..n : ring'[x] = ring[x + 1]
  BY <1>1, <1>2
<1>8. ASSUME NEW k, RingOnce(k) PROVE RingOnce(k)'
  <2>1. SUFFICES ASSUME NEW x \in 1..n, NEW y \in 1..n, ring'[x] = k, ring'[y] = k PROVE x = y
    BY <1>7 DEF RingOnce
  <2>2. ring[x + 1] = k /\ ring[y + 1] = k /\ x + 1 \in 1..(n + 1) /\ y + 1 \in 1..(n + 1)
    BY <1>4, <1>7, <2>1
  <2>3. x + 1 = y + 1
    BY <1>2, <1>8, <2>2 DEF RingOnce
  <2> QED
    BY <2>3
<1>9. ASSUME NEW k, k # h PROVE InRing(k)' <=> InRing(k)
  <2>1. ASSUME InRing(k) PROVE InRing(k)'
    <3>1. PICK x \in 1..(n + 1) : ring[x] = k
      BY <1>2, <2>1 DEF InRing
    <3>2. x - 1 \in 1..n /\ x = (x - 1) + 1
      BY <1>5, <1>6, <1>9, <3>1
    <3>3. ring'[x - 1] = k
      BY <1>7, <3>1, <3>2
    <3> QED
      BY <1>7, <3>2, <3>3 DEF InRing
  <2>2. ASSUME InRing(k)' PROVE InRing(k)
    <3>1. PICK x \in 1..n : ring'[x] = k
      BY <1>7, <2>2 DEF InRing
    <3>2. ring[x + 1] = k /\ x + 1 \in 1..(n + 1)
      BY <1>4, <1>7, <3>1
    <3> QED
      BY <1>2, <3>2 DEF InRing
  <2> QED
    BY <2>1, <2>2
<1>10. ASSUME RingOnce(h), InRing(h)' PROVE FALSE
  <2>1. PICK x \in 1..n : ring'[x] = ring[1]
    BY <1>6, <1>7, <1>10 DEF InRing
  <2>2. ring[x + 1] = ring[1] /\ x + 1 \in 1..(n + 1) /\ x + 1 # 1
    BY <1>4, <1>7, <2>1
  <2> QED
    BY <1>2, <1>6, <1>10, <2>2 DEF RingOnce
<1>11. InRing(h)
  BY <1>2, <1>6 DEF InRing
<1> QED
  BY <1>6, <1>8, <1>9, <1>10, <1>11

\* A connection that is plain now always was.
LEMMA PlainMore ==
    ASSUME \A k \in Keys : did[k] \subseteq did'[k], failed => failed'
    PROVE  (\A c \in Keys : Plain(c)' => Plain(c)) /\ (Calm' => Calm)
<1>1. \A k \in Keys : "shared" \notin did'[k] => "shared" \notin did[k]
  OBVIOUS
<1>2. ASSUME NEW c \in Keys, Plain(c)' PROVE Plain(c)
  <2>1. /\ did'[c] \cap {"mails", "RSET", "BDAT", "STARTTLS", "refused"} = {} /\ ~failed'
        /\ \A k \in Keys : "shared" \notin did'[k]
    BY <1>2 DEF Plain
  <2>2. did[c] \cap {"mails", "RSET", "BDAT", "STARTTLS", "refused"} = {}
    BY <2>1
  <2> QED
    BY <1>1, <2>1, <2>2 DEF Plain
<1> QED
  BY <1>1, <1>2 DEF Calm

\* The workers that have bucket a still have it, and go on.
SameWork(a) == \A v \in Workers :
    /\ worker'[v].bucket = a <=> worker[v].bucket = a
    /\ worker[v].bucket = a
          => worker'[v].mail = worker[v].mail /\ (worker'[v].at = "parse" => worker[v].at = "parse")

\* A session that a step leaves alone.
LEMMA PlainKept ==
    ASSUME SessionInv, NamesApart, NEW a \in DOMAIN chain, TlsIn(a), PlainIn(a), chain'[a] = chain[a],
           table'.key[a] = table.key[a], client'[table.key[a]] = client[table.key[a]],
           did'[table.key[a]] = did[table.key[a]], SameWork(a),
           InRing(table.key[a])' <=> InRing(table.key[a]), Plain(table.key[a])' => Plain(table.key[a]),
           \A i \in 1..Len(chain[a]) :
              chain[a][i].mail_body_name # NULL
                 => files'[chain[a][i].mail_body_name] = files[chain[a][i].mail_body_name]
    PROVE  TlsIn(a)' /\ PlainIn(a)'
<1>1. PICK c : c = table.key[a]
  OBVIOUS
<1>2. Held(a)' <=> Held(a)
  BY DEF Held, SameWork
<1>3. TlsIn(a)'
  BY <1>2 DEF TlsIn
<1>4. SUFFICES ASSUME PlainSession(c, a), InRing(c)' <=> InRing(c) PROVE PlainSession(c, a)'
  BY <1>1, <1>3 DEF PlainIn
<1>5. HeldOnce(a) => HeldOnce(a)'
  BY DEF HeldOnce, SameWork
<1>6. PICK m, cl, d : m = chain[a][1] /\ cl = client[c] /\ d = did[c]
  OBVIOUS
<1>7. Len(chain[a]) = 1 /\ m \in Mail
  BY <1>4, <1>6, MailsAre DEF PlainSession
<1>8. ~NoName(m) => files'[m.mail_body_name] = files[m.mail_body_name]
  BY <1>6, <1>7 DEF NoName
<1>9. Unsent(m, cl, d) => Unsent(m, cl, d)'
  BY <1>8 DEF Unsent, NoName
<1>10. Ended(m, cl, d) => Ended(m, cl, d)'
  BY <1>8 DEF Ended, NoName
<1>11. chain'[a][1] = m /\ client'[c] = cl /\ did'[c] = d /\ Len(chain'[a]) = 1
  BY <1>1, <1>6, <1>7
<1> QED
  BY <1>2, <1>4, <1>5, <1>6, <1>9, <1>10, <1>11 DEF PlainSession

\* What a connection with one mail never does.
Plainly(d) == d \cap {"mails", "RSET", "BDAT", "STARTTLS", "refused"} = {}

\* What a client says that sends one mail and no command beside.
PlainTalk(p, cl, d, cl2, d2) ==
    /\ p.verb \notin {"RSET", "BDAT", "BDAT LAST", "STARTTLS", "5xx"} /\ Plainly(d)
    /\ p.verb = "MAIL" => cl.mail = 0 /\ cl.at = "ready" /\ "mail" \in d2
    /\ p.verb \in {"QUIT", "221"} => cl.at \in Quiet /\ cl2.at \in Quiet /\ cl2.mail = cl.mail /\ d2 = d
    /\ p.verb \in {"RCPT", "DATA", "354", "segment", "chunk"} => cl.at \notin Quiet /\ d \subseteq d2

\* A client that stays plain says only that.
LEMMA SpokenPlainly ==
    ASSUME NEW p, NEW cl, NEW d, NEW cl2, NEW d2, Spoken(p, cl, d, cl2, d2), Plainly(d2)
    PROVE  PlainTalk(p, cl, d, cl2, d2)
<1>1. d \subseteq d2
  BY DEF Spoken
<1>2. p.verb \notin {"RSET", "BDAT", "BDAT LAST", "STARTTLS", "5xx"}
  BY DEF Spoken, Plainly
<1>3. p.verb = "MAIL" => cl.mail = 0 /\ cl.at = "ready" /\ "mail" \in d2
  BY DEF Spoken, Plainly
<1>4. p.verb \in {"QUIT", "221"} => cl.at \in Quiet /\ cl2.at \in Quiet /\ cl2.mail = cl.mail /\ d2 = d
  BY DEF Spoken, Quiet, Same
<1>5. p.verb \in {"RCPT", "DATA", "354", "segment", "chunk"} => cl.at \notin Quiet
  BY DEF Spoken, Quiet
<1> QED
  BY <1>1, <1>2, <1>3, <1>4, <1>5 DEF Plainly, PlainTalk

\* The blocks of a mail that more recipients or the name of a file are added to.
LEMMA BlocksBy ==
    ASSUME NEW m \in Mail, NEW m2 \in Mail, m2.mail_from = m.mail_from, m2.result_json = m.result_json,
           NEW r \in Nat, Len(m2.rcpt_to) = Len(m.rcpt_to) + r,
           NEW x \in 0..1, One(m2.mail_body_name # NULL) = One(m.mail_body_name # NULL) + x,
           One(m2.mail_body_dir) = One(m.mail_body_dir) + x
    PROVE  BlocksOfMail(m2) = BlocksOfMail(m) + 2 * r + 2 * x
<1>1. PICK f, e, d, j \in 0..1, L \in Nat :
          /\ L = Len(m.rcpt_to) /\ f = One(m.mail_from # NULL) /\ e = One(m.mail_body_name # NULL)
          /\ d = One(m.mail_body_dir) /\ j = One(m.result_json)
          /\ BlocksOfMail(m) = 1 + f + 2 * L + e + d + j
  BY BlocksAre
<1>2. PICK f2, n2, d2, j2 \in 0..1, L2 \in Nat :
          /\ L2 = Len(m2.rcpt_to) /\ f2 = One(m2.mail_from # NULL) /\ n2 = One(m2.mail_body_name # NULL)
          /\ d2 = One(m2.mail_body_dir) /\ j2 = One(m2.result_json)
          /\ BlocksOfMail(m2) = 1 + f2 + 2 * L2 + n2 + d2 + j2
  BY BlocksAre
<1>3. f2 = f /\ n2 = e + x /\ d2 = d + x /\ j2 = j /\ L2 = L + r
  BY <1>1, <1>2
<1>4. BlocksOfMail(m) = 1 + f + 2 * L + e + d + j /\ BlocksOfMail(m2) = 1 + f2 + 2 * L2 + n2 + d2 + j2
  BY <1>1, <1>2
<1> QED
  BY <1>3, <1>4

\* A mail that keeps envelope, name and JSON keeps its blocks.
LEMMA BlocksSame ==
    ASSUME NEW m \in Mail, NEW m2 \in Mail, NEW k, k = 0, SameEnvelope(m, m2), SameName(m, m2),
           m2.result_json = m.result_json
    PROVE  BlocksOfMail(m2) = BlocksOfMail(m) + k
<1>1. BlocksOfMail(m2) = BlocksOfMail(m)
  BY DEF BlocksOfMail, SameEnvelope, SameName
<1>2. PICK x \in Nat : x = BlocksOfMail(m)
  BY BlocksNat
<1> QED
  BY <1>1, <1>2

\* Mail m has become mail m2, with k blocks more.
Takes(m, m2, k) == BlocksOfMail(m2) = BlocksOfMail(m) + k

\* A packet changes the mail of a plain connection.
LEMMA FreshChange ==
    ASSUME NEW c, NEW p, NEW m \in Mail, NEW m2 \in Mail, NEW k, Fields(c, p, m, m2, k), p.mail \in Nat,
           NEW cl, NEW d, NEW cl2, NEW d2, Spoken(p, cl, d, cl2, d2), Plainly(d2), failed' # TRUE,
           Fresh(m), cl.at \in Quiet
    PROVE  /\ UNCHANGED <<files, ring>>
           /\ (Fresh(m2) /\ cl2.at \in Quiet) \/ Unsent(m2, cl2, d2)'
           /\ Takes(m, m2, k)
<1>1. /\ p.verb \notin {"RSET", "BDAT", "BDAT LAST", "STARTTLS", "5xx", "RCPT", "DATA", "354", "segment", "chunk"}
      /\ p.verb = "MAIL" => cl.mail = 0 /\ cl.at = "ready" /\ "mail" \in d2
      /\ p.verb \in {"QUIT", "221"} => cl2.at \in Quiet
  <2>1. PlainTalk(p, cl, d, cl2, d2)
    BY SpokenPlainly
  <2> QED
    BY <2>1 DEF PlainTalk
<1>2. CASE p.verb \in {"QUIT", "221"}
  <2>1. /\ m2.starttls = m.starttls /\ SameEnvelope(m, m2) /\ SameName(m, m2) /\ SameFlags(m, m2) /\ k = 0
        /\ SameEnd(m, m2) /\ m2.data_seen = m.data_seen /\ UNCHANGED <<files, ring>>
    BY <1>2 DEF Fields, Fresh
  <2>2. Takes(m, m2, k)
    BY <2>1, BlocksSame DEF SameEnd, Takes
  <2>3. Fresh(m2)
    BY <2>1 DEF Fresh, SameEnvelope, SameName, SameFlags, SameEnd
  <2> QED
    BY <1>1, <1>2, <2>1, <2>2, <2>3
<1>3. CASE p.verb = "MAIL"
  <2>1. /\ m.mail_from = NULL /\ m2.mail_from = p.mail /\ m2.rcpt_to = m.rcpt_to /\ SameName(m, m2) /\ k = 1
        /\ SameFlags(m, m2) /\ SameEnd(m, m2) /\ UNCHANGED <<files, ring>> /\ ~m2.starttls
    BY <1>3 DEF Fields, Fresh
  <2>2. cl2.at = "mail" /\ cl2.mail = p.mail /\ cl2.segment = 0 /\ p.mail # 0 /\ "mail" \in d2
    BY <1>1, <1>3 DEF Spoken
  <2>3. Addressed(m2)
    BY <2>1, <2>2 DEF Addressed, Fresh, NULL
  <2>4. Unsent(m2, cl2, d2)'
    BY <2>1, <2>2, <2>3 DEF Unsent, Fresh, SameName, SameFlags, SameEnd
  <2>5. BlocksOfMail(m2) = BlocksOfMail(m) + 1
    BY <2>1, <2>2 DEF BlocksOfMail, SameName, SameEnd, One, Fresh, NULL
  <2> QED
    BY <2>1, <2>4, <2>5 DEF Takes
<1> QED
  BY <1>1, <1>2, <1>3 DEF Spoken

\* A packet of a plain client changes its mail as it should, or ends it.
LEMMA UnsentChange ==
    ASSUME SessionInv, NEW c, NEW p, NEW m \in Mail, NEW m2 \in Mail, NEW k, Fields(c, p, m, m2, k), p.mail \in Nat,
           NEW cl \in Clients, NEW d, NEW cl2, NEW d2, Spoken(p, cl, d, cl2, d2), Plainly(d2), failed' # TRUE,
           Unsent(m, cl, d), p.end \in BOOLEAN, m.mail_body_name # NULL => m.mail_body_name \in 1..Len(files)
    PROVE  /\ \/ Unsent(m2, cl2, d2)' /\ UNCHANGED ring
              \/ /\ Ended(m2, cl2, d2)' /\ cl2.at \in Quiet /\ ring' = Append(ring, c) /\ ~m2.result_json
           /\ Takes(m, m2, k)
<1>1. /\ p.verb \notin {"RSET", "BDAT", "BDAT LAST", "STARTTLS", "5xx", "MAIL", "QUIT", "221"}
      /\ d \subseteq d2 /\ d2 # {} /\ ~m.starttls /\ ~m.bdat_seen
  <2>1. PlainTalk(p, cl, d, cl2, d2)
    BY SpokenPlainly
  <2>2. cl.at \in {"mail", "rcpt", "data", "body"} /\ d # {} /\ ~m.starttls /\ ~m.bdat_seen
    BY DEF Unsent
  <2>3. d \subseteq d2
    BY DEF Spoken
  <2> QED
    BY <2>1, <2>2, <2>3 DEF Quiet, PlainTalk
<1>2. CASE p.verb = "RCPT"
  <2>1. /\ cl.at \in {"mail", "rcpt"} /\ p.mail = cl.mail /\ cl2.at = "rcpt" /\ cl2.mail = cl.mail
        /\ cl2.segment = cl.segment
    BY <1>2 DEF Spoken, Same
  <2>2. m.data_store_flag # "START"
    BY <2>1 DEF Unsent
  <2>3. /\ ~m2.starttls /\ m2.mail_from = m.mail_from /\ SameName(m, m2) /\ SameFlags(m, m2) /\ SameEnd(m, m2)
        /\ k = 2 /\ UNCHANGED <<files, ring>> /\ m2.rcpt_to = WithRcpt(m, p)
    BY <1>2, <2>2 DEF Fields
  <2>4. PICK r \in Seq(Nat) : r = m.rcpt_to
    BY DEF Mail
  <2>5. /\ Len(Append(r, p.mail)) = Len(r) + 1 /\ Append(r, p.mail) # <<>> /\ Len(r) \in Nat
        /\ \A i \in 1..Len(Append(r, p.mail)) : Append(r, p.mail)[i] = p.mail \/ (i \in 1..Len(r) /\ Append(r, p.mail)[i] = r[i])
    OBVIOUS
  <2>6. Addressed(m2) /\ m2.rcpt_to # <<>>
    BY <2>1, <2>3, <2>4, <2>5 DEF Addressed, Unsent, WithRcpt, NULL
  <2>7. Unsent(m2, cl2, d2)'
    BY <1>1, <2>1, <2>3, <2>6 DEF Unsent, SameName, SameFlags, SameEnd
  <2>8. m2.rcpt_to = Append(r, p.mail)
    BY <2>3, <2>4 DEF WithRcpt
  <2>9. Len(m2.rcpt_to) = Len(m.rcpt_to) + 1 /\ Len(m.rcpt_to) \in Nat
    BY <2>4, <2>5, <2>8
  <2>10. BlocksOfMail(m2) = BlocksOfMail(m) + 2
    <3>1. One(m2.mail_body_name # NULL) \in Int /\ One(m2.mail_body_dir) \in Int
      BY DEF One
    <3>2. /\ m2.mail_from = m.mail_from /\ m2.result_json = m.result_json /\ Len(m2.rcpt_to) = Len(m.rcpt_to) + 1
          /\ One(m2.mail_body_name # NULL) = One(m.mail_body_name # NULL) + 0
          /\ One(m2.mail_body_dir) = One(m.mail_body_dir) + 0
      BY <2>3, <2>9, <3>1 DEF SameName, SameEnd
    <3>3. BlocksOfMail(m2) = BlocksOfMail(m) + 2 * 1 + 2 * 0
      BY <3>2, BlocksBy
    <3>4. BlocksOfMail(m) \in Nat
      BY BlocksNat
    <3> QED
      BY <3>3, <3>4
  <2> QED
    BY <2>3, <2>7, <2>10 DEF Takes
<1>3. CASE p.verb = "DATA"
  <2>1. cl.at = "rcpt" /\ cl2.at = "data" /\ cl2.mail = cl.mail /\ cl2.segment = cl.segment
    BY <1>3 DEF Spoken, Same
  <2>2. m.data_store_flag # "START"
    BY <2>1 DEF Unsent
  <2>3. /\ ~m2.starttls /\ SameEnvelope(m, m2) /\ SameName(m, m2) /\ m2.data_store_flag = m.data_store_flag /\ ~m2.bdat_seen
        /\ SameEnd(m, m2) /\ m2.data_seen /\ UNCHANGED <<files, ring>> /\ k = 0
    BY <1>3, <2>2 DEF Fields
  <2>4. Addressed(m2) /\ m2.rcpt_to = m.rcpt_to
    BY <2>3 DEF Addressed, Unsent, SameEnvelope
  <2>5. Unsent(m2, cl2, d2)'
    BY <1>1, <2>1, <2>3, <2>4 DEF Unsent, SameName, SameEnd
  <2>6. Takes(m, m2, k)
    BY <2>3, BlocksSame DEF SameEnd, Takes
  <2> QED
    BY <1>1, <2>3, <2>5, <2>6
<1>4. CASE p.verb = "354"
  <2>1. cl.at = "data" /\ cl2.at = "body" /\ cl2.mail = cl.mail /\ cl2.segment = cl.segment
    BY <1>4 DEF Spoken, Same
  <2>2. /\ ~m2.starttls /\ files' = Append(files, <<>>) /\ SameEnvelope(m, m2) /\ m2.data_store_flag = "START"
        /\ m2.bdat_seen = m.bdat_seen /\ SameEnd(m, m2) /\ UNCHANGED ring
        /\ m2.mail_body_name = Len(files) + 1 /\ m2.mail_body_dir /\ k = 2
    BY <1>4 DEF Fields
  <2>3. files'[Len(files) + 1] = <<>> /\ Len(files) \in Nat
    BY <2>2, FileAdded
  <2>4. Addressed(m2) /\ m2.rcpt_to = m.rcpt_to /\ m2.rcpt_to # <<>> /\ cl2.segment = 0
    BY <2>1, <2>2 DEF Addressed, Unsent, SameEnvelope
  <2>5. ~NoName(m2) /\ Len(files'[m2.mail_body_name]) = 0 /\ 0 < Segments
    BY <2>2, <2>3, SmtpSessionAssumption DEF NoName, NULL
  <2>6. Unsent(m2, cl2, d2)'
    BY <1>1, <2>1, <2>2, <2>4, <2>5 DEF Unsent, SameEnd
  <2>7. m.mail_body_name = NULL /\ ~m.mail_body_dir
    BY <2>1 DEF Unsent
  <2>8. BlocksOfMail(m2) = BlocksOfMail(m) + 2
    <3>1. /\ m2.mail_from = m.mail_from /\ m2.result_json = m.result_json
          /\ Len(m2.rcpt_to) = Len(m.rcpt_to) + 0
      BY <2>2 DEF SameEnd, SameEnvelope, Mail
    <3>2. /\ One(m2.mail_body_name # NULL) = One(m.mail_body_name # NULL) + 1
          /\ One(m2.mail_body_dir) = One(m.mail_body_dir) + 1
      BY <2>2, <2>3, <2>7 DEF One, NULL
    <3>3. BlocksOfMail(m2) = BlocksOfMail(m) + 2 * 0 + 2 * 1
      BY <3>1, <3>2, BlocksBy
    <3>4. BlocksOfMail(m) \in Nat
      BY BlocksNat
    <3> QED
      BY <3>3, <3>4
  <2> QED
    BY <2>2, <2>6, <2>8 DEF Takes
<1>5. CASE p.verb = "segment"
  <2>1. /\ cl.at = "body" /\ cl2.at = (IF p.end THEN "ready" ELSE "body") /\ cl2.mail = cl.mail
        /\ cl2.segment = cl.segment + 1 /\ p.end = (cl.segment + 1 = Segments)
    BY <1>5 DEF Spoken, Further
  <2>2. /\ m.rcpt_to # <<>> /\ m.data_store_flag = "START" /\ ~NoName(m) /\ ~m.dot_seen /\ Addressed(m)
        /\ Len(files[m.mail_body_name]) = cl.segment /\ cl.segment < Segments /\ ~m.result_json /\ cl.mail # 0
    BY <2>1 DEF Unsent
  <2>3. /\ ~m2.starttls /\ ~m2.bdat_seen /\ SameEnvelope(m, m2) /\ SameName(m, m2) /\ k = 0
        /\ Files(p, m) /\ ring' = (IF p.end THEN Append(ring, c) ELSE ring)
        /\ m2.result_json = m.result_json /\ m2.dot_seen = (m.dot_seen \/ p.end)
        /\ m2.data_store_flag = (IF m2.dot_seen THEN "END" ELSE "START")
    BY <1>1, <1>5, <2>2 DEF Fields
  <2>4. p.token \in Tokens /\ m.mail_body_name \in 1..Len(files) /\ cl.segment \in Nat
    <3>1. p.token = <<"segment", cl.mail, cl.segment + 1>> /\ cl.mail \in Nat /\ cl.segment \in Nat
      BY <1>5 DEF Spoken, Clients
    <3> QED
      <4>1. <<"segment", cl.mail, cl.segment + 1>> \in Tokens
        <5>1. "segment" \in ClientVerbs \cup ServerVerbs /\ cl.segment + 1 \in Nat
          BY <3>1 DEF ClientVerbs
        <5> QED
          BY <3>1, <5>1, TokenIs
      <4> QED
        BY <2>2, <3>1, <4>1 DEF NoName
  <2>5. Len(files'[m.mail_body_name]) = cl.segment + 1
    BY <2>2, <2>3, <2>4, FileAppended DEF Files
  <2>6. Addressed(m2) /\ m2.rcpt_to = m.rcpt_to /\ ~NoName(m2) /\ m2.mail_body_name = m.mail_body_name
    BY <2>2, <2>3 DEF Addressed, SameEnvelope, SameName, NoName
  <2>9. Takes(m, m2, k)
    BY <2>3, BlocksSame DEF Takes
  <2>7. CASE p.end
    <3>1. Ended(m2, cl2, d2)'
      BY <1>1, <2>1, <2>2, <2>3, <2>5, <2>6, <2>7 DEF Ended
    <3> QED
      BY <2>1, <2>2, <2>3, <2>7, <2>9, <3>1 DEF Quiet
  <2>8. CASE ~p.end
    <3>1. cl.segment + 1 < Segments
      <4>1. Segments \in Nat
        BY SmtpSessionAssumption
      <4>2. cl.segment + 1 # Segments
        BY <2>1, <2>8
      <4>3. cl.segment < Segments /\ cl.segment \in Nat
        BY <2>2, <2>4
      <4> QED
        BY <4>1, <4>2, <4>3
    <3>2. Unsent(m2, cl2, d2)'
      BY <1>1, <2>1, <2>2, <2>3, <2>5, <2>6, <2>8, <3>1 DEF Unsent
    <3> QED
      BY <2>3, <2>8, <2>9, <3>2
  <2> QED
    BY <2>7, <2>8
<1>6. p.verb # "chunk"
  BY DEF Spoken, Unsent
<1> QED
  BY <1>1, <1>2, <1>3, <1>4, <1>5, <1>6 DEF Spoken

\* A packet that comes when the mail has ended leaves it alone.
LEMMA EndedChange ==
    ASSUME NEW c, NEW p, NEW m \in Mail, NEW m2 \in Mail, NEW k, Fields(c, p, m, m2, k),
           NEW cl, NEW d, NEW cl2, NEW d2, Spoken(p, cl, d, cl2, d2), Plainly(d2), failed' # TRUE,
           Ended(m, cl, d), cl.at \in Quiet
    PROVE  /\ UNCHANGED <<files, ring>> /\ SameEnd(m, m2)
           /\ Ended(m2, cl2, d2)' /\ cl2.at \in Quiet
           /\ Takes(m, m2, k)
<1>1. /\ p.verb \in {"QUIT", "221"} /\ cl2.at \in Quiet /\ cl2.mail = cl.mail /\ d2 = d
  <2>1. /\ p.verb \notin {"RSET", "BDAT", "BDAT LAST", "STARTTLS", "5xx", "RCPT", "DATA", "354", "segment", "chunk", "MAIL"}
        /\ p.verb \in {"QUIT", "221"} => cl2.at \in Quiet /\ cl2.mail = cl.mail /\ d2 = d
    <3>1. PlainTalk(p, cl, d, cl2, d2)
      BY SpokenPlainly
    <3> QED
      BY <3>1 DEF Ended, PlainTalk
  <2> QED
    BY <2>1 DEF Spoken
<1>2. /\ m2.starttls = m.starttls /\ SameEnvelope(m, m2) /\ SameName(m, m2) /\ SameFlags(m, m2) /\ k = 0
      /\ SameEnd(m, m2) /\ UNCHANGED <<files, ring>>
  BY <1>1 DEF Fields, Ended
<1>3. Takes(m, m2, k)
  BY <1>2, BlocksSame DEF SameEnd, Takes
<1>4. Addressed(m2) /\ m2.rcpt_to # <<>> /\ ~NoName(m2) /\ m2.mail_body_name = m.mail_body_name
  BY <1>2 DEF Ended, Addressed, NoName, SameEnvelope, SameName
<1>5. Ended(m2, cl2, d2)'
  BY <1>1, <1>2, <1>4 DEF Ended, SameFlags, SameEnd
<1> QED
  BY <1>1, <1>2, <1>3, <1>5

\* Workers that stay as they are hold what they held.
LEMMA SameWorkers == ASSUME UNCHANGED worker, NEW a PROVE SameWork(a) /\ (Held(a)' <=> Held(a))
BY DEF SameWork, Held

\* A packet of connection c leaves everything but the session of bucket b, the files it names, and c's
\* place in the ring alone.
Around(c, b, m) ==
    /\ DOMAIN chain' \subseteq DOMAIN chain
    /\ \A a \in DOMAIN chain : a # b => a \in DOMAIN chain' /\ chain'[a] = chain[a] /\ table'.key[a] = table.key[a]
    /\ \A f \in 1..Len(files) : f # m.mail_body_name \/ m.mail_body_name = NULL => files'[f] = files[f]
    /\ UNCHANGED ring \/ ring' = Append(ring, c)

\* A connection put into the ring leaves the others as they are.
LEMMA RingAround ==
    ASSUME SessionInv, NEW c \in Keys, UNCHANGED ring \/ ring' = Append(ring, c)
    PROVE  \A k : k # c => (InRing(k)' <=> InRing(k)) /\ (RingOnce(k) => RingOnce(k)')
<1>1. CASE UNCHANGED ring
  BY <1>1 DEF InRing, RingOnce
<1>2. CASE ring' = Append(ring, c)
  BY <1>2, RingAppended
<1> QED
  BY <1>1, <1>2

\* What is to be shown of a packet: only of the bucket it found.
LEMMA PlainAround ==
    ASSUME SessionInv, NamesApart, KeysInv, PlainInv, NEW c \in Keys, NEW p, NEW b, NEW i, NEW m, NEW cl, NEW d,
           Turn(c, p, b, i, m, cl, d), Calm, Calm', \A k \in Keys : Plain(k)' => Plain(k), Around(c, b, m),
           b \in DOMAIN chain' => table'.key[b] = c /\ TlsIn(b)' /\ (Plain(c)' => PlainSession(c, b)'),
           b \notin DOMAIN chain' => ~Held(b) /\ ~Plain(c)',
           Plain(c)' => RingOnce(c)'
    PROVE  PlainInv'
<1>1. /\ b \in DOMAIN chain /\ table.key[b] = c /\ i \in 1..Len(chain[b]) /\ m = chain[b][i]
      /\ \A k \in Keys : k # c => client'[k] = client[k] /\ did'[k] = did[k]
      /\ \A a \in DOMAIN chain : table.key[a] \in Keys /\ (a # b => table.key[a] # c)
      /\ UNCHANGED <<worker, posted>>
  BY TurnIs
<1>2. /\ \A w \in Workers : worker[w].at # "idle" => worker[w].bucket \in DOMAIN chain
      /\ \A a \in DOMAIN chain : TlsIn(a) /\ PlainIn(a)
      /\ \A k \in Keys : Away(k) /\ (Plain(k) => RingOnce(k))
      /\ \A j \in posted : Plain(j.key) => Complete(j)
      /\ \A w \in Workers : worker[w].at = "extract" /\ Plain(worker[w].json.key) => Complete(worker[w].json)
  BY DEF PlainInv
<1>3. /\ DOMAIN chain' \subseteq DOMAIN chain
      /\ \A a \in DOMAIN chain : a # b => a \in DOMAIN chain' /\ chain'[a] = chain[a] /\ table'.key[a] = table.key[a]
      /\ \A f \in 1..Len(files) : f # m.mail_body_name \/ m.mail_body_name = NULL => files'[f] = files[f]
      /\ UNCHANGED ring \/ ring' = Append(ring, c)
  BY DEF Around
<1>4. \A k : k # c => (InRing(k)' <=> InRing(k)) /\ (RingOnce(k) => RingOnce(k)')
  BY <1>3, RingAround
<1>5. \A w \in Workers : worker'[w].at # "idle" => worker'[w].bucket \in DOMAIN chain'
  BY <1>1, <1>2, <1>3 DEF Held
<1>6. ASSUME NEW a \in DOMAIN chain, a # b PROVE TlsIn(a)' /\ PlainIn(a)'
  <2>1. PICK k \in Keys : k = table.key[a] /\ k # c
    BY <1>1, <1>6
  <2>2. /\ chain'[a] = chain[a] /\ table'.key[a] = k /\ client'[k] = client[k] /\ did'[k] = did[k]
        /\ TlsIn(a) /\ PlainIn(a) /\ (InRing(k)' <=> InRing(k)) /\ (Plain(k)' => Plain(k))
    BY <1>1, <1>2, <1>3, <1>4, <1>6, <2>1
  <2>3. SameWork(a)
    BY <1>1, SameWorkers
  <2>4. ASSUME NEW j \in 1..Len(chain[a]), chain[a][j].mail_body_name # NULL
        PROVE  files'[chain[a][j].mail_body_name] = files[chain[a][j].mail_body_name]
    <3>1. chain[a][j].mail_body_name \in 1..Len(files)
      BY <2>4, NameIs
    <3>2. chain[a][j].mail_body_name # m.mail_body_name
      BY <1>1, <1>6, <2>4 DEF NamesApart
    <3> QED
      BY <1>3, <3>1, <3>2
  <2> QED
    BY <2>1, <2>2, <2>3, <2>4, PlainKept
<1>7. ASSUME NEW a \in DOMAIN chain' PROVE TlsIn(a)' /\ PlainIn(a)'
  BY <1>3, <1>6, <1>7 DEF PlainIn
<1>8. ASSUME NEW k \in Keys PROVE Away(k)' /\ (Plain(k)' => RingOnce(k)')
  <2>1. CASE k = c
    BY <1>1, <2>1 DEF Away
  <2>2. CASE k # c
    <3>1. Away(k)'
      BY <1>1, <1>2, <1>3, <1>4, <2>2 DEF Away
    <3> QED
      BY <1>2, <1>4, <2>2, <3>1
  <2> QED
    BY <2>1, <2>2
<1>9. \A j \in posted' : Plain(j.key)' => Complete(j)
  BY <1>1, <1>2 DEF KeysInv
<1>10. \A w \in Workers : worker'[w].at = "extract" /\ Plain(worker[w].json.key)' => Complete(worker'[w].json)
  <2>1. \A w \in Workers : worker[w].at = "extract" => worker[w].json.key \in Keys
    BY DEF KeysInv
  <2>2. SUFFICES ASSUME NEW w \in Workers, worker[w].at = "extract", NEW k, k = worker[w].json.key, Plain(k)'
                 PROVE  Complete(worker[w].json)
    BY <1>1
  <2> QED
    BY <1>2, <2>1, <2>2
<1> QED
  BY <1>5, <1>7, <1>8, <1>9, <1>10 DEF PlainInv, Complete

\* What a packet of a plain connection finds.
LEMMA PlainBefore ==
    ASSUME SessionInv, PlainInv, Calm, NEW c \in Keys, NEW p, NEW b, NEW i, NEW m, NEW cl, NEW d,
           Turn(c, p, b, i, m, cl, d), Plain(c)
    PROVE  /\ Len(chain[b]) = 1 /\ i = 1 /\ m = chain[b][1] /\ RingOnce(c)
           /\ \/ cl.at \in Quiet /\ Fresh(m) /\ ~Held(b) /\ ~InRing(c)
              \/ Unsent(m, cl, d) /\ ~Held(b) /\ ~InRing(c)
              \/ /\ cl.at \in Quiet /\ Ended(m, cl, d)
                 /\ \/ InRing(c) /\ ~Held(b) /\ ~m.result_json
                    \/ ~InRing(c) /\ HeldOnce(b)
<1>1. /\ b \in DOMAIN chain /\ table.key[b] = c /\ i \in 1..Len(chain[b]) /\ m = chain[b][i] /\ cl = client[c] /\ d = did[c]
  BY TurnIs
<1>2. PlainSession(c, b) /\ RingOnce(c)
  BY <1>1 DEF PlainInv, PlainIn
<1>3. Len(chain[b]) = 1
  BY <1>2 DEF PlainSession
<1>4. i = 1
  BY <1>1, <1>3
<1> QED
  BY <1>1, <1>2, <1>3, <1>4 DEF PlainSession

\* What it leaves.
LEMMA PlainAfter ==
    ASSUME NEW c \in Keys, NEW b, Len(chain'[b]) = 1, NEW m2, m2 = chain'[b][1], NEW cl2, cl2 = client'[c],
           NEW d2, d2 = did'[c], UNCHANGED worker,
           \/ cl2.at \in Quiet /\ Fresh(m2) /\ ~Held(b) /\ ~InRing(c)'
           \/ Unsent(m2, cl2, d2)' /\ ~Held(b) /\ ~InRing(c)'
           \/ /\ cl2.at \in Quiet /\ Ended(m2, cl2, d2)'
              /\ \/ InRing(c)' /\ ~Held(b) /\ ~m2.result_json
                 \/ /\ ~InRing(c)' /\ HeldOnce(b)
                    /\ chain[b][1].result_json = m2.result_json
    PROVE  PlainSession(c, b)'
<1>1. Held(b)' <=> Held(b)
  BY DEF Held
<1>2. chain[b][1].result_json = m2.result_json /\ HeldOnce(b) => HeldOnce(b)'
  BY DEF HeldOnce
<1> QED
  BY <1>1, <1>2 DEF PlainSession

\* A packet that changes a mail keeps plain sessions.
LEMMA PlainChanged ==
    ASSUME SessionInv, NamesApart, KeysInv, PlainInv, NEW c \in Keys, NEW p, NEW b, NEW i, NEW m, NEW cl, NEW d,
           Turn(c, p, b, i, m, cl, d), Calm, Calm', \A k \in Keys : Plain(k)' => Plain(k), Changed(c, p, b, i, m)
    PROVE  PlainInv'
<1>1. /\ b \in DOMAIN chain /\ b \in Buckets /\ table.key[b] = c /\ i \in 1..Len(chain[b]) /\ chain[b] \in Seq(Mail)
      /\ m = chain[b][i] /\ m \in Mail /\ cl = client[c] /\ cl \in Clients /\ d = did[c]
      /\ Spoken(p, cl, d, client'[c], did'[c]) /\ p.end \in BOOLEAN /\ p.mail \in Nat /\ UNCHANGED worker
  BY TurnIs
<1>2. PICK m2 \in Mail, k \in 0..2 :
         /\ Fields(c, p, m, m2, k) /\ Only(b) /\ Len(chain'[b]) = Len(chain[b]) /\ chain'[b][i] = m2
         /\ \A j \in 1..Len(chain[b]) : j # i => chain'[b][j] = chain[b][j]
  <2>1. m \in Mail /\ p.end \in BOOLEAN /\ Changed(c, p, b, i, m)
    BY <1>1
  <2>2. \E m2 \in Mail, k \in 0..2 :
          /\ Fields(c, p, m, m2, k) /\ Only(b) /\ Len(chain'[b]) = Len(chain[b]) /\ chain'[b][i] = m2
          /\ \A j \in 1..Len(chain[b]) : j # i => chain'[b][j] = chain[b][j]
          /\ chain'[b] = [chain[b] EXCEPT ![i] = m2] /\ Allocated(b, k) /\ UNCHANGED down
    BY <2>1, ChangedIs
  <2> QED
    BY <2>2
<1>3. PICK cl2, d2 : cl2 = client'[c] /\ d2 = did'[c]
  OBVIOUS
<1>4. Spoken(p, cl, d, cl2, d2) /\ failed' # TRUE
  BY <1>1, <1>3 DEF Calm
<1>5. UNCHANGED ring \/ ring' = Append(ring, c)
  BY <1>2 DEF Fields
<1>6. /\ DOMAIN chain' = DOMAIN chain /\ UNCHANGED table
      /\ \A a \in DOMAIN chain : a # b => chain'[a] = chain[a]
  BY <1>2 DEF Only
<1>7. \A f \in 1..Len(files) : f # m.mail_body_name \/ m.mail_body_name = NULL => files'[f] = files[f]
  BY <1>2, FilesElse
<1>8. Around(c, b, m)
  BY <1>5, <1>6, <1>7 DEF Around
<1>9. TlsIn(b) /\ PlainIn(b)
  BY <1>1 DEF PlainInv
<1>10. TlsIn(b)'
  <2>1. m2.starttls => SameEnd(m, m2) /\ (m.starttls \/ p.verb = "STARTTLS")
    BY <1>2 DEF Fields
  <2>2. ASSUME p.verb = "STARTTLS" PROVE Len(chain[b]) = 1 /\ ~m.dot_seen /\ ~Held(b)
    <3>1. d = {}
      BY <1>4, <2>2 DEF Spoken
    <3>2. Plain(c)
      BY <1>1, <3>1 DEF Plain, Calm
    <3>3. Len(chain[b]) = 1 /\ Fresh(m) /\ ~Held(b)
      BY <3>1, <3>2, PlainBefore DEF Unsent, Ended
    <3> QED
      BY <3>3 DEF Fresh
  <2>3. Held(b)' <=> Held(b)
    BY <1>1 DEF Held
  <2>4. SUFFICES ASSUME NEW j \in 1..Len(chain[b]), chain'[b][j].starttls
                 PROVE  Len(chain[b]) = 1 /\ ~chain'[b][j].dot_seen /\ ~Held(b)
    BY <1>2, <2>3 DEF TlsIn
  <2>5. CASE j # i
    BY <1>2, <1>9, <2>4, <2>5 DEF TlsIn
  <2>6. CASE j = i
    BY <1>1, <1>2, <1>9, <2>1, <2>2, <2>4, <2>6 DEF TlsIn, SameEnd
  <2> QED
    BY <2>5, <2>6
<1>11. ASSUME Plain(c)' PROVE PlainSession(c, b)' /\ RingOnce(c)'
  <2>1. Plain(c) /\ Plainly(d2)
    BY <1>3, <1>11 DEF Plain, Plainly
  <2>2. /\ Len(chain[b]) = 1 /\ i = 1 /\ m = chain[b][1] /\ RingOnce(c)
        /\ \/ cl.at \in Quiet /\ Fresh(m) /\ ~Held(b) /\ ~InRing(c)
           \/ Unsent(m, cl, d) /\ ~Held(b) /\ ~InRing(c)
           \/ /\ cl.at \in Quiet /\ Ended(m, cl, d)
              /\ \/ InRing(c) /\ ~Held(b) /\ ~m.result_json
                 \/ ~InRing(c) /\ HeldOnce(b)
    BY <2>1, PlainBefore
  <2>3. Len(chain'[b]) = 1 /\ m2 = chain'[b][1]
    BY <1>2, <2>2
  <2>4. UNCHANGED ring => (InRing(c)' <=> InRing(c)) /\ (RingOnce(c)' <=> RingOnce(c))
    BY DEF InRing, RingOnce
  <2>5. CASE cl.at \in Quiet /\ Fresh(m) /\ ~Held(b) /\ ~InRing(c)
    <3>1. UNCHANGED ring /\ ((Fresh(m2) /\ cl2.at \in Quiet) \/ Unsent(m2, cl2, d2)')
      BY <1>1, <1>2, <1>4, <2>1, <2>5, FreshChange
    <3> QED
      BY <1>1, <1>3, <2>2, <2>3, <2>4, <2>5, <3>1, PlainAfter
  <2>6. CASE Unsent(m, cl, d) /\ ~Held(b) /\ ~InRing(c)
    <3>1. m.mail_body_name # NULL => m.mail_body_name \in 1..Len(files)
      BY <1>1, NameIs
    <3>2. \/ Unsent(m2, cl2, d2)' /\ UNCHANGED ring
          \/ /\ Ended(m2, cl2, d2)' /\ cl2.at \in Quiet /\ ring' = Append(ring, c) /\ ~m2.result_json
      BY <1>1, <1>2, <1>4, <2>1, <2>6, <3>1, UnsentChange
    <3>3. ring' = Append(ring, c) => InRing(c)' /\ RingOnce(c)'
      BY <2>6, RingAppended
    <3> QED
      BY <1>1, <1>3, <2>2, <2>3, <2>4, <2>6, <3>2, <3>3, PlainAfter
  <2>7. CASE /\ cl.at \in Quiet /\ Ended(m, cl, d)
             /\ \/ InRing(c) /\ ~Held(b) /\ ~m.result_json
                \/ ~InRing(c) /\ HeldOnce(b)
    <3>2. Ended(m, cl, d) /\ cl.at \in Quiet /\ m \in Mail /\ m2 \in Mail
      BY <1>1, <1>2, <2>7
    <3>3. Fields(c, p, m, m2, k) /\ Spoken(p, cl, d, cl2, d2) /\ Plainly(d2) /\ failed' # TRUE
      BY <1>2, <1>4, <2>1
    <3>4. UNCHANGED <<files, ring>> /\ SameEnd(m, m2) /\ Ended(m2, cl2, d2)' /\ cl2.at \in Quiet
      BY <3>2, <3>3, EndedChange
    <3>1. UNCHANGED ring /\ m2.result_json = m.result_json /\ Ended(m2, cl2, d2)' /\ cl2.at \in Quiet
      BY <3>4 DEF SameEnd
    <3> QED
      BY <1>1, <1>3, <2>2, <2>3, <2>4, <2>7, <3>1, PlainAfter
  <2> QED
    BY <2>2, <2>5, <2>6, <2>7
<1> QED
  BY <1>1, <1>6, <1>8, <1>10, <1>11, PlainAround

\* A packet that a plain connection does not send, or that finds it as it is.
LEMMA PlainUnheard ==
    ASSUME NEW p, NEW m, NEW cl, NEW d, NEW cl2, NEW d2, Spoken(p, cl, d, cl2, d2), Plainly(d2),
           (cl.at \in Quiet /\ (Fresh(m) \/ Ended(m, cl, d))) \/ Unsent(m, cl, d), failed' # TRUE,
           NEW b, NEW i, i = 1, Len(chain[b]) = 1, m = chain[b][1], Ignored(b, i, m, p), UNCHANGED files
    PROVE  /\ cl.at \in Quiet /\ cl2.at \in Quiet
           /\ Fresh(m) \/ Ended(m, cl2, d2)'
<1>1. PlainTalk(p, cl, d, cl2, d2)
  BY SpokenPlainly
<1>2. ~m.starttls /\ p.verb \notin {"RSET", "5xx"}
  BY <1>1 DEF Fresh, Unsent, Ended, PlainTalk
<1>3. p.verb # "segment" /\ p.verb # "354" /\ p.verb # "MAIL" /\ p.verb # "RCPT" /\ p.verb # "chunk"
  <2>1. CASE p.verb = "segment"
    <3>1. cl.at = "body"
      BY <2>1 DEF Spoken
    <3>2. Unsent(m, cl, d) /\ m.data_store_flag = "START"
      BY <3>1 DEF Unsent, Quiet
    <3> QED
      BY <1>2, <2>1, <3>2 DEF Ignored
  <2>2. CASE p.verb = "354"
    <3>1. cl.at = "data"
      BY <2>2 DEF Spoken
    <3>2. Unsent(m, cl, d) /\ m.data_seen
      BY <3>1 DEF Unsent, Quiet
    <3> QED
      BY <1>2, <2>2, <3>2 DEF Ignored
  <2>3. CASE p.verb = "MAIL"
    <3>1. \E j \in i..Len(chain[b]) : chain[b][j].mail_from = NULL /\ m.mail_from # NULL
      BY <1>2, <2>3 DEF Ignored
    <3>2. \A j \in i..Len(chain[b]) : j = 1
      OBVIOUS
    <3> QED
      BY <3>1, <3>2
  <2>4. CASE p.verb = "RCPT"
    BY <1>2, <2>4 DEF Ignored
  <2>5. CASE p.verb = "chunk"
    <3>1. cl.at \in {"chunk", "last chunk"}
      BY <2>5 DEF Spoken
    <3> QED
      BY <3>1 DEF Unsent, Quiet
  <2> QED
    BY <2>1, <2>2, <2>3, <2>4, <2>5
<1>4. p.verb \in {"QUIT", "221"}
  BY <1>2, <1>3 DEF Ignored
<1>5. cl.at \in Quiet /\ cl2.at \in Quiet /\ cl2.mail = cl.mail /\ d2 = d
  BY <1>1, <1>4 DEF PlainTalk
<1>6. ~Unsent(m, cl, d)
  BY <1>5 DEF Unsent, Quiet
<1>7. Ended(m, cl, d) => Ended(m, cl2, d2)'
  BY <1>5 DEF Ended
<1> QED
  BY <1>5, <1>6, <1>7

\* What a packet of a plain connection cannot do.
LEMMA PlainNever ==
    ASSUME NEW p, NEW m, NEW cl, NEW d, NEW cl2, NEW d2, Spoken(p, cl, d, cl2, d2), Plainly(d2),
           (cl.at \in Quiet /\ (Fresh(m) \/ Ended(m, cl, d))) \/ Unsent(m, cl, d), failed' # TRUE, NEW b, NEW i
    PROVE  ~Added(b, m, p) /\ ~Reset(b, i, m, p) /\ ~Closed(b, m, p) /\ ~Fallen(m, p)
<1>1. PlainTalk(p, cl, d, cl2, d2)
  BY SpokenPlainly
<1>2. ~m.starttls
  BY DEF Fresh, Unsent, Ended
<1>3. ASSUME Added(b, m, p) PROVE FALSE
  <2>1. p.verb = "MAIL" /\ m.mail_from # NULL
    BY <1>3 DEF Added
  <2>2. cl.mail = 0 /\ cl.at = "ready"
    BY <1>1, <2>1 DEF PlainTalk
  <2> QED
    BY <2>1, <2>2 DEF Fresh, Unsent, Ended
<1>4. ~Reset(b, i, m, p)
  BY <1>1 DEF Reset, PlainTalk
<1>5. ~Closed(b, m, p)
  BY <1>2 DEF Closed
<1>6. ~Fallen(m, p)
  <2>1. m.data_store_flag = "START" => ~NoName(m)
    BY DEF Fresh, Unsent, Ended
  <2> QED
    BY <2>1 DEF Fallen
<1> QED
  BY <1>3, <1>4, <1>5, <1>6

\* Every packet does, and does not bring the server down.
LEMMA PlainTurn ==
    ASSUME SessionInv, NamesApart, KeysInv, PlainInv, NEW c \in Keys, NEW p, NEW b, NEW i, NEW m, NEW cl, NEW d,
           Turn(c, p, b, i, m, cl, d)
    PROVE  PlainInv' /\ (Calm' /\ Plain(c)' => UNCHANGED down)
<1>1. /\ b \in DOMAIN chain /\ b \in Buckets /\ table.key[b] = c /\ i \in 1..Len(chain[b]) /\ chain[b] \in Seq(Mail)
      /\ m = chain[b][i] /\ m \in Mail /\ cl = client[c] /\ cl \in Clients /\ d = did[c] /\ Len(chain[b]) \in Nat
      /\ Spoken(p, cl, d, client'[c], did'[c]) /\ p.end \in BOOLEAN /\ p.mail \in Nat /\ UNCHANGED worker
      /\ \A k \in Keys : did[k] \subseteq did'[k]
  BY TurnIs
<1>2. failed => failed'
  BY FailureTurns
<1>3. (\A k \in Keys : Plain(k)' => Plain(k)) /\ (Calm' => Calm)
  BY <1>1, <1>2, PlainMore
<1>4. SUFFICES ASSUME Calm' PROVE PlainInv' /\ (Plain(c)' => UNCHANGED down)
  BY DEF PlainInv
<1>5. Calm /\ failed' # TRUE /\ \A k \in Keys : Plain(k)' => Plain(k)
  BY <1>3, <1>4 DEF Calm
<1>6. PICK cl2, d2 : cl2 = client'[c] /\ d2 = did'[c] /\ Spoken(p, cl, d, cl2, d2)
  BY <1>1
<1>7. ASSUME Plain(c)'
      PROVE  /\ Len(chain[b]) = 1 /\ i = 1 /\ m = chain[b][1] /\ RingOnce(c) /\ Plainly(d2)
             /\ \/ cl.at \in Quiet /\ Fresh(m) /\ ~Held(b) /\ ~InRing(c)
                \/ Unsent(m, cl, d) /\ ~Held(b) /\ ~InRing(c)
                \/ /\ cl.at \in Quiet /\ Ended(m, cl, d)
                   /\ \/ InRing(c) /\ ~Held(b) /\ ~m.result_json
                      \/ ~InRing(c) /\ HeldOnce(b)
  <2>1. Plain(c) /\ Plainly(d2)
    BY <1>5, <1>6, <1>7 DEF Plain, Plainly
  <2>2. /\ Len(chain[b]) = 1 /\ i = 1 /\ m = chain[b][1] /\ RingOnce(c)
        /\ \/ cl.at \in Quiet /\ Fresh(m) /\ ~Held(b) /\ ~InRing(c)
           \/ Unsent(m, cl, d) /\ ~Held(b) /\ ~InRing(c)
           \/ /\ cl.at \in Quiet /\ Ended(m, cl, d)
              /\ \/ InRing(c) /\ ~Held(b) /\ ~m.result_json
                 \/ ~InRing(c) /\ HeldOnce(b)
    BY <1>5, <2>1, PlainBefore
  <2> QED
    BY <2>1, <2>2
<1>8. Plain(c)' => ~Added(b, m, p) /\ ~Reset(b, i, m, p) /\ ~Closed(b, m, p) /\ ~Fallen(m, p)
  <2>1. SUFFICES ASSUME Plain(c)'
                 PROVE  ~Added(b, m, p) /\ ~Reset(b, i, m, p) /\ ~Closed(b, m, p) /\ ~Fallen(m, p)
    OBVIOUS
  <2>2. Plainly(d2) /\ ((cl.at \in Quiet /\ (Fresh(m) \/ Ended(m, cl, d))) \/ Unsent(m, cl, d))
    BY <1>7, <2>1
  <2> QED
    BY <1>5, <1>6, <2>2, PlainNever
<1>9. TlsIn(b) /\ (Held(b)' <=> Held(b))
  BY <1>1, <1>5 DEF PlainInv, Held
\* The table, the files and the ring are as they were.
<1>10. ASSUME UNCHANGED <<table, files, ring>>, DOMAIN chain' = DOMAIN chain,
              \A a \in DOMAIN chain : a # b => chain'[a] = chain[a],
              TlsIn(b)', Plain(c)' => PlainSession(c, b)'
       PROVE  PlainInv'
  <2>1. Around(c, b, m)
    BY <1>10 DEF Around
  <2>2. Plain(c)' => RingOnce(c)'
    BY <1>7, <1>10 DEF RingOnce
  <2> QED
    BY <1>1, <1>4, <1>5, <1>10, <2>1, <2>2, PlainAround
<1>11. CASE Changed(c, p, b, i, m)
  <2>1. PlainInv'
    BY <1>4, <1>5, <1>11, PlainChanged
  <2>2. UNCHANGED down
    BY <1>11 DEF Changed
  <2> QED
    BY <2>1, <2>2
<1>12. CASE Unheard(b, i, m, p)
  <2>1. Ignored(b, i, m, p) /\ UNCHANGED <<table, chain, files, ring, down>>
    BY <1>12 DEF Unheard
  <2>2. TlsIn(b)'
    BY <1>9, <2>1 DEF TlsIn
  <2>3. ASSUME Plain(c)' PROVE PlainSession(c, b)'
    <3>1. /\ Len(chain[b]) = 1 /\ i = 1 /\ m = chain[b][1] /\ Plainly(d2)
          /\ \/ cl.at \in Quiet /\ Fresh(m) /\ ~Held(b) /\ ~InRing(c)
             \/ Unsent(m, cl, d) /\ ~Held(b) /\ ~InRing(c)
             \/ /\ cl.at \in Quiet /\ Ended(m, cl, d)
                /\ \/ InRing(c) /\ ~Held(b) /\ ~m.result_json
                   \/ ~InRing(c) /\ HeldOnce(b)
      BY <1>7, <2>3
    <3>2. (cl.at \in Quiet /\ (Fresh(m) \/ Ended(m, cl, d))) \/ Unsent(m, cl, d)
      BY <3>1
    <3>3. cl.at \in Quiet /\ cl2.at \in Quiet /\ (Fresh(m) \/ Ended(m, cl2, d2)')
      BY <1>5, <1>6, <2>1, <3>1, <3>2, PlainUnheard
    <3>4. ~Unsent(m, cl, d)
      BY <3>3 DEF Unsent, Quiet
    <3>5. Fresh(m) => ~Ended(m, cl, d)
      BY DEF Fresh, Ended
    <3>6. Ended(m, cl2, d2)' => ~Fresh(m)
      BY DEF Fresh, Ended
    <3>7. InRing(c)' <=> InRing(c)
      BY <2>1 DEF InRing
    <3>8. Len(chain'[b]) = 1 /\ m = chain'[b][1]
      BY <2>1, <3>1
    <3> QED
      BY <1>1, <1>6, <3>1, <3>3, <3>4, <3>5, <3>6, <3>7, <3>8, PlainAfter
  <2>4. PlainInv'
    BY <1>10, <2>1, <2>2, <2>3
  <2> QED
    BY <2>1, <2>4
<1>13. CASE Added(b, m, p)
  <2>1. ~m.starttls /\ UNCHANGED <<table, files, ring, down>> /\ Only(b)
    BY <1>13 DEF Added, Only
  <2>2. PICK m2 \in Mail :
           /\ m2 = [NewMail EXCEPT !.mail_from = p.mail]
           /\ Len(chain'[b]) = Len(chain[b]) + 1 /\ chain'[b][Len(chain[b]) + 1] = m2
           /\ \A j \in 1..Len(chain[b]) : chain'[b][j] = chain[b][j]
    BY <1>13 DEF Added
  <2>3. ~m2.starttls
    BY <2>2 DEF NewMail
  <2>4. \A j \in 1..Len(chain[b]) : ~chain[b][j].starttls
    <3>1. ASSUME NEW j \in 1..Len(chain[b]), chain[b][j].starttls PROVE FALSE
      <4>1. Len(chain[b]) = 1
        BY <1>9, <3>1 DEF TlsIn
      <4>2. j = i
        BY <1>1, <3>1, <4>1
      <4> QED
        BY <1>1, <2>1, <3>1, <4>2
    <3> QED
      BY <3>1
  <2>5. \A j \in 1..Len(chain'[b]) : ~chain'[b][j].starttls
    <3>1. PICK n \in Nat : n = Len(chain[b])
      BY <1>1
    <3>2. SUFFICES ASSUME NEW j \in 1..(n + 1) PROVE ~chain'[b][j].starttls
      BY <2>2, <3>1
    <3>3. j \in 1..n \/ j = n + 1
      BY <3>2
    <3> QED
      BY <2>2, <2>3, <2>4, <3>1, <3>3
  <2>6. TlsIn(b)'
    BY <2>5 DEF TlsIn
  <2>7. PlainInv'
    BY <1>8, <1>10, <1>13, <2>1, <2>6 DEF Only
  <2> QED
    BY <2>1, <2>7
<1>14. CASE Reset(b, i, m, p)
  <2>1. ~m.starttls /\ UNCHANGED <<table, files, ring, down>> /\ Only(b)
    BY <1>14 DEF Reset, Only
  <2>2. /\ Len(chain'[b]) = i /\ chain'[b][i] = NewMail
        /\ \A j \in 1..(i - 1) : chain'[b][j] = chain[b][j]
    BY <1>14 DEF Reset
  <2>3. ~NewMail.starttls
    BY DEF NewMail
  <2>4. \A j \in 1..(i - 1) : ~chain'[b][j].starttls
    <3>1. ASSUME NEW j \in 1..(i - 1), chain[b][j].starttls PROVE FALSE
      <4>1. j \in 1..Len(chain[b])
        BY <1>1, <3>1
      <4>2. Len(chain[b]) = 1
        BY <1>9, <3>1, <4>1 DEF TlsIn
      <4> QED
        BY <1>1, <3>1, <4>2
    <3> QED
      BY <2>2, <3>1
  <2>5. \A j \in 1..Len(chain'[b]) : ~chain'[b][j].starttls
    <3>1. \A j \in 1..i : j \in 1..(i - 1) \/ j = i
      BY <1>1
    <3> QED
      BY <2>2, <2>3, <2>4, <3>1
  <2>6. TlsIn(b)'
    BY <2>5 DEF TlsIn
  <2>7. PlainInv'
    BY <1>8, <1>10, <1>14, <2>1, <2>6 DEF Only
  <2> QED
    BY <2>1, <2>7
<1>15. CASE Closed(b, m, p)
  <2>1. /\ m.starttls /\ UNCHANGED <<files, ring, failed, down>> /\ DOMAIN chain' = DOMAIN chain \ {b}
        /\ \A a \in DOMAIN chain' : chain'[a] = chain[a] /\ table'.key[a] = table.key[a]
    BY <1>15 DEF Closed, Left
  <2>2. ~Held(b)
    BY <1>1, <1>9, <2>1 DEF TlsIn
  <2>3. Around(c, b, m)
    BY <2>1 DEF Around
  <2>4. PlainInv'
    BY <1>4, <1>5, <1>8, <1>15, <2>1, <2>2, <2>3, PlainAround
  <2> QED
    BY <2>1, <2>4
<1>16. CASE Fallen(m, p)
  <2>1. UNCHANGED <<table, chain, files, ring, blocks>>
    BY <1>16 DEF Fallen
  <2>2. TlsIn(b)'
    BY <1>9, <2>1 DEF TlsIn
  <2> QED
    BY <1>8, <1>10, <1>16, <2>1, <2>2
<1> QED
  BY <1>11, <1>12, <1>13, <1>14, <1>15, <1>16 DEF Turn

\* What PlainInv says, in parts.
LEMMA PlainSays ==
    ASSUME PlainInv, Calm
    PROVE  /\ \A w \in Workers : worker[w].at # "idle" => worker[w].bucket \in DOMAIN chain
           /\ \A a \in DOMAIN chain : TlsIn(a) /\ PlainIn(a)
           /\ \A k \in Keys : Away(k) /\ (Plain(k) => RingOnce(k))
           /\ \A j \in posted : Plain(j.key) => Complete(j)
           /\ \A w \in Workers : worker[w].at = "extract" /\ Plain(worker[w].json.key) => Complete(worker[w].json)
BY DEF PlainInv

\* A worker that has no bucket that is there has none.
LEMMA IdleHolds ==
    ASSUME SessionInv, NEW w \in Workers, NEW a \in DOMAIN chain, worker[w].at = "idle" PROVE worker[w].bucket # a
<1>1. a \in Buckets /\ worker[w].bucket = NULL
  BY DEF SessionInv, ChainInv, WorkerInv
<1> QED
  BY <1>1 DEF Buckets, NULL

\* So does a new connection.
LEMMA PlainCome ==
    ASSUME SessionInv, NamesApart, KeysInv, PlainInv, NEW c \in Keys, NEW b, Came(c, b)
    PROVE  PlainInv'
<1>1. /\ b \in Buckets /\ b \notin DOMAIN chain /\ \A a \in DOMAIN chain : table.key[a] \in Keys \ {c}
      /\ DOMAIN chain' = DOMAIN chain \cup {b} /\ chain'[b] = <<NewMail>> /\ table'.key[b] = c
      /\ \A a \in DOMAIN chain : a # b /\ chain'[a] = chain[a] /\ table'.key[a] = table.key[a]
      /\ IF client[c].at \in {"ready", "quit"} THEN UNCHANGED did ELSE Did(c, "torn")
      /\ UNCHANGED <<scene, client, files, ring, worker, posted, failed, down>>
  BY DEF Came
<1>2. \A k \in Keys : did[k] \subseteq did'[k] /\ (k # c => did'[k] = did[k])
  BY <1>1 DEF Did, SessionInv
<1>3. (\A k \in Keys : Plain(k)' => Plain(k)) /\ (Calm' => Calm)
  BY <1>1, <1>2, PlainMore
<1>4. SUFFICES ASSUME Calm' PROVE PlainInv'
  BY DEF PlainInv
<1>5. /\ \A w \in Workers : worker[w].at # "idle" => worker[w].bucket \in DOMAIN chain
      /\ \A a \in DOMAIN chain : TlsIn(a) /\ PlainIn(a)
      /\ \A k \in Keys : Away(k) /\ (Plain(k) => RingOnce(k))
      /\ \A j \in posted : Plain(j.key) => Complete(j)
      /\ \A w \in Workers : worker[w].at = "extract" /\ Plain(worker[w].json.key) => Complete(worker[w].json)
  BY <1>3, <1>4, PlainSays
<1>6. \A k : (InRing(k)' <=> InRing(k)) /\ (RingOnce(k)' <=> RingOnce(k))
  BY <1>1 DEF InRing, RingOnce
<1>7. ASSUME NEW a \in DOMAIN chain PROVE TlsIn(a)' /\ PlainIn(a)'
  <2>1. /\ table.key[a] \in Keys /\ table.key[a] # c /\ did'[table.key[a]] = did[table.key[a]]
        /\ chain'[a] = chain[a] /\ table'.key[a] = table.key[a] /\ TlsIn(a) /\ PlainIn(a)
        /\ client'[table.key[a]] = client[table.key[a]] /\ (Plain(table.key[a])' => Plain(table.key[a]))
        /\ (InRing(table.key[a])' <=> InRing(table.key[a]))
    BY <1>1, <1>2, <1>3, <1>5, <1>6
  <2>2. SameWork(a) /\ UNCHANGED files
    BY <1>1, SameWorkers
  <2> QED
    BY <2>1, <2>2, PlainKept
<1>8. TlsIn(b)' /\ PlainIn(b)'
  <2>1. Len(chain'[b]) = 1 /\ chain'[b][1] = NewMail
    BY <1>1
  <2>2. ~Held(b)'
    <3>1. NULL # b
      BY <1>1 DEF Buckets, NULL
    <3>2. \A w \in Workers : worker[w].at = "idle" => worker[w].bucket = NULL
      BY DEF SessionInv, WorkerInv
    <3> QED
      BY <1>1, <1>5, <3>1, <3>2 DEF Held
  <2>3. ~NewMail.starttls /\ Fresh(NewMail)
    BY DEF NewMail, Fresh, NULL
  <2>4. ASSUME Plain(c)' PROVE PlainSession(c, b)'
    <3>1. client[c].at \in Quiet /\ ~InRing(c)
      BY <1>1, <1>3, <1>5, <2>4 DEF Away
    <3> QED
      BY <1>1, <1>6, <2>1, <2>2, <2>3, <3>1 DEF PlainSession
  <2>5. \A j \in 1..Len(chain'[b]) : ~chain'[b][j].starttls
    BY <2>1, <2>3
  <2> QED
    BY <1>1, <2>4, <2>5 DEF TlsIn, PlainIn
<1>9. ASSUME NEW k \in Keys PROVE Away(k)' /\ (Plain(k)' => RingOnce(k)')
  <2>1. CASE k = c
    BY <1>1, <1>3, <1>5, <1>6, <2>1 DEF Away
  <2>2. CASE k # c
    <3>1. (\A a \in DOMAIN chain' : table'.key[a] # k) => \A a \in DOMAIN chain : table.key[a] # k
      BY <1>1
    <3> QED
      BY <1>1, <1>3, <1>5, <1>6, <2>2, <3>1 DEF Away
  <2> QED
    BY <2>1, <2>2
<1>10. \A j \in posted' : Plain(j.key)' => Complete(j)
  BY <1>1, <1>3, <1>5 DEF KeysInv
<1>11. \A w \in Workers : worker'[w].at = "extract" /\ Plain(worker[w].json.key)' => Complete(worker'[w].json)
  <2>1. \A w \in Workers : worker[w].at = "extract" => worker[w].json.key \in Keys
    BY DEF KeysInv
  <2>2. SUFFICES ASSUME NEW w \in Workers, worker[w].at = "extract", NEW k, k = worker[w].json.key, Plain(k)'
                 PROVE  Complete(worker[w].json)
    BY <1>1
  <2> QED
    BY <1>3, <1>5, <2>1, <2>2
<1>12. \A w \in Workers : worker'[w].at # "idle" => worker'[w].bucket \in DOMAIN chain'
  BY <1>1, <1>5
<1>13. \A a \in DOMAIN chain' : TlsIn(a)' /\ PlainIn(a)'
  <2>1. ASSUME NEW a \in DOMAIN chain' PROVE TlsIn(a)' /\ PlainIn(a)'
    BY <1>1, <1>7, <1>8, <2>1 DEF PlainIn
  <2> QED
    BY <2>1
<1> QED
  BY <1>1, <1>9, <1>10, <1>11, <1>12, <1>13 DEF PlainInv, Complete

\* A worker's mail, on a plain connection.
LEMMA PlainHeld ==
    ASSUME SessionInv, PlainInv, Calm, NEW w \in Workers, NEW b \in DOMAIN chain, worker[w].bucket = b,
           Plain(table.key[b])
    PROVE  /\ Len(chain[b]) = 1 /\ worker[w].mail = 1 /\ client[table.key[b]].at \in Quiet
           /\ Ended(chain[b][1], client[table.key[b]], did[table.key[b]]) /\ ~InRing(table.key[b])
           /\ \A v \in Workers : worker[v].bucket = b => v = w
           /\ worker[w].at = "parse" => ~chain[b][1].result_json
<1>1. Held(b) /\ PlainSession(table.key[b], b)
  BY PlainSays DEF Held, PlainIn
<1>2. /\ Len(chain[b]) = 1 /\ client[table.key[b]].at \in Quiet /\ ~InRing(table.key[b]) /\ HeldOnce(b)
      /\ Ended(chain[b][1], client[table.key[b]], did[table.key[b]])
  BY <1>1 DEF PlainSession
<1>3. PICK v \in Workers :
         /\ worker[v].bucket = b /\ worker[v].mail = 1 /\ (worker[v].at = "parse" => ~chain[b][1].result_json)
         /\ \A u \in Workers : worker[u].bucket = b => u = v
  BY <1>2 DEF HeldOnce
<1>4. w = v
  BY <1>3
<1> QED
  BY <1>2, <1>3, <1>4

\* What a step of a worker leaves alone.
LEMMA PlainApart ==
    ASSUME SessionInv, NamesApart, PlainInv, Calm, UNCHANGED <<files, client, did>>, NEW a \in DOMAIN chain,
           \A k \in Keys : Plain(k)' => Plain(k), chain'[a] = chain[a], table'.key[a] = table.key[a], SameWork(a),
           (InRing(table.key[a])' <=> InRing(table.key[a])) \/ ~Plain(table.key[a])'
    PROVE  TlsIn(a)' /\ PlainIn(a)'
<1>1. table.key[a] \in Keys
  BY DEF SessionInv, TableInv, TableOK, In
<1>2. TlsIn(a) /\ PlainIn(a)
  BY PlainSays
<1>3. CASE InRing(table.key[a])' <=> InRing(table.key[a])
  BY <1>1, <1>2, <1>3, PlainKept
<1>4. CASE ~Plain(table.key[a])'
  <2>1. Held(a)' <=> Held(a)
    BY DEF Held, SameWork
  <2> QED
    BY <1>2, <1>4, <2>1 DEF TlsIn, PlainIn
<1> QED
  BY <1>3, <1>4

\* The parts of PlainInv after a step of a worker.
LEMMA PlainParts ==
    ASSUME KeysInv', PlainInv, Calm, \A k \in Keys : Plain(k)' => Plain(k),
           \A v \in Workers : worker'[v].at # "idle" => worker'[v].bucket \in DOMAIN chain',
           \A a \in DOMAIN chain' : TlsIn(a)' /\ PlainIn(a)',
           \A k \in Keys : Away(k)' /\ (Plain(k)' => RingOnce(k)'),
           \A j \in posted' : j \in posted \/ (Plain(j.key)' => Complete(j)),
           \A v \in Workers : \A j : worker'[v].at = "extract" /\ j = worker'[v].json =>
              (worker[v].at = "extract" /\ worker[v].json = j) \/ (Plain(j.key)' => Complete(j))
    PROVE  PlainInv'
<1>1. /\ \A j \in posted : Plain(j.key) => Complete(j)
      /\ \A w \in Workers : worker[w].at = "extract" /\ Plain(worker[w].json.key) => Complete(worker[w].json)
  BY PlainSays
<1>2. /\ \A j \in posted' : j.key \in Keys
      /\ \A v \in Workers : worker'[v].at = "extract" => worker'[v].json.key \in Keys
  BY DEF KeysInv
<1>3. \A j \in posted' : Plain(j.key)' => Complete(j)
  BY <1>1, <1>2
<1>4. ASSUME NEW v \in Workers, worker'[v].at = "extract", NEW j, j = worker'[v].json, Plain(j.key)' PROVE Complete(j)
  <2>1. j.key \in Keys
    BY <1>2, <1>4
  <2>2. Plain(j.key)
    BY <1>4, <2>1
  <2>3. (worker[v].at = "extract" /\ worker[v].json = j) \/ (Plain(j.key)' => Complete(j))
    BY <1>4
  <2>4. CASE worker[v].at = "extract" /\ worker[v].json = j
    BY <1>1, <2>2, <2>4
  <2> QED
    BY <1>4, <2>3, <2>4
<1>5. (\A v \in Workers : worker[v].at = "extract" /\ Plain(worker[v].json.key) => Complete(worker[v].json))'
  BY <1>4
<1> QED
  BY <1>3, <1>5 DEF PlainInv, Complete

\* A worker that takes a session from the ring is the only one to hold it.
LEMMA PlainTaken ==
    ASSUME SessionInv, NamesApart, KeysInv', PlainInv, Calm, Calm', \A k \in Keys : Plain(k)' => Plain(k),
           NEW w \in Workers, NEW b, Taken(w, b)
    PROVE  PlainInv'
<1>1. /\ b \in DOMAIN chain /\ table.key[b] = Head(ring) /\ chain[b][1].dot_seen /\ worker[w].at = "idle"
      /\ worker'[w] = [at |-> "parse", bucket |-> b, mail |-> Len(chain[b])]
      /\ \A v \in Workers : v # w => worker'[v] = worker[v]
      /\ ring # <<>> /\ ring' = Tail(ring)
      /\ UNCHANGED <<scene, client, table, chain, files, posted, blocks, failed, down, did>>
  BY DEF Taken
<1>2. PICK h \in Keys : h = table.key[b] /\ h = Head(ring)
  BY <1>1, RingTaken
<1>3. /\ InRing(h)
      /\ \A k : RingOnce(k) => RingOnce(k)'
      /\ \A k : k # h => (InRing(k)' <=> InRing(k))
      /\ RingOnce(h) => ~InRing(h)'
  BY <1>1, <1>2, RingTaken
<1>4. /\ \A v \in Workers : worker[v].at # "idle" => worker[v].bucket \in DOMAIN chain
      /\ \A a \in DOMAIN chain : TlsIn(a) /\ PlainIn(a)
      /\ \A k \in Keys : Away(k) /\ (Plain(k) => RingOnce(k))
  BY PlainSays
<1>5. \A a, e \in DOMAIN chain : table.key[a] = table.key[e] => a = e
  BY DEF SessionInv, TableInv
<1>6. worker'[w].at = "parse" /\ worker'[w].bucket = b /\ worker'[w].mail = Len(chain[b])
  BY <1>1
<1>7. ASSUME NEW a \in DOMAIN chain, a # b PROVE TlsIn(a)' /\ PlainIn(a)'
  <2>1. SameWork(a)
    BY <1>1, <1>6, <1>7, IdleHolds DEF SameWork
  <2>2. table.key[a] # h /\ chain'[a] = chain[a] /\ table'.key[a] = table.key[a]
    BY <1>1, <1>2, <1>5, <1>7
  <2>3. InRing(table.key[a])' <=> InRing(table.key[a])
    BY <1>1, <1>3, <2>2
  <2> QED
    BY <1>1, <2>1, <2>2, <2>3, PlainApart
<1>8. TlsIn(b)' /\ PlainIn(b)'
  <2>1. \A j \in 1..Len(chain[b]) : ~chain[b][j].starttls
    <3>1. ASSUME NEW j \in 1..Len(chain[b]), chain[b][j].starttls PROVE FALSE
      <4>1. Len(chain[b]) = 1 /\ ~chain[b][j].dot_seen
        BY <1>1, <1>4, <3>1 DEF TlsIn
      <4>2. j = 1
        BY <3>1, <4>1
      <4> QED
        BY <1>1, <4>1, <4>2
    <3> QED
      BY <3>1
  <2>2. TlsIn(b)'
    BY <1>1, <2>1 DEF TlsIn
  <2>3. ASSUME Plain(h)' PROVE PlainSession(h, b)'
    <3>1. PlainSession(h, b) /\ RingOnce(h)
      BY <1>1, <1>2, <1>4, <2>3 DEF PlainIn
    <3>2. /\ Len(chain[b]) = 1 /\ client[h].at \in Quiet /\ Ended(chain[b][1], client[h], did[h])
          /\ ~Held(b) /\ ~chain[b][1].result_json
      BY <1>1, <1>3, <3>1 DEF PlainSession, Fresh, Unsent
    <3>3. HeldOnce(b)'
      BY <1>1, <1>6, <3>2 DEF HeldOnce, Held
    <3>4. Ended(chain[b][1], client[h], did[h])' /\ ~InRing(h)'
      BY <1>1, <1>3, <3>1, <3>2 DEF Ended, NoName, Addressed
    <3> QED
      BY <1>1, <3>2, <3>3, <3>4 DEF PlainSession
  <2> QED
    BY <1>1, <1>2, <2>2, <2>3 DEF PlainIn
<1>9. ASSUME NEW k \in Keys PROVE Away(k)' /\ (Plain(k)' => RingOnce(k)')
  <2>1. CASE k = h
    BY <1>1, <1>2, <1>3, <1>4, <2>1 DEF Away
  <2>2. CASE k # h
    BY <1>1, <1>3, <1>4, <2>2 DEF Away
  <2> QED
    BY <2>1, <2>2
<1>10. \A v \in Workers : worker'[v].at # "idle" => worker'[v].bucket \in DOMAIN chain'
  BY <1>1, <1>4, <1>6
<1>11. \A a \in DOMAIN chain' : TlsIn(a)' /\ PlainIn(a)'
  <2>1. ASSUME NEW a \in DOMAIN chain PROVE TlsIn(a)' /\ PlainIn(a)'
    BY <1>7, <1>8, <2>1
  <2> QED
    BY <1>1, <2>1
<1>12. \A v \in Workers : \A j : worker'[v].at = "extract" /\ j = worker'[v].json =>
              (worker[v].at = "extract" /\ worker[v].json = j) \/ (Plain(j.key)' => Complete(j))
  BY <1>1, <1>6
<1> QED
  BY <1>1, <1>9, <1>10, <1>11, <1>12, PlainParts

\* A worker that misses does so at no plain session.
LEMMA PlainMissed ==
    ASSUME SessionInv, NamesApart, KeysInv', PlainInv, Calm, Calm', \A k \in Keys : Plain(k)' => Plain(k),
           NEW w \in Workers, Missed(w)
    PROVE  PlainInv'
<1>1. /\ ring # <<>> /\ ring' = Tail(ring)
      /\ \A b \in DOMAIN chain : table.key[b] = Head(ring) => ~chain[b][1].dot_seen
      /\ UNCHANGED <<scene, client, table, chain, files, posted, blocks, failed, down, did, worker>>
  BY DEF Missed
<1>2. PICK h \in Keys : h = Head(ring)
  BY <1>1, RingTaken
<1>3. /\ InRing(h)
      /\ \A k : RingOnce(k) => RingOnce(k)'
      /\ \A k : k # h => (InRing(k)' <=> InRing(k))
  BY <1>1, <1>2, RingTaken
<1>4. /\ \A v \in Workers : worker[v].at # "idle" => worker[v].bucket \in DOMAIN chain
      /\ \A a \in DOMAIN chain : TlsIn(a) /\ PlainIn(a)
      /\ \A k \in Keys : Away(k) /\ (Plain(k) => RingOnce(k))
  BY PlainSays
<1>5. ~Plain(h)
  <2>1. SUFFICES ASSUME Plain(h) PROVE FALSE
    OBVIOUS
  <2>2. PICK b \in DOMAIN chain : table.key[b] = h
    BY <1>3, <1>4, <2>1 DEF Away
  <2>3. PlainSession(h, b)
    BY <1>4, <2>1, <2>2 DEF PlainIn
  <2>4. chain[b][1].dot_seen
    BY <1>3, <2>3 DEF PlainSession, Ended
  <2> QED
    BY <1>1, <1>2, <2>2, <2>4
<1>6. \A a \in DOMAIN chain : TlsIn(a)' /\ PlainIn(a)'
  <2>1. ASSUME NEW a \in DOMAIN chain PROVE TlsIn(a)' /\ PlainIn(a)'
    <3>1. SameWork(a)
      BY <1>1, SameWorkers
    <3>2. (InRing(table.key[a])' <=> InRing(table.key[a])) \/ ~Plain(table.key[a])'
      <4>1. PICK k : k = table.key[a] /\ k = table'.key[a]
        BY <1>1
      <4>2. (InRing(k)' <=> InRing(k)) \/ ~Plain(k)'
        BY <1>2, <1>3, <1>5
      <4> QED
        BY <4>1, <4>2
    <3> QED
      BY <1>1, <3>1, <3>2, PlainApart
  <2> QED
    BY <2>1
<1>7. ASSUME NEW k \in Keys PROVE Away(k)' /\ (Plain(k)' => RingOnce(k)')
  <2>1. CASE k = h
    BY <1>2, <1>5, <2>1 DEF Away
  <2>2. CASE k # h
    BY <1>1, <1>3, <1>4, <2>2 DEF Away
  <2> QED
    BY <2>1, <2>2
<1> QED
  BY <1>1, <1>4, <1>6, <1>7, PlainParts

\* A worker that falls has a session that is not plain.
LEMMA PlainFallen ==
    ASSUME SessionInv, NamesApart, KeysInv', PlainInv, Calm, Calm', \A k \in Keys : Plain(k)' => Plain(k),
           NEW w \in Workers, WorkerFallen(w)
    PROVE  PlainInv' /\ (\E k \in Keys : ~Plain(k)')
<1>1. /\ worker[w].at # "idle"
      /\ \/ worker[w].bucket \notin DOMAIN chain
         \/ /\ worker[w].at = "parse"
            /\ worker[w].mail \in DOMAIN chain[worker[w].bucket] => NoName(chain[worker[w].bucket][worker[w].mail])
      /\ \/ UNCHANGED worker
         \/ /\ worker'[w] = [at |-> "idle", bucket |-> NULL, mail |-> 0]
            /\ \A v \in Workers : v # w => worker'[v] = worker[v]
      /\ UNCHANGED <<scene, client, table, chain, files, ring, posted, blocks, failed, did>>
  BY DEF WorkerFallen
<1>2. /\ \A v \in Workers : worker[v].at # "idle" => worker[v].bucket \in DOMAIN chain
      /\ \A a \in DOMAIN chain : TlsIn(a) /\ PlainIn(a)
      /\ \A k \in Keys : Away(k) /\ (Plain(k) => RingOnce(k))
  BY PlainSays
<1>3. PICK b \in DOMAIN chain : b = worker[w].bucket
  BY <1>1, <1>2
<1>4. table.key[b] \in Keys /\ chain[b] \in Seq(Mail) /\ b \in Buckets
  BY DEF SessionInv, TableInv, TableOK, In, ChainInv
<1>5. ~Plain(table.key[b])
  <2>1. SUFFICES ASSUME Plain(table.key[b]) PROVE FALSE
    OBVIOUS
  <2>2. /\ Len(chain[b]) = 1 /\ worker[w].mail = 1
        /\ Ended(chain[b][1], client[table.key[b]], did[table.key[b]])
    BY <1>3, <2>1, PlainHeld
  <2>3. 1 \in DOMAIN chain[b]
    BY <1>4, <2>2
  <2> QED
    BY <1>1, <1>3, <2>2, <2>3 DEF Ended
<1>6. \A v \in Workers : worker'[v].bucket = worker[v].bucket \/ (v = w /\ worker'[v].bucket = NULL)
  BY <1>1
<1>7. ~Plain(table.key[b])' /\ NULL \notin DOMAIN chain
  <2>1. PICK k \in Keys : k = table.key[b] /\ k = table'.key[b]
    BY <1>1, <1>4
  <2>2. ~Plain(k)'
    BY <1>5, <2>1
  <2> QED
    BY <2>1, <2>2 DEF SessionInv, ChainInv, Buckets, NULL
<1>8. ASSUME NEW a \in DOMAIN chain PROVE TlsIn(a)' /\ PlainIn(a)'
  <2>1. InRing(table.key[a])' <=> InRing(table.key[a])
    BY <1>1 DEF InRing
  <2>2. CASE a # b
    <3>1. SameWork(a)
      <4>1. \A v \in Workers : v # w => worker'[v] = worker[v]
        BY <1>1
      <4>2. worker[w].bucket # a /\ worker'[w].bucket # a
        BY <1>3, <1>6, <1>7, <1>8, <2>2
      <4> QED
        BY <4>1, <4>2 DEF SameWork
    <3> QED
      BY <1>1, <2>1, <3>1, PlainApart
  <2>3. CASE a = b
    <3>1. Held(b)' => Held(b)
      BY <1>3 DEF Held
    <3> QED
      BY <1>1, <1>2, <1>7, <2>3, <3>1 DEF TlsIn, PlainIn
  <2> QED
    BY <2>2, <2>3
<1>9. ASSUME NEW k \in Keys PROVE Away(k)' /\ (Plain(k)' => RingOnce(k)')
  BY <1>1, <1>2 DEF Away, RingOnce, InRing
<1>10. /\ \A v \in Workers : worker'[v].at # "idle" => worker'[v].bucket \in DOMAIN chain'
       /\ \A v \in Workers : \A j : worker'[v].at = "extract" /\ j = worker'[v].json =>
              (worker[v].at = "extract" /\ worker[v].json = j) \/ (Plain(j.key)' => Complete(j))
  <2>1. \A v \in Workers : worker'[v] = worker[v] \/ worker'[v].at = "idle"
    BY <1>1
  <2> QED
    BY <1>1, <1>2, <2>1
<1>11. \A a \in DOMAIN chain' : TlsIn(a)' /\ PlainIn(a)'
  BY <1>1, <1>8
<1>12. PlainInv'
  BY <1>1, <1>9, <1>10, <1>11, PlainParts
<1>13. \E k \in Keys : ~Plain(k)'
  <2>1. PICK k \in Keys : k = table.key[b] /\ k = table'.key[b]
    BY <1>1, <1>4
  <2> QED
    BY <1>5, <2>1
<1> QED
  BY <1>12, <1>13

\* What a worker posts of a plain session is a whole mail.
LEMMA PlainPosted ==
    ASSUME SessionInv, NamesApart, KeysInv', PlainInv, Calm, Calm', \A k \in Keys : Plain(k)' => Plain(k),
           NEW w \in Workers, Posted(w), KeysInv
    PROVE  PlainInv'
<1>1. /\ worker[w].at = "extract" /\ worker[w].bucket \in DOMAIN chain
      /\ posted' = posted \cup {worker[w].json}
      /\ worker'[w] = [at |-> "release", bucket |-> worker[w].bucket, mail |-> worker[w].mail]
      /\ \A v \in Workers : v # w => worker'[v] = worker[v]
      /\ UNCHANGED <<scene, client, table, chain, files, ring, blocks, failed, down, did>>
  BY DEF Posted
<1>2. /\ \A v \in Workers : worker[v].at # "idle" => worker[v].bucket \in DOMAIN chain
      /\ \A k \in Keys : Away(k) /\ (Plain(k) => RingOnce(k))
      /\ \A v \in Workers : worker[v].at = "extract" /\ Plain(worker[v].json.key) => Complete(worker[v].json)
  BY PlainSays
<1>3. worker'[w].at = "release" /\ worker'[w].bucket = worker[w].bucket /\ worker'[w].mail = worker[w].mail
  BY <1>1
<1>4. ASSUME NEW a \in DOMAIN chain PROVE TlsIn(a)' /\ PlainIn(a)'
  <2>1. InRing(table.key[a])' <=> InRing(table.key[a])
    BY <1>1 DEF InRing
  <2>2. SameWork(a)
    BY <1>1, <1>3 DEF SameWork
  <2> QED
    BY <1>1, <2>1, <2>2, PlainApart
<1>5. ASSUME NEW k \in Keys PROVE Away(k)' /\ (Plain(k)' => RingOnce(k)')
  BY <1>1, <1>2 DEF Away, RingOnce, InRing
<1>6. ASSUME NEW j \in posted' PROVE j \in posted \/ (Plain(j.key)' => Complete(j))
  <2>1. CASE j = worker[w].json
    <3>1. j.key \in Keys
      BY <1>1, <2>1 DEF KeysInv
    <3>2. Plain(j.key) => Complete(j)
      BY <1>1, <1>2, <2>1
    <3> QED
      BY <3>1, <3>2
  <2> QED
    BY <1>1, <1>6, <2>1
<1>7. /\ \A v \in Workers : worker'[v].at # "idle" => worker'[v].bucket \in DOMAIN chain'
      /\ \A v \in Workers : \A j : worker'[v].at = "extract" /\ j = worker'[v].json =>
              (worker[v].at = "extract" /\ worker[v].json = j) \/ (Plain(j.key)' => Complete(j))
  BY <1>1, <1>2, <1>3
<1>8. \A a \in DOMAIN chain' : TlsIn(a)' /\ PlainIn(a)'
  BY <1>1, <1>4
<1> QED
  BY <1>5, <1>6, <1>7, <1>8, PlainParts

\* What a worker makes of a plain session is a whole mail.
LEMMA PlainParsed ==
    ASSUME SessionInv, NamesApart, KeysInv', PlainInv, Calm, Calm', \A k \in Keys : Plain(k)' => Plain(k),
           NEW w \in Workers, NEW b, NEW i, NEW m, Parsed(w, b, i, m)
    PROVE  PlainInv'
<1>1. PICK m2 \in Mail :
         /\ b = worker[w].bucket /\ i = worker[w].mail /\ worker[w].at = "parse"
         /\ b \in DOMAIN chain /\ i \in 1..Len(chain[b]) /\ m = chain[b][i] /\ m \in Mail /\ ~NoName(m)
         /\ m2 = [m EXCEPT !.result_json = TRUE] /\ Only(b) /\ Len(chain'[b]) = Len(chain[b]) /\ chain'[b][i] = m2
         /\ \A j \in 1..Len(chain[b]) : j # i => chain'[b][j] = chain[b][j]
         /\ worker'[w] = [at |-> "extract", bucket |-> b, mail |-> i,
                          json |-> [key |-> table.key[b], env |-> Envelope(m), body |-> files[m.mail_body_name],
                                    alone |-> Len(chain[b]) = 1]]
         /\ \A v \in Workers : v # w => worker'[v] = worker[v]
         /\ UNCHANGED <<scene, client, files, ring, posted, failed, down, did>>
  BY DEF Parsed
<1>2. /\ DOMAIN chain' = DOMAIN chain /\ UNCHANGED table
      /\ \A a \in DOMAIN chain : a # b => chain'[a] = chain[a]
  BY <1>1 DEF Only
<1>3. /\ \A v \in Workers : worker[v].at # "idle" => worker[v].bucket \in DOMAIN chain
      /\ \A a \in DOMAIN chain : TlsIn(a) /\ PlainIn(a)
      /\ \A k \in Keys : Away(k) /\ (Plain(k) => RingOnce(k))
  BY PlainSays
<1>4. /\ worker'[w].at = "extract" /\ worker'[w].bucket = b /\ worker'[w].mail = i
      /\ worker'[w].json.key = table.key[b] /\ worker'[w].json.env = Envelope(m)
      /\ worker'[w].json.body = files[m.mail_body_name] /\ worker'[w].json.alone = (Len(chain[b]) = 1)
  <2>1. PICK r : r = worker'[w]
    OBVIOUS
  <2>2. PICK j : j = [key |-> table.key[b], env |-> Envelope(m), body |-> files[m.mail_body_name],
                      alone |-> Len(chain[b]) = 1]
    OBVIOUS
  <2>3. r = [at |-> "extract", bucket |-> b, mail |-> i, json |-> j]
    BY <1>1, <2>1, <2>2, ZenonT(60)
  <2>4. r.at = "extract" /\ r.bucket = b /\ r.mail = i /\ r.json = j
    BY <2>3
  <2>5. /\ j.key = table.key[b] /\ j.env = Envelope(m) /\ j.body = files[m.mail_body_name]
        /\ j.alone = (Len(chain[b]) = 1)
    BY <2>2
  <2> QED
    BY <2>1, <2>4, <2>5, ZenonT(60)
<1>5. /\ m2.starttls = m.starttls /\ m2.dot_seen = m.dot_seen /\ m2.mail_from = m.mail_from /\ m2.rcpt_to = m.rcpt_to
      /\ m2.mail_body_name = m.mail_body_name /\ m2.mail_body_dir = m.mail_body_dir
      /\ m2.data_store_flag = m.data_store_flag
  BY <1>1 DEF Mail
<1>6. PICK h \in Keys : h = table.key[b] /\ h = table'.key[b]
  BY <1>1, <1>2 DEF SessionInv, TableInv, TableOK, In
<1>7. Plain(h)' => /\ Len(chain[b]) = 1 /\ i = 1 /\ client[h].at \in Quiet
                   /\ Ended(m, client[h], did[h]) /\ ~InRing(h)
                   /\ \A v \in Workers : worker[v].bucket = b => v = w
  <2>1. SUFFICES ASSUME Plain(h)
        PROVE  /\ Len(chain[b]) = 1 /\ i = 1 /\ client[h].at \in Quiet
               /\ Ended(m, client[h], did[h]) /\ ~InRing(h)
               /\ \A v \in Workers : worker[v].bucket = b => v = w
    BY <1>6
  <2>2. b \in DOMAIN chain /\ worker[w].bucket = b /\ Plain(table.key[b])
    BY <1>1, <1>6, <2>1
  <2>3. /\ Len(chain[b]) = 1 /\ worker[w].mail = 1 /\ client[table.key[b]].at \in Quiet
        /\ Ended(chain[b][1], client[table.key[b]], did[table.key[b]]) /\ ~InRing(table.key[b])
        /\ \A v \in Workers : worker[v].bucket = b => v = w
    BY <2>2, PlainHeld
  <2>4. i = 1 /\ m = chain[b][1]
    BY <1>1, <2>3
  <2> QED
    BY <1>6, <2>3, <2>4
<1>8. \A k : (InRing(k)' <=> InRing(k)) /\ (RingOnce(k)' <=> RingOnce(k))
  BY <1>1 DEF InRing, RingOnce
<1>9. \A v \in Workers : worker'[v].bucket = worker[v].bucket
  BY <1>1, <1>4
<1>10. ASSUME NEW a \in DOMAIN chain, a # b PROVE TlsIn(a)' /\ PlainIn(a)'
  <2>1. SameWork(a)
    BY <1>1, <1>9, <1>10 DEF SameWork
  <2> QED
    BY <1>1, <1>2, <1>8, <1>10, <2>1, PlainApart
<1>11. TlsIn(b)' /\ PlainIn(b)'
  <2>1. Held(b)
    BY <1>1 DEF Held
  <2>2. \A j \in 1..Len(chain[b]) : ~chain[b][j].starttls
    BY <1>1, <1>3, <2>1 DEF TlsIn
  <2>3. \A j \in 1..Len(chain[b]) : ~chain'[b][j].starttls
    BY <1>1, <1>5, <2>2, ZenonT(60)
  <2>4. TlsIn(b)'
    BY <1>1, <2>3 DEF TlsIn
  <2>5. ASSUME Plain(h)' PROVE PlainSession(h, b)'
    <3>1. /\ Len(chain[b]) = 1 /\ i = 1 /\ client[h].at \in Quiet
          /\ Ended(m, client[h], did[h]) /\ ~InRing(h)
          /\ \A v \in Workers : worker[v].bucket = b => v = w
      BY <1>7, <2>5
    <3>2. HeldOnce(b)'
      BY <1>4, <1>9, <3>1 DEF HeldOnce
    <3>3. PICK cl, d : cl = client[h] /\ d = did[h]
      OBVIOUS
    <3>4. Ended(m2, cl, d)'
      <4>1. /\ m2.starttls = m.starttls /\ m2.dot_seen = m.dot_seen /\ m2.mail_from = m.mail_from /\ m2.rcpt_to = m.rcpt_to
            /\ m2.mail_body_name = m.mail_body_name /\ m2.mail_body_dir = m.mail_body_dir
            /\ m2.data_store_flag = m.data_store_flag
        BY <1>5
      <4>2. Ended(m, cl, d) /\ UNCHANGED files
        BY <1>1, <3>1, <3>3, ZenonT(60)
      <4> QED
        BY <4>1, <4>2 DEF Ended, NoName, Addressed
    <3>5. Len(chain'[b]) = 1 /\ chain'[b][1] = m2 /\ client'[h] = cl /\ did'[h] = d /\ client'[h].at \in Quiet
      BY <1>1, <3>1, <3>3
    <3>6. ~InRing(h)'
      BY <1>8, <3>1
    <3> QED
      BY <3>2, <3>4, <3>5, <3>6 DEF PlainSession
  <2> QED
    BY <1>6, <2>4, <2>5 DEF PlainIn
<1>12. ASSUME NEW k \in Keys PROVE Away(k)' /\ (Plain(k)' => RingOnce(k)')
  <2>1. Away(k) /\ (Plain(k) => RingOnce(k)) /\ (Plain(k)' => Plain(k))
    BY <1>3, ZenonT(60)
  <2>2. UNCHANGED client
    BY <1>1, ZenonT(60)
  <2> QED
    BY <1>2, <1>8, <2>1, <2>2, ZenonT(60) DEF Away
<1>13. ASSUME Plain(h)', NEW j, j = worker'[w].json PROVE Complete(j)
  <2>1. Len(chain[b]) = 1 /\ Ended(m, client[h], did[h])
    BY <1>7, <1>13
  <2>6. /\ j.alone = (Len(chain[b]) = 1) /\ j.body = files[m.mail_body_name] /\ j.env = Envelope(m)
    BY <1>4, <1>13
  <2>7. /\ Envelope(m).from = m.mail_from
        /\ Envelope(m).to = {m.rcpt_to[x] : x \in DOMAIN m.rcpt_to} \ {NULL}
    BY DEF Envelope
  <2>2. /\ j.alone /\ j.body = files[m.mail_body_name] /\ j.env.from = m.mail_from
        /\ j.env.to = {m.rcpt_to[x] : x \in DOMAIN m.rcpt_to} \ {NULL}
    BY <2>1, <2>6, <2>7
  <2>3. Len(files[m.mail_body_name]) = Segments /\ m.mail_from # NULL /\ m.rcpt_to # <<>>
        /\ \A x \in 1..Len(m.rcpt_to) : m.rcpt_to[x] # NULL
    BY <2>1 DEF Ended, Addressed
  <2>4. 1 \in DOMAIN m.rcpt_to /\ DOMAIN m.rcpt_to = 1..Len(m.rcpt_to)
    <3>1. m.rcpt_to \in Seq(Nat)
      BY <1>1 DEF Mail
    <3> QED
      BY <2>3, <3>1
  <2>5. m.rcpt_to[1] \in j.env.to
    BY <2>2, <2>3, <2>4
  <2> QED
    BY <2>2, <2>3, <2>5 DEF Complete
<1>14. ASSUME NEW v \in Workers, NEW j, worker'[v].at = "extract", j = worker'[v].json
       PROVE  (worker[v].at = "extract" /\ worker[v].json = j) \/ (Plain(j.key)' => Complete(j))
  <2>1. CASE v = w
    <3>1. j.key = h
      BY <1>4, <1>6, <1>14, <2>1
    <3> QED
      BY <1>13, <1>14, <2>1, <3>1
  <2>2. CASE v # w
    BY <1>1, <1>14, <2>2
  <2> QED
    BY <2>1, <2>2
<1>15. \A v \in Workers : worker'[v].at # "idle" => worker'[v].bucket \in DOMAIN chain'
  <2>1. ASSUME NEW v \in Workers, worker'[v].at # "idle" PROVE worker'[v].bucket \in DOMAIN chain
    <3>1. CASE v = w
      BY <1>1, <1>4, <3>1
    <3>2. CASE v # w
      BY <1>1, <1>3, <2>1, <3>2
    <3> QED
      BY <3>1, <3>2
  <2> QED
    BY <1>2, <2>1
<1>16. \A a \in DOMAIN chain' : TlsIn(a)' /\ PlainIn(a)'
  <2>1. ASSUME NEW a \in DOMAIN chain PROVE TlsIn(a)' /\ PlainIn(a)'
    BY <1>10, <1>11, <2>1
  <2> QED
    BY <1>2, <2>1
<1> QED
  BY <1>1, <1>12, <1>14, <1>15, <1>16, PlainParts

\* A plain session is dropped by the one worker that holds it.
LEMMA PlainReleased ==
    ASSUME SessionInv, NamesApart, KeysInv', PlainInv, Calm, Calm', \A k \in Keys : Plain(k)' => Plain(k),
           NEW w \in Workers, NEW b, Released(w, b)
    PROVE  PlainInv'
<1>1. /\ worker[w].at = "release" /\ b = worker[w].bucket /\ b \in DOMAIN chain /\ table.key[b] \in Keys
      /\ Left(b) /\ worker'[w] = [at |-> "idle", bucket |-> NULL, mail |-> 0]
      /\ \A v \in Workers : v # w => worker'[v] = worker[v]
      /\ IF \E v \in Workers \ {w} : worker[v].bucket = b THEN Did(table.key[b], "shared") ELSE UNCHANGED did
      /\ UNCHANGED <<scene, client, files, ring, posted, failed, down>>
  BY DEF Released
<1>2. /\ DOMAIN chain' = DOMAIN chain \ {b}
      /\ \A a \in DOMAIN chain' : chain'[a] = chain[a] /\ table'.key[a] = table.key[a]
  BY <1>1 DEF Left
<1>3. /\ \A v \in Workers : worker[v].at # "idle" => worker[v].bucket \in DOMAIN chain
      /\ \A k \in Keys : Away(k) /\ (Plain(k) => RingOnce(k))
  BY PlainSays
<1>4. \A v \in Workers : v # w => worker[v].bucket # b
  <2>1. SUFFICES ASSUME \E v \in Workers \ {w} : worker[v].bucket = b PROVE FALSE
    OBVIOUS
  <2>2. Did(table.key[b], "shared")
    BY <1>1, <2>1
  <2>3. "shared" \in did'[table.key[b]]
    BY <1>1, <2>2 DEF Did, SessionInv
  <2> QED
    BY <1>1, <2>3 DEF Calm
<1>5. UNCHANGED did
  BY <1>1, <1>4
<1>6. worker'[w].at = "idle" /\ worker'[w].bucket = NULL
  BY <1>1
<1>7. \A k : (InRing(k)' <=> InRing(k)) /\ (RingOnce(k)' <=> RingOnce(k))
  BY <1>1 DEF InRing, RingOnce
<1>8. ASSUME NEW a \in DOMAIN chain' PROVE TlsIn(a)' /\ PlainIn(a)'
  <2>1. NULL # a
    BY <1>2, <1>8 DEF SessionInv, ChainInv, Buckets, NULL
  <2>2. SameWork(a)
    BY <1>1, <1>2, <1>6, <1>8, <2>1 DEF SameWork
  <2>3. a \in DOMAIN chain /\ chain'[a] = chain[a] /\ table'.key[a] = table.key[a]
    BY <1>2, <1>8
  <2> QED
    BY <1>1, <1>5, <1>7, <2>2, <2>3, PlainApart
<1>9. ASSUME NEW k \in Keys PROVE Away(k)' /\ (Plain(k)' => RingOnce(k)')
  <2>1. CASE k = table.key[b]
    <3>1. Plain(k)' => client[k].at \in Quiet /\ ~InRing(k)
      <4>1. SUFFICES ASSUME Plain(table.key[b]) PROVE client[table.key[b]].at \in Quiet /\ ~InRing(table.key[b])
        BY <2>1
      <4> QED
        BY <1>1, <4>1, PlainHeld
    <3> QED
      BY <1>1, <1>3, <1>7, <3>1 DEF Away
  <2>2. CASE k # table.key[b]
    <3>1. (\A a \in DOMAIN chain' : table'.key[a] # k) => \A a \in DOMAIN chain : table.key[a] # k
      BY <1>2, <2>2
    <3> QED
      BY <1>1, <1>3, <1>7, <3>1 DEF Away
  <2> QED
    BY <2>1, <2>2
<1>10. /\ \A v \in Workers : worker'[v].at # "idle" => worker'[v].bucket \in DOMAIN chain'
       /\ \A v \in Workers : \A j : worker'[v].at = "extract" /\ j = worker'[v].json =>
              (worker[v].at = "extract" /\ worker[v].json = j) \/ (Plain(j.key)' => Complete(j))
  <2>1. \A v \in Workers : worker'[v].at # "idle" => v # w /\ worker'[v] = worker[v]
    BY <1>1, <1>6
  <2>2. \A v \in Workers : worker'[v].at # "idle" => worker'[v].bucket \in DOMAIN chain \ {b}
    BY <1>3, <1>4, <2>1
  <2> QED
    BY <1>2, <2>1, <2>2
<1> QED
  BY <1>1, <1>8, <1>9, <1>10, PlainParts

\* Every step of a worker keeps plain sessions.
LEMMA PlainWork ==
    ASSUME SessionInv, Enough, NamesApart, KeysInv, PlainInv, NEW w \in Workers, Work(w)
    PROVE  PlainInv' /\ (Calm' /\ (\A k \in Keys : Plain(k)') => UNCHANGED down)
<1>1. UNCHANGED <<files, client, scene>> /\ ~down /\ \A k \in Keys : did[k] \subseteq did'[k]
  BY WorkLeaves
<1>2. KeysInv'
  BY KeysWork
<1>3. \/ \E b : Taken(w, b)
      \/ Missed(w) \/ WorkerFallen(w) \/ GivenUp(w) \/ Posted(w)
      \/ \E b, i, m : Parsed(w, b, i, m)
      \/ \E b : Released(w, b)
  BY Works
<1>4. failed => failed'
  BY FailureStays
<1>5. (\A k \in Keys : Plain(k)' => Plain(k)) /\ (Calm' => Calm)
  BY <1>1, <1>4, PlainMore
<1>6. SUFFICES ASSUME Calm' PROVE PlainInv' /\ ((\A k \in Keys : Plain(k)') => UNCHANGED down)
  BY DEF PlainInv
<1>7. Calm /\ \A k \in Keys : Plain(k)' => Plain(k)
  BY <1>5, <1>6
<1>8. ASSUME NEW b, Taken(w, b) PROVE PlainInv' /\ UNCHANGED down
  <2>1. PlainInv'
    BY <1>2, <1>6, <1>7, <1>8, PlainTaken
  <2> QED
    BY <1>8, <2>1 DEF Taken
<1>9. CASE Missed(w)
  <2>1. PlainInv'
    BY <1>2, <1>6, <1>7, <1>9, PlainMissed
  <2> QED
    BY <1>9, <2>1 DEF Missed
<1>10. CASE WorkerFallen(w)
  BY <1>2, <1>6, <1>7, <1>10, PlainFallen
<1>11. CASE GivenUp(w)
  BY <1>6, <1>11 DEF GivenUp, Calm
<1>12. CASE Posted(w)
  <2>1. PlainInv'
    BY <1>2, <1>6, <1>7, <1>12, PlainPosted
  <2> QED
    BY <1>12, <2>1 DEF Posted
<1>13. ASSUME NEW b, NEW i, NEW m, Parsed(w, b, i, m) PROVE PlainInv' /\ UNCHANGED down
  <2>1. PlainInv'
    BY <1>2, <1>6, <1>7, <1>13, PlainParsed
  <2> QED
    BY <1>13, <2>1 DEF Parsed
<1>14. ASSUME NEW b, Released(w, b) PROVE PlainInv' /\ UNCHANGED down
  <2>1. PlainInv'
    BY <1>2, <1>6, <1>7, <1>14, PlainReleased
  <2> QED
    BY <1>14, <2>1 DEF Released
<1> QED
  BY <1>3, <1>8, <1>9, <1>10, <1>11, <1>12, <1>13, <1>14

-----------------------------------------------------------------------------
(* The memory of plain connections *)

\* Every connection is plain.
AllPlain == \A c \in Keys : Plain(c)

\* When all connections are plain, nothing has gone wrong, and the blocks allocated for a bucket are those
\* its session holds.
Exact == AllPlain => ~down /\ \A b \in Buckets : blocks[b] = Owed(b)

\* Then nothing has failed.
LEMMA AllCalm == AllPlain => Calm
BY SessionTableAssumption DEF AllPlain, Calm, Plain

\* And so it was in the step before.
LEMMA AllMore ==
    ASSUME \A k \in Keys : did[k] \subseteq did'[k], failed => failed', AllPlain'
    PROVE  AllPlain /\ Calm /\ Calm' /\ \A k \in Keys : Plain(k)' /\ (Plain(k)' => Plain(k))
<1>1. \A k \in Keys : Plain(k)'
  BY DEF AllPlain
<1>2. (\A c \in Keys : Plain(c)' => Plain(c)) /\ (Calm' => Calm)
  BY PlainMore
<1>3. AllPlain
  BY <1>1, <1>2 DEF AllPlain
<1>4. Calm'
  <2>1. PICK k \in Keys : TRUE
    BY SessionTableAssumption
  <2> QED
    BY <1>1, <2>1 DEF Plain, Calm
<1> QED
  BY <1>1, <1>2, <1>3, <1>4

\* The blocks of one bucket have changed as its chain has.
LEMMA ExactKept ==
    ASSUME SessionInv, NEW b \in Buckets, NEW k \in Int, Allocated(b, k), \A a \in Buckets : blocks[a] = Owed(a),
           \A a \in Buckets : a # b => (a \in DOMAIN chain' <=> a \in DOMAIN chain) /\ (a \in DOMAIN chain => chain'[a] = chain[a]),
           Owed(b)' = Owed(b) + k
    PROVE  \A a \in Buckets : blocks'[a] = Owed(a)'
<1>1. ASSUME NEW a \in Buckets PROVE blocks'[a] = Owed(a)'
  <2>1. CASE a = b
    BY <2>1, AllocatedIs
  <2>2. CASE a # b
    <3>1. Owed(a)' = Owed(a)
      BY <2>2 DEF Owed
    <3> QED
      BY <2>2, <3>1, AllocatedIs
  <2> QED
    BY <2>1, <2>2
<1> QED
  BY <1>1

\* Steps that take no block and touch no mail keep the counts.
LEMMA ExactSame ==
    ASSUME UNCHANGED <<chain, blocks>>, \A a \in Buckets : blocks[a] = Owed(a)
    PROVE  \A a \in Buckets : blocks'[a] = Owed(a)'
BY DEF Owed

\* One mail of bucket b has changed, and with it the blocks.
LEMMA ExactMail ==
    ASSUME SessionInv, NEW b \in DOMAIN chain, b \in Buckets, NEW i \in 1..Len(chain[b]), NEW m \in Mail, m = chain[b][i],
           NEW m2 \in Mail, NEW k \in Int, Takes(m, m2, k), Allocated(b, k), Only(b),
           chain'[b] = [chain[b] EXCEPT ![i] = m2], \A a \in Buckets : blocks[a] = Owed(a)
    PROVE  \A a \in Buckets : blocks'[a] = Owed(a)'
<1>1. PICK s, s2 : s = chain[b] /\ s2 = chain'[b]
  OBVIOUS
<1>2. s \in Seq(Mail) /\ s2 = [s EXCEPT ![i] = m2] /\ i \in 1..Len(s) /\ s[i] = m
  BY <1>1, MailsAre
<1>3. SumOf(s2) = SumOf(s) - BlocksOfMail(m) + BlocksOfMail(m2)
  <2>1. SumOf([s EXCEPT ![i] = m2]) = SumOf(s) - BlocksOfMail(s[i]) + BlocksOfMail(m2)
    BY <1>2, SumChange
  <2> QED
    BY <1>2, <2>1
<1>4. SumOf(s) \in Nat /\ BlocksOfMail(m) \in Nat
  BY <1>2, SumOne, BlocksNat
<1>5. SumOf(s2) = SumOf(s) + k
  BY <1>3, <1>4 DEF Takes
<1>6. Owed(b) = 1 + SumOf(s) /\ Owed(b)' = 1 + SumOf(s2)
  BY <1>1 DEF Owed, Only
<1>7. Owed(b)' = Owed(b) + k
  BY <1>4, <1>5, <1>6
<1>8. \A a \in Buckets : a # b => (a \in DOMAIN chain' <=> a \in DOMAIN chain) /\ (a \in DOMAIN chain => chain'[a] = chain[a])
  BY DEF Only
<1> QED
  BY <1>7, <1>8, ExactKept

\* A new session is counted with its first mail.
LEMMA ExactCome == ASSUME SessionInv, Exact, NEW c \in Keys, NEW b, Came(c, b) PROVE Exact'
<1>1. /\ b \in Buckets /\ b \notin DOMAIN chain /\ DOMAIN chain' = DOMAIN chain \cup {b} /\ chain'[b] = <<NewMail>>
      /\ \A a \in DOMAIN chain : a # b /\ chain'[a] = chain[a] /\ table'.key[a] = table.key[a]
      /\ IF client[c].at \in {"ready", "quit"} THEN UNCHANGED did ELSE Did(c, "torn")
      /\ Allocated(b, 2) /\ UNCHANGED <<failed, down>>
  BY DEF Came
<1>2. \A k \in Keys : did[k] \subseteq did'[k]
  BY <1>1 DEF Did, SessionInv
<1>3. SUFFICES ASSUME AllPlain' PROVE ~down' /\ \A a \in Buckets : blocks'[a] = Owed(a)'
  BY DEF Exact
<1>4. AllPlain
  BY <1>1, <1>2, <1>3, AllMore
<1>5. ~down /\ \A a \in Buckets : blocks[a] = Owed(a)
  BY <1>4 DEF Exact
<1>6. SumOf(<<NewMail>>) = 1
  <2>1. PICK m : m = NewMail /\ m \in Mail /\ BlocksOfMail(m) = 1
    BY NewMailIs
  <2>2. <<m>> \in Seq(Mail) /\ Len(<<m>>) = 1 /\ <<m>>[1] = m
    BY <2>1
  <2>3. SumOf(<<m>>) = BlocksOfMail(<<m>>[1])
    BY <2>2, SumOne
  <2> QED
    BY <2>1, <2>2, <2>3
<1>7. Owed(b)' = Owed(b) + 2
  BY <1>1, <1>6 DEF Owed
<1>8. \A a \in Buckets : a # b => (a \in DOMAIN chain' <=> a \in DOMAIN chain) /\ (a \in DOMAIN chain => chain'[a] = chain[a])
  BY <1>1
<1> QED
  BY <1>1, <1>5, <1>7, <1>8, ExactKept

\* A packet takes the blocks that its mail gets.
LEMMA ExactTurn ==
    ASSUME SessionInv, NamesApart, KeysInv, PlainInv, Exact, NEW c \in Keys, NEW p, NEW b, NEW i, NEW m, NEW cl, NEW d,
           Turn(c, p, b, i, m, cl, d)
    PROVE  Exact'
<1>1. /\ b \in DOMAIN chain /\ b \in Buckets /\ table.key[b] = c /\ i \in 1..Len(chain[b]) /\ chain[b] \in Seq(Mail)
      /\ m = chain[b][i] /\ m \in Mail /\ cl = client[c] /\ cl \in Clients /\ d = did[c]
      /\ Spoken(p, cl, d, client'[c], did'[c]) /\ p.end \in BOOLEAN /\ p.mail \in Nat
      /\ \A k \in Keys : did[k] \subseteq did'[k]
  BY TurnIs
<1>2. \/ Changed(c, p, b, i, m) \/ Unheard(b, i, m, p) \/ Added(b, m, p)
      \/ Reset(b, i, m, p) \/ Closed(b, m, p) \/ Fallen(m, p)
  BY DEF Turn
<1>3. failed => failed'
  BY FailureTurns
<1>4. SUFFICES ASSUME AllPlain' PROVE ~down' /\ \A a \in Buckets : blocks'[a] = Owed(a)'
  BY DEF Exact
<1>5. AllPlain /\ Calm /\ Calm' /\ Plain(c)' /\ Plain(c)
  BY <1>1, <1>3, <1>4, AllMore
<1>6. ~down /\ \A a \in Buckets : blocks[a] = Owed(a)
  BY <1>5 DEF Exact
<1>7. UNCHANGED down
  BY <1>5, PlainTurn
<1>8. PICK cl2, d2 : cl2 = client'[c] /\ d2 = did'[c] /\ Spoken(p, cl, d, cl2, d2) /\ Plainly(d2) /\ failed' # TRUE
  BY <1>1, <1>5 DEF Plain, Plainly
<1>9. \/ cl.at \in Quiet /\ Fresh(m)
      \/ Unsent(m, cl, d)
      \/ cl.at \in Quiet /\ Ended(m, cl, d)
  <2>1. /\ Len(chain[b]) = 1 /\ i = 1 /\ m = chain[b][1] /\ RingOnce(c)
        /\ \/ cl.at \in Quiet /\ Fresh(m) /\ ~Held(b) /\ ~InRing(c)
           \/ Unsent(m, cl, d) /\ ~Held(b) /\ ~InRing(c)
           \/ /\ cl.at \in Quiet /\ Ended(m, cl, d)
              /\ \/ InRing(c) /\ ~Held(b) /\ ~m.result_json
                 \/ ~InRing(c) /\ HeldOnce(b)
    BY <1>5, PlainBefore
  <2> QED
    BY <2>1
<1>10. CASE Changed(c, p, b, i, m)
  <2>1. PICK m2 \in Mail, k \in 0..2 :
           /\ Fields(c, p, m, m2, k) /\ Only(b)
           /\ chain'[b] = [chain[b] EXCEPT ![i] = m2] /\ Allocated(b, k)
    <3>1. m \in Mail /\ p.end \in BOOLEAN /\ Changed(c, p, b, i, m)
      BY <1>1, <1>10
    <3>2. \E m2 \in Mail, k \in 0..2 :
             /\ Fields(c, p, m, m2, k) /\ Only(b) /\ Len(chain'[b]) = Len(chain[b]) /\ chain'[b][i] = m2
             /\ \A j \in 1..Len(chain[b]) : j # i => chain'[b][j] = chain[b][j]
             /\ chain'[b] = [chain[b] EXCEPT ![i] = m2] /\ Allocated(b, k) /\ UNCHANGED down
      BY <3>1, ChangedIs
    <3> QED
      BY <3>2
  <2>2. Takes(m, m2, k)
    <3>0. /\ m \in Mail /\ m2 \in Mail /\ Fields(c, p, m, m2, k) /\ p.mail \in Nat /\ p.end \in BOOLEAN
          /\ cl \in Clients /\ Spoken(p, cl, d, cl2, d2) /\ Plainly(d2) /\ failed' # TRUE
      BY <1>1, <1>8, <2>1
    <3>1. CASE cl.at \in Quiet /\ Fresh(m)
      <4>1. /\ UNCHANGED <<files, ring>>
            /\ (Fresh(m2) /\ cl2.at \in Quiet) \/ Unsent(m2, cl2, d2)'
            /\ Takes(m, m2, k)
        BY <3>0, <3>1, FreshChange
      <4> QED
        BY <4>1
    <3>2. CASE Unsent(m, cl, d)
      <4>1. m.mail_body_name # NULL => m.mail_body_name \in 1..Len(files)
        BY <1>1, NameIs
      <4>2. /\ \/ Unsent(m2, cl2, d2)' /\ UNCHANGED ring
               \/ /\ Ended(m2, cl2, d2)' /\ cl2.at \in Quiet /\ ring' = Append(ring, c) /\ ~m2.result_json
            /\ Takes(m, m2, k)
        BY <3>0, <3>2, <4>1, UnsentChange
      <4> QED
        BY <4>2
    <3>3. CASE cl.at \in Quiet /\ Ended(m, cl, d)
      <4>1. /\ UNCHANGED <<files, ring>> /\ SameEnd(m, m2)
            /\ Ended(m2, cl2, d2)' /\ cl2.at \in Quiet
            /\ Takes(m, m2, k)
        BY <3>0, <3>3, EndedChange
      <4> QED
        BY <4>1
    <3> QED
      BY <1>9, <3>1, <3>2, <3>3
  <2>3. k \in Int
    BY <2>1
  <2>4. \A a \in Buckets : blocks'[a] = Owed(a)'
    BY <1>1, <1>6, <2>1, <2>2, <2>3, ExactMail
  <2> QED
    BY <1>6, <1>7, <2>4
<1>11. CASE Unheard(b, i, m, p)
  <2>1. UNCHANGED chain /\ Allocated(b, 0)
    BY <1>8, <1>11 DEF Unheard
  <2>2. UNCHANGED blocks
    <3>1. blocks = [a \in Buckets |-> blocks[a]] /\ blocks[b] \in Int
      BY <1>1 DEF SessionInv
    <3> QED
      BY <2>1, <3>1 DEF Allocated
  <2>3. \A a \in Buckets : blocks'[a] = Owed(a)'
    BY <1>6, <2>1, <2>2, ExactSame
  <2> QED
    BY <1>6, <1>7, <2>3
<1>12. ~Added(b, m, p) /\ ~Reset(b, i, m, p) /\ ~Closed(b, m, p) /\ ~Fallen(m, p)
  <2>1. (cl.at \in Quiet /\ (Fresh(m) \/ Ended(m, cl, d))) \/ Unsent(m, cl, d)
    BY <1>9
  <2> QED
    BY <1>8, <2>1, PlainNever
<1> QED
  BY <1>2, <1>10, <1>11, <1>12

\* A worker frees all the blocks of the session it drops.
LEMMA ExactWork ==
    ASSUME SessionInv, Enough, NamesApart, KeysInv, PlainInv, Exact, NEW w \in Workers, Work(w)
    PROVE  Exact'
<1>1. \A k \in Keys : did[k] \subseteq did'[k]
  BY WorkLeaves
<1>2. \/ \E b : Taken(w, b)
      \/ Missed(w) \/ WorkerFallen(w) \/ GivenUp(w) \/ Posted(w)
      \/ \E b, i, m : Parsed(w, b, i, m)
      \/ \E b : Released(w, b)
  BY Works
<1>3. failed => failed'
  BY FailureStays
<1>4. SUFFICES ASSUME AllPlain' PROVE ~down' /\ \A a \in Buckets : blocks'[a] = Owed(a)'
  BY DEF Exact
<1>5. AllPlain /\ Calm /\ Calm' /\ \A k \in Keys : Plain(k)'
  BY <1>1, <1>3, <1>4, AllMore
<1>6. ~down /\ \A a \in Buckets : blocks[a] = Owed(a)
  BY <1>5 DEF Exact
<1>7. UNCHANGED down
  <2>1. Calm' /\ (\A k \in Keys : Plain(k)') => UNCHANGED down
    BY PlainWork
  <2> QED
    BY <1>5, <2>1
<1>8. CASE UNCHANGED <<chain, blocks>>
  BY <1>6, <1>7, <1>8, ExactSame
<1>9. ASSUME NEW b, NEW i, NEW m, Parsed(w, b, i, m) PROVE \A a \in Buckets : blocks'[a] = Owed(a)'
  <2>1. PICK m2 \in Mail :
           /\ b = worker[w].bucket /\ i = worker[w].mail /\ worker[w].at = "parse"
           /\ b \in DOMAIN chain /\ b \in Buckets /\ i \in 1..Len(chain[b]) /\ m = chain[b][i] /\ m \in Mail
           /\ m2 = [m EXCEPT !.result_json = TRUE] /\ Only(b)
           /\ chain'[b] = [chain[b] EXCEPT ![i] = m2] /\ Allocated(b, 1)
    BY <1>9 DEF Parsed
  <2>2. ~m.result_json
    <3>1. table.key[b] \in Keys
      BY <2>1 DEF SessionInv, TableInv, TableOK, In
    <3>2. Plain(table.key[b])
      BY <1>5, <3>1 DEF AllPlain
    <3>3. worker[w].mail = 1 /\ (worker[w].at = "parse" => ~chain[b][1].result_json)
      BY <1>5, <2>1, <3>2, PlainHeld
    <3> QED
      BY <2>1, <3>3
  <2>3. BlocksOfMail(m2) = BlocksOfMail(m) + 1
    <3>1. PICK f, n, g, j \in 0..1, L \in Nat :
             /\ L = Len(m.rcpt_to) /\ f = One(m.mail_from # NULL) /\ n = One(m.mail_body_name # NULL)
             /\ g = One(m.mail_body_dir) /\ j = One(m.result_json)
             /\ BlocksOfMail(m) = 1 + f + 2 * L + n + g + j
      BY <2>1, BlocksAre
    <3>2. PICK f2, n2, g2, j2 \in 0..1, L2 \in Nat :
             /\ L2 = Len(m2.rcpt_to) /\ f2 = One(m2.mail_from # NULL) /\ n2 = One(m2.mail_body_name # NULL)
             /\ g2 = One(m2.mail_body_dir) /\ j2 = One(m2.result_json)
             /\ BlocksOfMail(m2) = 1 + f2 + 2 * L2 + n2 + g2 + j2
      BY BlocksAre
    <3>3. f2 = f /\ n2 = n /\ g2 = g /\ L2 = L
      BY <2>1, <3>1, <3>2 DEF Mail
    <3>4. j = 0 /\ j2 = 1
      BY <2>1, <2>2, <3>1, <3>2 DEF Mail, One
    <3>5. BlocksOfMail(m) = 1 + f + 2 * L + n + g + j /\ BlocksOfMail(m2) = 1 + f2 + 2 * L2 + n2 + g2 + j2
      BY <3>1, <3>2
    <3> QED
      BY <3>3, <3>4, <3>5
  <2>4. PICK k \in Int : k = 1
    OBVIOUS
  <2>5. /\ b \in DOMAIN chain /\ b \in Buckets /\ i \in 1..Len(chain[b]) /\ m \in Mail /\ m = chain[b][i]
        /\ Takes(m, m2, k) /\ Allocated(b, k) /\ Only(b)
        /\ chain'[b] = [chain[b] EXCEPT ![i] = m2]
    BY <2>1, <2>3, <2>4 DEF Takes
  <2> QED
    BY <1>6, <2>5, ExactMail
<1>10. ASSUME NEW b, Released(w, b) PROVE \A a \in Buckets : blocks'[a] = Owed(a)'
  <2>1. /\ b \in DOMAIN chain /\ DOMAIN chain' = DOMAIN chain \ {b} /\ Allocated(b, - 1 - SumOf(chain[b]))
        /\ \A a \in DOMAIN chain' : chain'[a] = chain[a]
    BY <1>10 DEF Released, Left
  <2>2. b \in Buckets /\ SumOf(chain[b]) \in Nat
    BY <2>1, MailsAre, SumOne
  <2>3. PICK k \in Int : k = - 1 - SumOf(chain[b])
    BY <2>2
  <2>4. Owed(b)' = 0 /\ Owed(b) = 1 + SumOf(chain[b])
    BY <2>1 DEF Owed
  <2>5. Owed(b)' = Owed(b) + k
    BY <2>2, <2>3, <2>4
  <2>6. \A a \in Buckets : a # b => (a \in DOMAIN chain' <=> a \in DOMAIN chain) /\ (a \in DOMAIN chain => chain'[a] = chain[a])
    BY <2>1
  <2> QED
    BY <1>6, <2>1, <2>2, <2>3, <2>5, <2>6, ExactKept
<1>11. CASE (\E b : Taken(w, b)) \/ Missed(w) \/ WorkerFallen(w) \/ GivenUp(w) \/ Posted(w)
  BY <1>8, <1>11 DEF Taken, Missed, WorkerFallen, GivenUp, Posted
<1> QED
  BY <1>2, <1>6, <1>7, <1>9, <1>10, <1>11

-----------------------------------------------------------------------------
(* All together *)

\* Bodies of JSON texts are files.
BodiesInv ==
    /\ \A j \in posted : j.body \in Seq(Tokens)
    /\ \A w \in Workers : worker[w].at = "extract" => worker[w].json.body \in Seq(Tokens)

\* A worker keeps the bodies.
LEMMA BodiesWork ==
    ASSUME SessionInv, Enough, NamesApart, BodiesInv, NEW w \in Workers, Work(w) PROVE BodiesInv'
<1>1. CASE Missed(w)
  BY <1>1 DEF Missed, BodiesInv
<1>2. ASSUME NEW b, Taken(w, b) PROVE BodiesInv'
  BY <1>2 DEF Taken, BodiesInv
<1>3. CASE WorkerFallen(w)
  BY <1>3 DEF WorkerFallen, BodiesInv
<1>4. CASE GivenUp(w)
  BY <1>4 DEF GivenUp, BodiesInv
<1>5. CASE Posted(w)
  BY <1>5 DEF Posted, BodiesInv
<1>6. ASSUME NEW b, NEW i, NEW m, Parsed(w, b, i, m) PROVE BodiesInv'
  <2>1. /\ b \in DOMAIN chain /\ i \in 1..Len(chain[b]) /\ m = chain[b][i] /\ ~NoName(m)
        /\ worker'[w].json.body = files[m.mail_body_name]
        /\ \A v \in Workers : v # w => worker'[v] = worker[v]
        /\ UNCHANGED posted
    BY <1>6, ParsedSays
  <2>2. m.mail_body_name \in 1..Len(files)
    BY <2>1, NameIs DEF NoName
  <2>3. files[m.mail_body_name] \in Seq(Tokens)
    BY <2>2, FilesLong
  <2> QED
    BY <2>1, <2>3 DEF BodiesInv
<1>7. ASSUME NEW b, Released(w, b) PROVE BodiesInv'
  BY <1>7 DEF Released, BodiesInv
<1> QED
  BY <1>1, <1>2, <1>3, <1>4, <1>5, <1>6, <1>7, Works

\* The inductive invariant of SmtpSession.
SmtpInv ==
    /\ SessionInv /\ Enough /\ NamesApart /\ FilesInv /\ KeysInv /\ BodiesInv
    /\ OwnInv /\ PlainInv /\ Exact

\* It holds when nobody has connected.
LEMMA SmtpStart == Init => SmtpInv
<1> SUFFICES ASSUME Init PROVE SmtpInv
  OBVIOUS
<1>1. SessionInv /\ Enough
  BY StartInv
<1>2. /\ DOMAIN chain = {} /\ Len(files) = 0 /\ posted = {} /\ Len(ring) = 0 /\ down = FALSE
      /\ blocks = [b \in Buckets |-> 0]
      /\ \A w \in Workers : worker[w].at = "idle"
      /\ \A c \in Keys : client[c].at = "ready"
  BY DEF Init
<1>3. NamesApart /\ FilesInv /\ KeysInv /\ BodiesInv /\ OwnInv
  <2>1. \A f \in 1..Len(files) : InOrder(files[f])
    BY <1>2
  <2>2. \A c \in Keys : client[c].at \notin {"chunk", "last chunk"}
    BY <1>2
  <2>3. FilesInv
    BY <1>2, <2>1, <2>2 DEF FilesInv
  <2>4. \A w \in Workers : worker[w].at # "extract"
    BY <1>2
  <2>5. KeysInv /\ BodiesInv
    BY <1>2, <2>4 DEF KeysInv, BodiesInv
  <2>6. NamesApart
    BY <1>2 DEF NamesApart
  <2>7. OwnInv
    BY <1>2, <2>4 DEF OwnInv
  <2> QED
    BY <2>3, <2>5, <2>6, <2>7
<1>4. \A c \in Keys : ~InRing(c) /\ RingOnce(c) /\ client[c].at \in Quiet
  BY <1>2 DEF InRing, RingOnce, Quiet
<1>5. PlainInv
  BY <1>2, <1>4 DEF PlainInv, Away
<1>6. Exact
  BY <1>2 DEF Exact, Owed
<1> QED
  BY <1>1, <1>3, <1>5, <1>6 DEF SmtpInv

\* Every step keeps it.
LEMMA SmtpNext == ASSUME SmtpInv, Next PROVE SmtpInv'
<1>1. /\ SessionInv /\ Enough /\ NamesApart /\ FilesInv /\ KeysInv /\ BodiesInv
      /\ OwnInv /\ PlainInv /\ Exact
  BY DEF SmtpInv
<1>2. ASSUME NEW c \in Keys, Open(c) PROVE SmtpInv'
  <2>1. SessionInv' /\ Enough'
    BY <1>1, <1>2, OpenInv
  <2>2. PICK b : Came(c, b)
    BY <1>1, <1>2, Comes
  <2>3. UNCHANGED <<posted, worker>>
    BY <2>2 DEF Came
  <2>4. KeysInv' /\ BodiesInv'
    BY <1>1, <2>3 DEF KeysInv, BodiesInv
  <2>5. NamesApart'
    BY <1>1, <2>2, NamesCome
  <2>6. FilesInv'
    BY <1>1, <2>2, FilesCome
  <2>7. OwnInv'
    BY <1>1, <2>2, OwnCome
  <2>8. PlainInv'
    BY <1>1, <2>2, PlainCome
  <2>9. Exact'
    BY <1>1, <2>2, ExactCome
  <2> QED
    BY <2>1, <2>4, <2>5, <2>6, <2>7, <2>8, <2>9 DEF SmtpInv
<1>3. ASSUME NEW c \in Keys, NEW p, Exchange(c, p) PROVE SmtpInv'
  <2>1. SessionInv' /\ Enough'
    BY <1>1, <1>3, ExchangeInv
  <2>2. PICK b, i, m, cl, d : Turn(c, p, b, i, m, cl, d)
    BY <1>1, <1>3, Turns
  <2>3. UNCHANGED <<posted, worker>>
    BY <2>2 DEF Turn
  <2>4. KeysInv' /\ BodiesInv'
    BY <1>1, <2>3 DEF KeysInv, BodiesInv
  <2>5. NamesApart'
    BY <1>1, <2>2, NamesTurn
  <2>6. FilesInv'
    BY <1>1, <2>2, FilesTurn
  <2>7. OwnInv'
    BY <1>1, <2>2, OwnTurn
  <2>8. PlainInv'
    BY <1>1, <2>2, PlainTurn
  <2>9. Exact'
    BY <1>1, <2>2, ExactTurn
  <2> QED
    BY <2>1, <2>4, <2>5, <2>6, <2>7, <2>8, <2>9 DEF SmtpInv
<1>4. ASSUME NEW w \in Workers, Work(w) PROVE SmtpInv'
  <2>1. SessionInv' /\ Enough'
    BY <1>1, <1>4, WorkInv
  <2>2. KeysInv' /\ BodiesInv'
    BY <1>1, <1>4, KeysWork, BodiesWork
  <2>3. NamesApart'
    BY <1>1, <1>4, NamesWork
  <2>4. FilesInv'
    BY <1>1, <1>4, FilesWork
  <2>5. OwnInv'
    BY <1>1, <1>4, OwnWork
  <2>6. PlainInv'
    BY <1>1, <1>4, PlainWork
  <2>7. Exact'
    BY <1>1, <1>4, ExactWork
  <2> QED
    BY <2>1, <2>2, <2>3, <2>4, <2>5, <2>6, <2>7 DEF SmtpInv
<1> QED
  BY <1>1, <1>2, <1>3, <1>4, NextIs

\* So does a step that changes nothing.
LEMMA SmtpStutter == ASSUME SmtpInv, UNCHANGED vars PROVE SmtpInv'
<1>1. /\ SessionInv /\ Enough /\ NamesApart /\ FilesInv /\ KeysInv /\ BodiesInv
      /\ OwnInv /\ PlainInv /\ Exact
  BY DEF SmtpInv
<1>2. UNCHANGED <<scene, client, table, chain, files, ring, worker, posted, blocks, failed, down, did>>
  BY DEF vars
<1>3. ChainInv' /\ TableInv' /\ WorkerInv'
  BY <1>1, <1>2, TableKept DEF SessionInv, ChainInv, WorkerInv
<1>4. SessionInv' /\ Enough'
  BY <1>1, <1>2, <1>3 DEF SessionInv, Clients, Enough, Owed
<1>5. NamesApart' /\ KeysInv' /\ BodiesInv'
  BY <1>1, <1>2 DEF NamesApart, KeysInv, BodiesInv
<1>6. FilesInv'
  BY <1>1, <1>2 DEF FilesInv, NoChunks, StoringIn, Storing, Position
<1>7. OwnInv'
  BY <1>1, <1>2 DEF OwnInv, OwnIn, FitsFile
<1>8. (Calm' <=> Calm) /\ \A c : (Plain(c)' <=> Plain(c)) /\ (InRing(c)' <=> InRing(c)) /\ (RingOnce(c)' <=> RingOnce(c))
  BY <1>2 DEF Calm, Plain, InRing, RingOnce
<1>9. \A b : (Held(b)' <=> Held(b)) /\ (HeldOnce(b)' <=> HeldOnce(b))
  BY <1>2 DEF Held, HeldOnce
<1>10. \A m, cl, d : (Unsent(m, cl, d)' <=> Unsent(m, cl, d)) /\ (Ended(m, cl, d)' <=> Ended(m, cl, d))
  BY <1>2 DEF Unsent, Ended
<1>11. PlainInv'
  <2>1. SUFFICES ASSUME Calm PROVE PlainInv'
    BY <1>8 DEF PlainInv
  <2>2. /\ \A w \in Workers : worker[w].at # "idle" => worker[w].bucket \in DOMAIN chain
        /\ \A a \in DOMAIN chain : TlsIn(a) /\ PlainIn(a)
        /\ \A k \in Keys : Away(k) /\ (Plain(k) => RingOnce(k))
        /\ \A j \in posted : Plain(j.key) => Complete(j)
        /\ \A w \in Workers : worker[w].at = "extract" /\ Plain(worker[w].json.key) => Complete(worker[w].json)
    BY <1>1, <2>1, PlainSays
  <2>3. \A a \in DOMAIN chain : TlsIn(a)' /\ PlainIn(a)'
    <3>1. ASSUME NEW a \in DOMAIN chain PROVE TlsIn(a)' /\ PlainIn(a)'
      <4>1. SameWork(a)
        BY <1>2, SameWorkers
      <4> QED
        BY <1>1, <1>2, <1>8, <2>2, <4>1, PlainKept
    <3> QED
      BY <3>1
  <2>4. \A k \in Keys : Away(k)' /\ (Plain(k)' => RingOnce(k)')
    BY <1>2, <1>8, <2>2 DEF Away
  <2>5. KeysInv' /\ Calm /\ \A k \in Keys : Plain(k)' => Plain(k)
    BY <1>5, <1>8, <2>1
  <2> QED
    BY <1>1, <1>2, <2>2, <2>3, <2>4, <2>5, PlainParts
<1>12. Exact'
  BY <1>1, <1>2 DEF Exact, AllPlain, Plain, Owed
<1> QED
  BY <1>4, <1>5, <1>6, <1>7, <1>11, <1>12 DEF SmtpInv

-----------------------------------------------------------------------------
(* The properties *)

\* The variables keep their types; never fewer blocks are counted than the living sessions hold.
LEMMA TypesOK == ASSUME SmtpInv PROVE TypeOK
<1>1. SessionInv /\ Enough
  BY DEF SmtpInv
<1>2. scene \in Scenes /\ In(table) = DOMAIN chain /\ DOMAIN chain \subseteq Buckets
  BY <1>1 DEF SessionInv, TableInv, ChainInv
<1>3. \A b \in DOMAIN chain : chain[b] # <<>>
  <2>1. \A b \in DOMAIN chain : Len(chain[b]) # 0
    BY <1>1 DEF SessionInv, ChainInv
  <2>2. Len(<<>>) = 0
    OBVIOUS
  <2> QED
    BY <2>1, <2>2
<1>4. \A c \in Keys : client[c].mail \in 0..scene.mails
  BY <1>1 DEF SessionInv, Clients
<1>5. \A w \in Workers : worker[w].at \in {"idle", "parse", "extract", "release"}
  BY <1>1 DEF SessionInv, WorkerInv
<1>6. blocks \in [Buckets -> Nat]
  <2>1. ASSUME NEW b \in Buckets PROVE blocks[b] \in Nat
    <3>1. Owed(b) \in Nat /\ blocks[b] \in Int /\ Owed(b) <= blocks[b]
      BY <1>1, OwedIs DEF Enough
    <3> QED
      BY <3>1
  <2> QED
    BY <1>1, <2>1 DEF SessionInv
<1> QED
  BY <1>2, <1>3, <1>4, <1>5, <1>6 DEF TypeOK

\* TableLinked follows from it.
LEMMA TableIs == ASSUME SmtpInv PROVE TableLinked
<1>1. TableOK(table) /\ In(table) = DOMAIN chain
      /\ \A a, b \in DOMAIN chain : table.key[a] = table.key[b] => a = b
  BY DEF SmtpInv, SessionInv, TableInv
<1> QED
  BY <1>1, LinkedIs DEF TableLinked

\* FileIsOneMail follows from it.
LEMMA FilesAre == ASSUME SmtpInv PROVE FileIsOneMail
<1>1. SUFFICES ASSUME NoChunks PROVE \A f \in DOMAIN files : \A i \in DOMAIN files[f] :
                     /\ files[f][i][1] = "segment" /\ files[f][i][2] = files[f][1][2]
                     /\ i > 1 => files[f][i][3] > files[f][i - 1][3]
  BY DEF FileIsOneMail, NoChunks
<1>2. \A f \in 1..Len(files) : InOrder(files[f])
  BY <1>1 DEF SmtpInv, FilesInv
<1>3. files \in Seq(Seq(Tokens))
  BY FilesLong DEF SmtpInv
<1>4. ASSUME NEW f \in DOMAIN files, NEW i \in DOMAIN files[f]
      PROVE  /\ files[f][i][1] = "segment" /\ files[f][i][2] = files[f][1][2]
             /\ i > 1 => files[f][i][3] > files[f][i - 1][3]
  <2>1. f \in 1..Len(files) /\ i \in 1..Len(files[f])
    BY <1>3, <1>4
  <2> QED
    BY <1>2, <2>1 DEF InOrder
<1> QED
  BY <1>4

\* What is said of the JSONs follows from it.
LEMMA JsonsAre ==
    ASSUME SmtpInv
    PROVE  OneMailPerJson /\ \A j \in posted : Plain(j.key) => Len(j.body) = Segments /\ j.alone
<1>1. ASSUME NEW j \in posted, Plain(j.key)
      PROVE  Len(j.body) = Segments /\ j.alone /\ j.env.from # NULL /\ j.env.to # {}
  <2>1. Calm
    BY <1>1 DEF Plain, Calm
  <2> QED
    BY <1>1, <2>1, PlainSays DEF SmtpInv, Complete
<1>2. ASSUME scene.pick = "newest", ~failed, NEW j \in posted, "torn" \notin did[j.key], NEW i \in DOMAIN j.body
      PROVE  j.env.from \in {NULL, j.body[i][2]} /\ \A r \in j.env.to : r = j.body[i][2]
  <2>1. Fits(j.env, j.body)
    BY <1>2 DEF SmtpInv, OwnInv
  <2>2. i \in 1..Len(j.body)
    BY <1>2 DEF SmtpInv, BodiesInv
  <2> QED
    BY <2>1, <2>2 DEF Fits
<1> QED
  BY <1>1, <1>2 DEF OneMailPerJson

\* What is said of the memory follows from it.
LEMMA MemoryIs == ASSUME SmtpInv PROVE PlainIsSafe /\ NothingLost
<1>1. (\A c \in Keys : Plain(c)) => ~down /\ \A b \in Buckets : blocks[b] = Owed(b)
  BY DEF SmtpInv, Exact, AllPlain
<1> QED
  BY <1>1, TableIs DEF PlainIsSafe, NothingLost, Owed

\* SmtpInv is inductive.
LEMMA SmtpAlways == Spec => []SmtpInv
<1>1. SmtpInv /\ [Next]_vars => SmtpInv'
  BY SmtpNext, SmtpStutter
<1> QED
  BY <1>1, SmtpStart, PTL DEF Spec

\* The types of smtp_dissect.c's and smtpfunc.c's data are kept: every bucket has at least one mail, and no
\* more is freed than was allocated.
THEOREM SmtpTypes == Spec => []TypeOK
BY SmtpAlways, TypesOK, PTL

\* ftp_session_tbl stays linked both ways and holds each living session once, whoever takes one out.
THEOREM SmtpTable == Spec => []TableLinked
BY SmtpAlways, TableIs, PTL

\* store_smtp_data never puts two mails into one file, nor segments out of order or twice, without BDAT.
THEOREM SmtpFiles == Spec => []FileIsOneMail
BY SmtpAlways, FilesAre, PTL

\* gmime_tika_send never makes a JSON text of the body of one mail and the sender or recipients of another,
\* when the caller passes the newest mail and nothing failed.
THEOREM SmtpJson == Spec => []OneMailPerJson
BY SmtpAlways, JsonsAre, PTL

\* The mail of a plain connection is parsed only when all of it is in its file.
THEOREM SmtpWhole == Spec => []WholeMail
<1>1. SmtpInv => WholeMail
  BY TypesOK, FilesAre, JsonsAre DEF WholeMail
<1> QED
  BY <1>1, SmtpAlways, PTL

\* Plain connections crash neither the capture thread nor a worker, and free_smtp gives back all that the
\* handlers allocated for them.
THEOREM SmtpMemory == Spec => []NothingLost
BY SmtpAlways, MemoryIs, PTL
==============================================================================
