------------------------------ MODULE SmtpBody ------------------------------
(***************************************************************************)
(* How smtp_dissect.c finds the end of a mail sent with DATA.  The body    *)
(* arrives in TCP segments cut anywhere.  dispose_smtp_mail_body_data      *)
(* appends each segment to the mail's file and calls seen_dot, which       *)
(* looks at the two ends of the segment and at one byte it remembers,      *)
(* crlf_seen; when it recognises the terminating line it closes the mail   *)
(* and puts it into the session ring.                                      *)
(*                                                                         *)
(* Several mails follow each other in a session, each in a SmtpSession_t   *)
(* of its own that dispose_smtp_cmd clears.  The dispatcher of segments    *)
(* (do_smtp) is external: while data_store_flag is DATA_BDAT_START it      *)
(* hands what the client sends to dispose_smtp_mail_body_data.             *)
(***************************************************************************)
EXTENDS Integers, Sequences

CONSTANTS Lengths,     \* lengths of the bodies, the terminating line included
          MaxSegment,  \* bound: how long a segment is
          MaxMails     \* bound: how many mails one session carries

ASSUME SmtpBodyAssumption ==
    /\ Lengths \subseteq Nat \ {0, 1, 2}
    /\ MaxSegment \in Nat \ {0}
    /\ MaxMails \in Nat

Char == {"CR", "LF", ".", "x"}      \* x is any other character
CRLF == <<"CR", "LF">>
DotCRLF == <<".", "CR", "LF">>
CRLFDot == <<"CR", "LF", ".">>
EndMark == CRLF \o DotCRLF          \* "\r\n.\r\n"

StartsWith(s, t) == Len(s) >= Len(t) /\ SubSeq(s, 1, Len(t)) = t
EndsWith(s, t)   == Len(s) >= Len(t) /\ SubSeq(s, Len(s) - Len(t) + 1, Len(s)) = t

\* What a client sends after DATA: the line of the command has ended with CRLF,
\* and the end mark comes at the end and nowhere else.
Bodies ==
    {s \in UNION {[1..n -> Char] : n \in Lengths} :
        LET line == CRLF \o s
        IN  /\ EndsWith(line, EndMark)
            /\ \A i \in 1..(Len(line) - 5) : SubSeq(line, i, i + 4) # EndMark}

VARIABLES
    body,             \* what the client sends as the body of the present mail
    sent,             \* how much of it has been sent
    last_two,         \* history: the last two segments
    begun,            \* how many mails the session has begun
    data_store_flag,  \* START while segments belong to the body
    crlf_seen,        \* 0, 85 (0x55) or 170 (0xaa)
    dot_seen,         \* the end has been recognised
    stored,           \* the mail's file
    announced         \* history: files as they were when put into the session ring

bodyVars == <<body, sent, last_two, begun, data_store_flag, crlf_seen, dot_seen, stored, announced>>

BodyInit ==
    /\ body = <<>> /\ sent = 0 /\ last_two = <<<<>>, <<>>>> /\ begun = 0
    /\ data_store_flag = "END"
    /\ crlf_seen = 0 /\ dot_seen = FALSE
    /\ stored = <<>> /\ announced = <<>>

\* MAIL FROM gives the mail a cleared SmtpSession_t; DATA is answered with 354.
Begin ==
    /\ data_store_flag = "END" /\ begun < MaxMails
    /\ begun' = begun + 1
    /\ body' \in Bodies
    /\ sent' = 0 /\ last_two' = <<<<>>, <<>>>>
    /\ data_store_flag' = "START"
    /\ crlf_seen' = 0 /\ dot_seen' = FALSE
    /\ stored' = <<>>
    /\ UNCHANGED announced

\* Mutants: a segment that starts with the last line ends the mail whatever came
\* before it; only a mark that is not cut is seen.
SeenDotForgetful(s, seen) ==
    \/ EndsWith(s, EndMark)
    \/ /\ ~EndsWith(s, CRLFDot)
       /\ \/ seen = 170 /\ StartsWith(s, CRLF)
          \/ StartsWith(s, DotCRLF)

SeenDotWhole(s, seen) == EndsWith(s, EndMark)

\* The tests of seen_dot on a segment s, with seen in crlf_seen: does the mail end
\* here?  The byte remembers that the segment before ended with CRLF or CRLF dot.
SeenDot(s, seen) ==
    \/ EndsWith(s, EndMark)
    \/ /\ ~EndsWith(s, CRLFDot)
       /\ \/ seen = 170 /\ StartsWith(s, CRLF)
          \/ seen = 85 /\ StartsWith(s, DotCRLF)

CrlfSeen(s, seen) ==
    CASE SeenDot(s, seen)    -> seen
      [] ~SeenDot(s, seen) /\ EndsWith(s, CRLFDot) -> 170
      [] ~SeenDot(s, seen) /\ EndsWith(s, CRLF)    -> 85
      [] OTHER               -> 0

\* dispose_smtp_mail_body_data
Segment ==
    /\ data_store_flag = "START" /\ sent < Len(body)
    /\ \E k \in 1..MaxSegment :
        LET s   == SubSeq(body, sent + 1, sent + k)
            end == SeenDot(s, crlf_seen)
        IN  /\ sent + k <= Len(body)
            /\ sent' = sent + k
            /\ last_two' = <<last_two[2], s>>
            /\ stored' = stored \o s
            /\ crlf_seen' = CrlfSeen(s, crlf_seen)
            /\ dot_seen' = (dot_seen \/ end)
            /\ announced' = IF end THEN Append(announced, stored') ELSE announced
            /\ data_store_flag' = IF dot_seen' THEN "END" ELSE data_store_flag
    /\ UNCHANGED <<body, begun>>

BodyNext == Begin \/ Segment

BodySpec == BodyInit /\ [][BodyNext]_bodyVars

-----------------------------------------------------------------------------

BodyTypeOK ==
    /\ body \in Bodies \cup {<<>>} /\ sent \in 0..Len(body)
    /\ begun \in 0..MaxMails
    /\ data_store_flag \in {"START", "END"}
    /\ crlf_seen \in {0, 85, 170} /\ dot_seen \in BOOLEAN
    /\ Len(announced) <= MaxMails

\* A mail is announced only once all of it is in its file: no line of the body, and
\* no way of cutting it into segments, passes for the end.
NeverEarly == dot_seen => sent = Len(body) /\ stored = body

\* Mails are announced one by one, whole, and at most once each.
OnceEach ==
    /\ Len(announced) = begun - (IF data_store_flag = "START" THEN 1 ELSE 0)
    /\ \A i \in DOMAIN announced : announced[i] \in Bodies

Sent == data_store_flag = "START" /\ sent = Len(body)     \* all sent, end not seen

\* The end is recognised when the mark is cut in one of the ways the comments of
\* seen_dot name: not at all, before its last CRLF, or after its first CRLF.
KnownCutsSeen ==
    /\ BodyTypeOK
    /\ Sent => /\ ~EndsWith(last_two[2], EndMark)
               /\ ~(EndsWith(last_two[1], CRLFDot) /\ last_two[2] = CRLF)
               /\ ~(EndsWith(last_two[1], CRLF) /\ last_two[2] = DotCRLF)
=============================================================================
