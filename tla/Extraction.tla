----------------------------- MODULE Extraction -----------------------------
(***************************************************************************)
(* file_extract_pthread of extractmain.c, which several threads run at     *)
(* once: it walks the file list of a JSON text, drops the files that       *)
(* cannot be parsed, lets tika parse the others and notes what tika says   *)
(* in the list, then sends the text to the policy matcher (send_msgqueue). *)
(*                                                                         *)
(* A file list is a sequence of entries, a file is its place in the list   *)
(* that came in, and an attribute is named by the file it was read from.   *)
(* Each round of the loop works on data of its own thread and is one step; *)
(* the threads share write_outlog_lock, the queue and the log.             *)
(***************************************************************************)
EXTENDS Integers, Sequences, FiniteSets

CONSTANTS Workers,       \* threads that run file_extract_pthread
          Jobs,          \* bound: what each of the first calls may be called with
          IntMax,        \* the largest int; the least one is -IntMax - 1
          MaxFilesize,   \* max_filesize
          PolicyCap,     \* messages the queue holds
          MaxRemovals,   \* bound: how often someone removes the log
          Faults         \* which calls may fail: "memory", "disk"

Fields == {"author", "filetype", "isEncrypted"}

\* A file: does it exist, its size, and which attributes tika returns for it; tika
\* may also return nothing at all.
File == [exists : BOOLEAN, size : Nat, tika : SUBSET Fields, silent : BOOLEAN]
Job  == [prt : Nat, files : Seq(File)]

ASSUME ExtractionAssumption ==
    /\ IsFiniteSet(Workers)
    /\ Jobs \in Seq(SUBSET Job)
    /\ MaxRemovals \in Nat
    /\ IntMax \in Nat
    /\ MaxFilesize \in Nat
    /\ PolicyCap \in Nat \ {0}
    /\ Faults \subseteq {"memory", "disk"}

FTP == 175
None == 0        \* no value for an attribute
Unknown == -1    \* the file type "xxx"

VARIABLES
    pc,           \* where each thread stands
    job,          \* its argument
    flist,        \* the file list of jsontmp
    file_flag,    \* the entry it looks at, counted from 0
    tika_message, \* per field the file it was read from, or None, or Unknown
    lock,         \* threads that hold write_outlog_lock
    toPolicy,     \* the queue
    outdata,      \* the global count of messages in the log
    log,          \* the log file: does it exist, and the numbers in it
    unwritten,    \* history: how many lines could not be written to the log
    begun,        \* how many calls have been made
    removals      \* how often the log has been removed

vars == <<pc, job, flist, file_flag, tika_message, lock, toPolicy, outdata, log,
          unwritten, begun, removals>>
localVars  == <<job, flist, file_flag, tika_message>>
sharedVars == <<lock, toPolicy, outdata, log, unwritten>>

\* An entry keeps the file and, once tika has run, one value for each attribute.
NewEntry(i) == [file |-> i, parsed |-> FALSE, attrs |-> [f \in Fields |-> None]]
NoJob == [prt |-> 0, files |-> <<>>]
Blank == [f \in Fields |-> None]

Init ==
    /\ pc = [w \in Workers |-> "idle"]
    /\ job = [w \in Workers |-> NoJob]
    /\ flist = [w \in Workers |-> <<>>]
    /\ file_flag = [w \in Workers |-> 0]
    /\ tika_message = [w \in Workers |-> Blank]
    /\ lock = {}
    /\ toPolicy = <<>>
    /\ outdata = 0
    /\ log = [exists |-> FALSE, lines |-> <<>>]
    /\ unwritten = 0
    /\ begun = 0
    /\ removals = 0

Goto(w, place) == pc' = [pc EXCEPT ![w] = place]

\* Mutant: the entry after the one meant goes.
RemoveAtNext(s, i) == SubSeq(s, 1, i) \o SubSeq(s, i + 2, Len(s))

\* json_array_remove, and what remove_flist makes of the text
RemoveAt(s, i) == SubSeq(s, 1, i - 1) \o SubSeq(s, i + 1, Len(s))

-----------------------------------------------------------------------------
(* The walk over the file list *)

Call(w) ==
    /\ pc[w] = "idle" /\ begun < Len(Jobs)
    /\ \E j \in Jobs[begun + 1] :
           /\ job' = [job EXCEPT ![w] = j]
           /\ flist' = [flist EXCEPT ![w] = [i \in DOMAIN j.files |-> NewEntry(i)]]
    /\ file_flag' = [file_flag EXCEPT ![w] = 0]
    /\ tika_message' = [tika_message EXCEPT ![w] = Blank]
    /\ begun' = begun + 1
    /\ Goto(w, "walk")
    /\ UNCHANGED <<sharedVars, removals>>

\* The file under the cursor and its size as filesize holds it, an int.
Seen(w) == job[w].files[flist[w][file_flag[w] + 1].file]

AsInt(n) ==
    LET m == n % (2 * (IntMax + 1))
    IN  IF m > IntMax THEN m - 2 * (IntMax + 1) ELSE m

SizeFits(n) == AsInt(n) > 0 /\ AsInt(n) <= MaxFilesize

More(w) == pc[w] = "walk" /\ file_flag[w] < Len(flist[w])

\* An empty list, here or after the walk: nothing is sent for ftp.
WalkDone(w) ==
    /\ pc[w] = "walk" /\ file_flag[w] >= Len(flist[w])
    /\ Goto(w, IF flist[w] = <<>> /\ job[w].prt = FTP THEN "idle" ELSE "ready")
    /\ UNCHANGED <<localVars, sharedVars, begun, removals>>

\* No such file, no file, or a size out of bounds: the entry goes, and the next
\* one has moved under the cursor.
Drop(w) ==
    /\ More(w)
    /\ ~Seen(w).exists \/ ~SizeFits(Seen(w).size)
    /\ flist' = [flist EXCEPT ![w] = RemoveAt(@, file_flag[w] + 1)]
    /\ UNCHANGED <<pc, job, file_flag, tika_message, sharedVars, begun, removals>>

\* Mutant: the file is taken from its place in the list that is left.
TikaMessageByPlace(w) ==
    LET i == file_flag[w] + 1
    IN  IF Seen(w).silent THEN tika_message[w]
        ELSE [f \in Fields |-> CASE f \in Seen(w).tika -> i
                                 [] f \notin Seen(w).tika /\ f = "filetype" -> Unknown
                                 [] OTHER -> tika_message[w][f]]

\* tika_file_parser and get_file_type_author: a field tika does not give keeps
\* its value, but for the type; a call that returns nothing changes nothing.
TikaMessage(w) ==
    LET i == flist[w][file_flag[w] + 1].file
    IN  IF Seen(w).silent THEN tika_message[w]
        ELSE [f \in Fields |-> CASE f \in Seen(w).tika -> i
                                 [] f \notin Seen(w).tika /\ f = "filetype" -> Unknown
                                 [] OTHER -> tika_message[w][f]]

\* The result of tika_file_parser is not looked at; set_tika_message writes the
\* attributes into the entry, or fails and leaves the list as it was.
Parse(w) ==
    /\ More(w)
    /\ Seen(w).exists /\ SizeFits(Seen(w).size)
    /\ tika_message' = [tika_message EXCEPT ![w] = TikaMessage(w)]
    /\ \/ flist' = [flist EXCEPT ![w][file_flag[w] + 1] =
                        [file |-> @.file, parsed |-> TRUE, attrs |-> TikaMessage(w)]]
       \/ "memory" \in Faults /\ UNCHANGED flist
    /\ file_flag' = [file_flag EXCEPT ![w] = @ + 1]
    /\ UNCHANGED <<pc, job, sharedVars, begun, removals>>

-----------------------------------------------------------------------------
(* send_msgqueue, inside write_outlog_lock *)

\* Mutant: write_outlog_lock is not waited for.
LockShared(w) ==
    /\ pc[w] = "ready"
    /\ lock' = lock \cup {w}
    /\ Goto(w, "store")
    /\ UNCHANGED <<localVars, toPolicy, outdata, log, unwritten, begun, removals>>

Lock(w) ==
    /\ pc[w] = "ready" /\ lock = {}
    /\ lock' = lock \cup {w}
    /\ Goto(w, "store")
    /\ UNCHANGED <<localVars, toPolicy, outdata, log, unwritten, begun, removals>>

\* Mutant: write_outlog_lock is kept.
UnlockForgotten(w) == UNCHANGED lock /\ Goto(w, "idle")

Unlock(w) == lock' = lock \ {w} /\ Goto(w, "idle")

\* The text goes into a file of its own.
Store(w) ==
    /\ pc[w] = "store"
    /\ \/ Goto(w, "check") /\ UNCHANGED lock
       \/ "disk" \in Faults /\ Unlock(w)
    /\ UNCHANGED <<localVars, toPolicy, outdata, log, unwritten, begun, removals>>

CheckQueue(w) ==
    /\ pc[w] = "check"
    /\ \/ Len(toPolicy) < PolicyCap /\ Goto(w, "msgsnd") /\ UNCHANGED lock
       \/ Len(toPolicy) >= PolicyCap /\ Unlock(w)
    /\ UNCHANGED <<localVars, toPolicy, outdata, log, unwritten, begun, removals>>

MsgSnd(w) ==
    /\ pc[w] = "msgsnd" /\ Len(toPolicy) < PolicyCap
    /\ toPolicy' = Append(toPolicy, [job |-> job[w], flist |-> flist[w]])
    /\ Goto(w, "testLog")
    /\ UNCHANGED <<localVars, lock, outdata, log, unwritten, begun, removals>>

\* send_msgqueue tests for the log and so does record_log, after it.
TestLog(w) ==
    /\ pc[w] = "testLog"
    /\ outdata' = IF log.exists THEN outdata ELSE 1
    /\ Goto(w, "count")
    /\ UNCHANGED <<localVars, lock, toPolicy, log, unwritten, begun, removals>>

CountLog(w) ==
    /\ pc[w] = "count"
    /\ outdata' = IF log.exists THEN outdata + 1 ELSE 1
    /\ Goto(w, "append")
    /\ UNCHANGED <<localVars, lock, toPolicy, log, unwritten, begun, removals>>

AppendLog(w) ==
    /\ pc[w] = "append"
    /\ \/ /\ log' = [exists |-> TRUE, lines |-> Append(log.lines, outdata)]
          /\ UNCHANGED unwritten
       \/ /\ "disk" \in Faults
          /\ unwritten' = unwritten + 1
          /\ UNCHANGED log
    /\ Unlock(w)
    /\ UNCHANGED <<localVars, toPolicy, outdata, begun, removals>>

-----------------------------------------------------------------------------
(* The policy matcher and whoever clears the log *)

PolicyTakes ==
    /\ toPolicy # <<>>
    /\ toPolicy' = Tail(toPolicy)
    /\ UNCHANGED <<pc, localVars, lock, outdata, log, unwritten, begun, removals>>

RemoveLog ==
    /\ log.exists /\ removals < MaxRemovals
    /\ log' = [exists |-> FALSE, lines |-> <<>>]
    /\ removals' = removals + 1
    /\ UNCHANGED <<pc, localVars, lock, toPolicy, outdata, unwritten, begun>>

Extract(w) ==
    \/ WalkDone(w) \/ Drop(w) \/ Parse(w)
    \/ Lock(w) \/ Store(w) \/ CheckQueue(w) \/ MsgSnd(w)
    \/ TestLog(w) \/ CountLog(w) \/ AppendLog(w)

Next ==
    \/ \E w \in Workers : Call(w) \/ Extract(w)
    \/ PolicyTakes
    \/ RemoveLog

Spec == Init /\ [][Next]_vars

\* A thread is scheduled and gets the lock in the end; nobody has to read the queue.
FairSpec == Spec /\ \A w \in Workers : SF_vars(Extract(w))

-----------------------------------------------------------------------------

Value == Nat \cup {None, Unknown}
Entry == [file : Nat \ {0}, parsed : BOOLEAN, attrs : [Fields -> Value]]

TypeOK ==
    /\ pc \in [Workers -> {"idle", "walk", "ready", "store", "check", "msgsnd",
                           "testLog", "count", "append"}]
    /\ job \in [Workers -> Job]
    /\ flist \in [Workers -> Seq(Entry)]
    /\ file_flag \in [Workers -> Nat]
    /\ tika_message \in [Workers -> [Fields -> Value]]
    /\ lock \in SUBSET Workers
    /\ toPolicy \in Seq([job : Job, flist : Seq(Entry)])
    /\ outdata \in Nat /\ unwritten \in Nat
    /\ log \in [exists : BOOLEAN, lines : Seq(Nat)]
    /\ begun \in 0..Len(Jobs)
    /\ removals \in 0..MaxRemovals

Files(s) == [i \in DOMAIN s |-> s[i].file]

\* The walk never skips or repeats a file although it removes entries as it goes:
\* what lies before the cursor is the usable files of the argument, in order, and
\* what lies after it is the rest of the argument, untouched.
WalkInOrder ==
    \A w \in Workers : pc[w] = "walk" =>
        \E seen \in 0..Len(job[w].files) :
            LET usable == {i \in 1..seen : job[w].files[i].exists
                                           /\ SizeFits(job[w].files[i].size)}
                rest   == SubSeq(Files(flist[w]), file_flag[w] + 1, Len(flist[w]))
            IN  /\ file_flag[w] = Cardinality(usable)
                /\ {flist[w][i].file : i \in 1..file_flag[w]} = usable
                /\ \A i \in 1..(file_flag[w] - 1) : flist[w][i].file < flist[w][i + 1].file
                /\ rest = [i \in 1..(Len(job[w].files) - seen) |-> seen + i]

\* Every file that exists and is neither empty nor too large is named by the message
\* about its list, and no other - but for files whose size does not fit an int, which
\* may look small or negative; and an ftp text, which carries nothing but its files,
\* names at least one.  (The walk of file_extract_pthread, which removes entries while
\* it counts.)
SentWithinBounds ==
    /\ TypeOK /\ WalkInOrder
    /\ \A m \in {toPolicy[k] : k \in DOMAIN toPolicy} :
          LET sent   == {m.flist[i].file : i \in DOMAIN m.flist}
              exist  == {i \in DOMAIN m.job.files : m.job.files[i].exists}
              usable == {i \in exist : m.job.files[i].size \in 1..MaxFilesize}
              wraps  == {i \in exist : m.job.files[i].size > IntMax}
          IN  /\ usable \ wraps \subseteq sent /\ sent \subseteq usable \cup wraps
              /\ m.job.prt = FTP => sent # {}

\* An attribute in the message was read from the file it stands with
\* (update_json.c:380), or, if tika gave that file none, from a file before it on the
\* list; never from one behind it, and never instead of one tika gave.
AttributesOwn ==
    \A m \in {toPolicy[k] : k \in DOMAIN toPolicy} : \A i \in DOMAIN m.flist :
        \A f \in Fields :
            LET entry == m.flist[i]
                tells == ~m.job.files[entry.file].silent
                         /\ f \in m.job.files[entry.file].tika
            IN  \/ entry.attrs[f] = entry.file
                \/ ~entry.parsed /\ entry.attrs[f] = None
                \/ ~tells /\ entry.attrs[f] < entry.file

\* The lines of the log are numbered upwards, whichever threads write them and even if
\* the log is removed half way through record_log, and no number is left out but
\* those of lines that could not be written.
LogCounts ==
    LET lines == log.lines
        last  == Len(lines)
    IN  /\ \A i \in 2..last : lines[i - 1] < lines[i]
        /\ last > 0 => lines[last] - lines[1] <= last - 1 + unwritten

\* The walk ends, whatever it finds, and so does the call: the room CheckQueue saw is
\* still there at msgsnd, so nobody waits for the queue with write_outlog_lock held.
CallEnds == \A w \in Workers : (pc[w] # "idle") ~> (pc[w] = "idle")
=============================================================================
