------------------------- MODULE Extraction_proofs -------------------------
(***************************************************************************)
(* The files that a text names.  First Extraction: what write_outlog_lock  *)
(* is good for, the numbers in the log and the room in the queue, and what *)
(* file_extract_pthread leaves of a list, for any threads, calls, files    *)
(* and removals of the log.  Then MailParts: the list that mysmtp makes of *)
(* a mail, for any tree of parts and any one failure.                      *)
(***************************************************************************)
EXTENDS Extraction, MailParts, SequenceTheorems, FiniteSetTheorems, TLAPS

Places == {"idle", "walk", "ready", "store", "check", "msgsnd", "testLog", "count", "append"}
Inside == {"store", "check", "msgsnd", "testLog", "count", "append"}

SharedOK ==
    /\ pc \in [Workers -> Places]
    /\ outdata \in Nat /\ unwritten \in Nat
    /\ log.lines \in Seq(Nat)

\* Who is between Lock and Unlock holds the lock alone.
Mutex == \A w \in Workers : pc[w] \in Inside => lock = {w}

\* A number has been given to a line that is not in the log yet.
Counted == \E w \in Workers : pc[w] = "append"

\* The counter is ahead of the log by the lines that were not written, and by one more
\* while a line is on its way.
Numbers ==
    LET lines == log.lines
        last  == Len(log.lines)
    IN  /\ ~log.exists => lines = <<>>
        /\ \A i \in 2..last : lines[i - 1] < lines[i]
        /\ last > 0 =>
              /\ lines[last] + (IF Counted THEN 1 ELSE 0) <= outdata
              /\ outdata - lines[1] <= last - 1 + unwritten + (IF Counted THEN 1 ELSE 0)

\* The room that CheckQueue saw is still there when msgsnd is called.
SendNeverBlocks == \A w \in Workers : pc[w] = "msgsnd" => Len(toPolicy) < PolicyCap

LogInv == SharedOK /\ Mutex /\ Numbers

-----------------------------------------------------------------------------

\* Nothing runs in the beginning.
LEMMA InitLog == Init => LogInv
<1> SUFFICES ASSUME Init PROVE LogInv
    OBVIOUS
<1>1. SharedOK
    BY DEF Init, SharedOK, Places
<1>2. Mutex
    BY DEF Init, Mutex, Inside
<1>3. Numbers
  <2>1. log.lines = <<>> /\ Len(log.lines) = 0
      BY DEF Init
  <2> QED
      BY <2>1 DEF Numbers
<1> QED
    BY <1>1, <1>2, <1>3 DEF LogInv

\* A thread that moves and takes no lock, among those that hold it or those that do
\* not, leaves Mutex as it is.
LEMMA MutexKept ==
    ASSUME SharedOK, Mutex, NEW w \in Workers, NEW place \in Places, Goto(w, place),
           lock' = lock, place \in Inside => pc[w] \in Inside
    PROVE  Mutex'
<1> SUFFICES ASSUME NEW v \in Workers, pc'[v] \in Inside PROVE lock' = {v}
    BY DEF Mutex
<1>1. pc[v] \in Inside
    BY DEF SharedOK, Goto
<1> QED
    BY <1>1 DEF Mutex

\* The holder of the lock gives it back and is not Inside any more.
LEMMA MutexReleased ==
    ASSUME SharedOK, Mutex, NEW w \in Workers, pc[w] \in Inside, Unlock(w)
    PROVE  Mutex'
<1> SUFFICES ASSUME NEW v \in Workers, pc'[v] \in Inside PROVE lock' = {v}
    BY DEF Mutex
<1>1. v # w
    BY DEF SharedOK, Unlock, Goto, Inside
<1>2. pc[v] \in Inside
    BY <1>1 DEF SharedOK, Unlock, Goto
<1>3. lock = {v} /\ lock = {w}
    BY <1>2 DEF Mutex
<1> QED
    BY <1>1, <1>3

\* Where nobody comes to or from "append", the numbers are not touched.
LEMMA NumbersKept ==
    ASSUME SharedOK, Numbers, UNCHANGED <<outdata, log, unwritten>>,
           \A v \in Workers : pc'[v] = "append" <=> pc[v] = "append"
    PROVE  Numbers'
<1>1. Counted' = Counted
    BY Zenon DEF Counted
<1> QED
    BY <1>1 DEF Numbers

\* What a step of the log's own does not concern.
LEMMA OneMoves ==
    ASSUME SharedOK, NEW w \in Workers, NEW place \in Places, Goto(w, place)
    PROVE  /\ pc' \in [Workers -> Places]
           /\ pc'[w] = place
           /\ \A v \in Workers \ {w} : pc'[v] = pc[v]
BY DEF SharedOK, Goto

\* Nobody else is at "append" while w is Inside.
LEMMA AloneInside ==
    ASSUME Mutex, NEW w \in Workers, pc[w] \in Inside, pc[w] # "append"
    PROVE  ~Counted
BY DEF Mutex, Counted, Inside

-----------------------------------------------------------------------------
(* One lemma for each step that touches the lock, the counter or the log *)

\* A call and its walk over the files are outside the lock.
LEMMA WalkLog ==
    ASSUME LogInv, NEW w \in Workers, Call(w) \/ WalkDone(w) \/ Drop(w) \/ Parse(w)
    PROVE  LogInv'
<1> USE DEF LogInv
<1>0. UNCHANGED <<lock, outdata, log, unwritten>>
    BY DEF Call, WalkDone, Drop, Parse, sharedVars
<1>1. CASE UNCHANGED pc
  <2>1. SharedOK' /\ Mutex'
      BY <1>0, <1>1 DEF SharedOK, Mutex
  <2>2. Numbers'
      BY <1>0, <1>1, NumbersKept
  <2> QED
      BY <2>1, <2>2
<1>2. CASE \E place \in {"idle", "walk", "ready"} : Goto(w, place) /\ pc[w] # "append"
  <2> PICK place \in {"idle", "walk", "ready"} : Goto(w, place) /\ pc[w] # "append"
      BY <1>2
  <2>1. place \in Places /\ place \notin Inside /\ place # "append"
      BY DEF Places, Inside
  <2>2. SharedOK'
      BY <1>0, <2>1, OneMoves DEF SharedOK
  <2>3. Mutex'
      BY <1>0, <2>1, MutexKept
  <2>4. \A v \in Workers : pc'[v] = "append" <=> pc[v] = "append"
      BY <2>1, OneMoves
  <2>5. Numbers'
      BY <1>0, <2>4, NumbersKept
  <2> QED
      BY <2>2, <2>3, <2>5
<1>3. UNCHANGED pc \/ \E place \in {"idle", "walk", "ready"} :
                         Goto(w, place) /\ pc[w] # "append"
  <2>1. CASE Call(w)
      BY <2>1 DEF Call
  <2>2. CASE WalkDone(w)
      BY <2>2 DEF WalkDone
  <2>3. CASE Drop(w) \/ Parse(w)
      BY <2>3 DEF Drop, Parse
  <2> QED
      BY <2>1, <2>2, <2>3
<1> QED
    BY <1>1, <1>2, <1>3

\* Where the lock is free nobody is Inside.
LEMMA LockLog ==
    ASSUME LogInv, NEW w \in Workers, Lock(w)
    PROVE  LogInv'
<1> USE DEF LogInv
<1>0. UNCHANGED <<outdata, log, unwritten>> /\ Goto(w, "store") /\ lock = {} /\ lock' = {w}
    BY DEF Lock
<1>1. "store" \in Places
    BY DEF Places
<1>2. SharedOK'
    BY <1>0, <1>1, OneMoves DEF SharedOK
<1>3. \A v \in Workers : pc[v] \notin Inside
    BY <1>0 DEF Mutex
<1>4. Mutex'
    BY <1>0, <1>1, <1>3, OneMoves DEF Mutex
<1>5. pc[w] = "ready"
    BY DEF Lock
<1>6. \A v \in Workers : pc'[v] = "append" <=> pc[v] = "append"
    BY <1>0, <1>1, <1>5, OneMoves
<1>7. Numbers'
    BY <1>0, <1>6, NumbersKept
<1> QED
    BY <1>2, <1>4, <1>7

\* The three steps that lead from Lock to the log leave counter and log alone.
LEMMA SendLog ==
    ASSUME LogInv, NEW w \in Workers, Store(w) \/ CheckQueue(w) \/ MsgSnd(w)
    PROVE  LogInv'
<1> USE DEF LogInv
<1>0. UNCHANGED <<outdata, log, unwritten>>
    BY DEF Store, CheckQueue, MsgSnd
<1>1. pc[w] \in Inside /\ pc[w] # "append"
    BY DEF Store, CheckQueue, MsgSnd, Inside
<1>2. PICK place \in {"idle", "check", "msgsnd", "testLog"} :
         Goto(w, place) /\ (UNCHANGED lock \/ Unlock(w))
  <2>1. CASE Store(w)
      BY <2>1 DEF Store, Unlock
  <2>2. CASE CheckQueue(w)
      BY <2>2 DEF CheckQueue, Unlock
  <2>3. CASE MsgSnd(w)
      BY <2>3 DEF MsgSnd
  <2> QED
      BY <2>1, <2>2, <2>3
<1>3. place \in Places /\ place # "append"
    BY DEF Places
<1>4. SharedOK'
    BY <1>0, <1>2, <1>3, OneMoves DEF SharedOK
<1>5. Mutex'
  <2>1. CASE UNCHANGED lock
      BY <1>1, <1>2, <1>3, <2>1, MutexKept
  <2>2. CASE Unlock(w)
      BY <1>1, <2>2, MutexReleased
  <2> QED
      BY <1>2, <2>1, <2>2
<1>6. \A v \in Workers : pc'[v] = "append" <=> pc[v] = "append"
    BY <1>1, <1>2, <1>3, OneMoves
<1>7. Numbers'
    BY <1>0, <1>6, NumbersKept
<1> QED
    BY <1>4, <1>5, <1>7

\* send_msgqueue starts the numbers again where it finds no log.
LEMMA TestLogLog ==
    ASSUME LogInv, NEW w \in Workers, TestLog(w)
    PROVE  LogInv'
<1> USE DEF LogInv
<1>0. UNCHANGED <<lock, log, unwritten>> /\ Goto(w, "count") /\ pc[w] = "testLog"
    BY DEF TestLog
<1>1. "count" \in Places /\ pc[w] \in Inside
    BY <1>0 DEF Places, Inside
<1>2. outdata' = IF log.exists THEN outdata ELSE 1
    BY DEF TestLog
<1>3. SharedOK'
    BY <1>0, <1>1, <1>2, OneMoves DEF SharedOK
<1>4. Mutex'
    BY <1>0, <1>1, MutexKept
<1>5. Numbers'
  <2>1. CASE log.exists
    <3>1. \A v \in Workers : pc'[v] = "append" <=> pc[v] = "append"
        BY <1>0, <1>1, OneMoves
    <3> QED
        BY <1>0, <1>2, <2>1, <3>1, NumbersKept
  <2>2. CASE ~log.exists
      BY <1>0, <2>2 DEF Numbers
  <2> QED
      BY <2>1, <2>2
<1> QED
    BY <1>3, <1>4, <1>5

\* record_log gives out a number: the line is on its way.
LEMMA CountLogLog ==
    ASSUME LogInv, NEW w \in Workers, CountLog(w)
    PROVE  LogInv'
<1> USE DEF LogInv
<1>0. UNCHANGED <<lock, log, unwritten>> /\ Goto(w, "append") /\ pc[w] = "count"
    BY DEF CountLog
<1>1. "append" \in Places /\ pc[w] \in Inside
    BY <1>0 DEF Places, Inside
<1>2. outdata' = IF log.exists THEN outdata + 1 ELSE 1
    BY DEF CountLog
<1>3. SharedOK'
    BY <1>0, <1>1, <1>2, OneMoves DEF SharedOK
<1>4. Mutex'
    BY <1>0, <1>1, MutexKept
<1>5. ~Counted
    BY <1>0, <1>1, AloneInside
<1>6. Counted'
    BY <1>0, <1>1, OneMoves DEF Counted
<1>7. Numbers'
  <2>1. CASE log.exists
    <3>1. \A i \in 1..Len(log.lines) : log.lines[i] \in Nat
        BY DEF SharedOK
    <3> QED
        BY <1>0, <1>2, <1>5, <1>6, <2>1, <3>1 DEF Numbers, SharedOK
  <2>2. CASE ~log.exists
      BY <1>0, <2>2 DEF Numbers
  <2> QED
      BY <2>1, <2>2
<1> QED
    BY <1>3, <1>4, <1>7

\* The line gets into the log or is lost; the lock goes back.
LEMMA AppendLogLog ==
    ASSUME LogInv, NEW w \in Workers, AppendLog(w)
    PROVE  LogInv'
<1> USE DEF LogInv
<1>0. pc[w] = "append" /\ outdata' = outdata /\ Unlock(w) /\ Goto(w, "idle")
    BY DEF AppendLog, Unlock
<1>1. "idle" \in Places /\ pc[w] \in Inside
    BY <1>0 DEF Places, Inside
<1>2. Mutex'
    BY <1>0, <1>1, MutexReleased
<1>3. pc' \in [Workers -> Places]
    BY <1>0, <1>1, OneMoves
<1>4. Counted
    BY <1>0 DEF Counted
<1>5. ~Counted'
  <2> SUFFICES ASSUME NEW v \in Workers PROVE pc'[v] # "append"
      BY DEF Counted
  <2>1. CASE v = w
      BY <1>0, <1>1, <2>1, OneMoves
  <2>2. CASE v # w
    <3>1. pc[v] # "append"
        BY <1>0, <2>2 DEF Mutex, Inside
    <3> QED
        BY <1>0, <1>1, <2>2, <3>1, OneMoves
  <2> QED
      BY <2>1, <2>2
<1>6. CASE log' = [exists |-> TRUE, lines |-> Append(log.lines, outdata)] /\ UNCHANGED unwritten
  <2> DEFINE n == Len(log.lines)
  <2>1. log'.exists /\ log'.lines = Append(log.lines, outdata)
      BY <1>6
  <2>2. n \in Nat /\ \A i \in 1..n : log.lines[i] \in Nat
      BY DEF SharedOK
  <2>3. /\ log'.lines \in Seq(Nat)
        /\ Len(log'.lines) = n + 1
        /\ log'.lines[n + 1] = outdata
        /\ \A i \in 1..n : log'.lines[i] = log.lines[i]
      BY <2>1, AppendProperties DEF SharedOK
  <2>4. SharedOK'
      BY <1>0, <1>3, <1>6, <2>3 DEF SharedOK
  <2>5. \A i \in 2..(n + 1) : log'.lines[i - 1] < log'.lines[i]
    <3> SUFFICES ASSUME NEW i \in 2..(n + 1) PROVE log'.lines[i - 1] < log'.lines[i]
        OBVIOUS
    <3>1. CASE i \in 2..n
      <4>1. log.lines[i - 1] < log.lines[i]
          BY <3>1 DEF Numbers
      <4>2. i \in 1..n /\ i - 1 \in 1..n
          BY <2>2, <3>1
      <4>3. log'.lines[i - 1] = log.lines[i - 1] /\ log'.lines[i] = log.lines[i]
          BY <2>3, <4>2
      <4> QED
          BY <4>1, <4>3
    <3>2. CASE i = n + 1
      <4>1. n > 0 /\ n \in 1..n
          BY <2>2, <3>2
      <4>2. log.lines[n] + 1 <= outdata
          BY <1>4, <4>1 DEF Numbers
      <4>3. log'.lines[i - 1] = log.lines[n] /\ log'.lines[i] = outdata
          BY <2>2, <2>3, <3>2, <4>1
      <4>4. log.lines[n] \in Nat /\ outdata \in Nat
          BY <2>2, <4>1 DEF SharedOK
      <4> QED
          BY <4>2, <4>3, <4>4
    <3> QED
        BY <2>2, <3>1, <3>2
  <2>6. outdata - log'.lines[1] <= n + unwritten
    <3>1. CASE n = 0
        BY <2>3, <3>1 DEF SharedOK
    <3>2. CASE n > 0
      <4>1. outdata - log.lines[1] <= n - 1 + unwritten + 1
          BY <1>4, <3>2 DEF Numbers
      <4>2. 1 \in 1..n /\ log'.lines[1] = log.lines[1]
          BY <2>2, <2>3, <3>2
      <4> QED
          BY <2>2, <4>1, <4>2 DEF SharedOK
    <3> QED
        BY <2>2, <3>1, <3>2
  <2>7. Numbers'
      BY <1>0, <1>5, <1>6, <2>1, <2>2, <2>3, <2>5, <2>6, SMTT(60) DEF Numbers, SharedOK
  <2> QED
      BY <1>2, <2>4, <2>7
<1>7. CASE unwritten' = unwritten + 1 /\ UNCHANGED log
  <2>1. SharedOK'
      BY <1>0, <1>3, <1>7 DEF SharedOK
  <2>2. \A i \in 1..Len(log.lines) : log.lines[i] \in Nat
      BY DEF SharedOK
  <2> DEFINE first == log.lines[1]
             final == log.lines[Len(log.lines)]
             n     == Len(log.lines)
  <2>3. ~log.exists => log.lines = <<>>
      BY DEF Numbers
  <2>4. \A i \in 2..n : log.lines[i - 1] < log.lines[i]
      BY DEF Numbers
  <2>5. ASSUME n > 0 PROVE final <= outdata /\ outdata - first <= n - 1 + unwritten + 1
    <3>1. final + 1 <= outdata /\ outdata - first <= n - 1 + unwritten + 1
        BY <1>4, <2>5 DEF Numbers
    <3>2. final \in Nat /\ outdata \in Nat
        BY <2>2, <2>5 DEF SharedOK
    <3> HIDE DEF final, first, n
    <3> QED
        BY <3>1, <3>2
  <2>6. ASSUME n > 0
        PROVE  final + 0 <= outdata /\ outdata - first <= n - 1 + (unwritten + 1) + 0
    <3>1. first \in Nat /\ final \in Nat /\ n \in Nat /\ outdata \in Nat /\ unwritten \in Nat
        BY <2>2, <2>6 DEF SharedOK
    <3> HIDE DEF final, first, n
    <3> QED
        BY <2>5, <2>6, <3>1
  <2>7. Numbers'
    <3>1. outdata' = outdata
        BY <1>0
    <3> QED
        BY <1>5, <1>7, <2>3, <2>4, <2>6, <3>1 DEF Numbers
  <2> QED
      BY <1>2, <2>1, <2>7
<1> QED
    BY <1>6, <1>7 DEF AppendLog

\* The log may go at any moment: an empty one starts anywhere.
LEMMA OthersLog ==
    ASSUME LogInv, PolicyTakes \/ RemoveLog \/ UNCHANGED vars
    PROVE  LogInv'
<1> USE DEF LogInv
<1>0. UNCHANGED <<pc, lock, outdata, unwritten>>
    BY DEF PolicyTakes, RemoveLog, vars
<1>1. Mutex'
    BY <1>0 DEF Mutex
<1>2. CASE UNCHANGED log
  <2>1. SharedOK'
      BY <1>0, <1>2 DEF SharedOK
  <2>2. Numbers'
      BY <1>0, <1>2, NumbersKept
  <2> QED
      BY <1>1, <2>1, <2>2
<1>3. CASE log'.lines = <<>>
  <2>1. SharedOK'
      BY <1>0, <1>3 DEF SharedOK
  <2>2. Len(log'.lines) = 0
      BY <1>3
  <2>3. Numbers'
      BY <1>0, <1>3, <2>2 DEF Numbers
  <2> QED
      BY <1>1, <2>1, <2>3
<1> QED
    BY <1>2, <1>3 DEF PolicyTakes, RemoveLog, vars

\* Every step keeps the invariant.
LEMMA NextLog == LogInv /\ [Next]_vars => LogInv'
<1> SUFFICES ASSUME LogInv, [Next]_vars PROVE LogInv'
    OBVIOUS
<1>1. CASE \E w \in Workers : Call(w) \/ Extract(w)
  <2> PICK w \in Workers : Call(w) \/ Extract(w)
      BY <1>1
  <2>1. CASE Call(w) \/ WalkDone(w) \/ Drop(w) \/ Parse(w)
      BY <2>1, WalkLog
  <2>2. CASE Lock(w)
      BY <2>2, LockLog
  <2>3. CASE Store(w) \/ CheckQueue(w) \/ MsgSnd(w)
      BY <2>3, SendLog
  <2>4. CASE TestLog(w)
      BY <2>4, TestLogLog
  <2>5. CASE CountLog(w)
      BY <2>5, CountLogLog
  <2>6. CASE AppendLog(w)
      BY <2>6, AppendLogLog
  <2> QED
      BY <2>1, <2>2, <2>3, <2>4, <2>5, <2>6 DEF Extract
<1>2. CASE PolicyTakes \/ RemoveLog \/ UNCHANGED vars
    BY <1>2, OthersLog
<1> QED
    BY <1>1, <1>2 DEF Next

\* One thread at a time sends and writes, and the counter is never behind the log
\* (write_outlog_lock of extractmain.c, record_log).
THEOREM LogInvariant == Spec => []LogInv
<1> QED
    BY InitLog, NextLog, PTL DEF Spec

\* The lines of the log are numbered upwards and no number is left out but those of
\* lines that could not be written, for any threads, texts and removals of the log.
THEOREM LogAlwaysCounts == Spec => []LogCounts
<1>1. LogInv => LogCounts
  <2> SUFFICES ASSUME LogInv PROVE LogCounts
      OBVIOUS
  <2>1. Len(log.lines) \in Nat /\ \A i \in 1..Len(log.lines) : log.lines[i] \in Nat
      BY DEF LogInv, SharedOK
  <2>2. \A i \in 2..Len(log.lines) : log.lines[i - 1] < log.lines[i]
      BY DEF LogInv, Numbers
  <2>3. ASSUME Len(log.lines) > 0
        PROVE  log.lines[Len(log.lines)] - log.lines[1] <= Len(log.lines) - 1 + unwritten
    <3> DEFINE first  == log.lines[1]
               final  == log.lines[Len(log.lines)]
               onWay  == IF Counted THEN 1 ELSE 0
    <3>1. final + onWay <= outdata /\ outdata - first <= Len(log.lines) - 1 + unwritten + onWay
        BY <2>3 DEF LogInv, Numbers
    <3>2. first \in Nat /\ final \in Nat /\ onWay \in Nat
        BY <2>1, <2>3
    <3>3. outdata \in Nat /\ unwritten \in Nat
        BY DEF LogInv, SharedOK
    <3> HIDE DEF first, final, onWay
    <3>4. final - first <= Len(log.lines) - 1 + unwritten
        BY <2>1, <3>1, <3>2, <3>3
    <3> QED
        BY <3>4 DEF first, final
  <2> QED
      BY <2>2, <2>3 DEF LogCounts
<1> QED
    BY <1>1, LogInvariant, PTL

-----------------------------------------------------------------------------
(* The queue: whatever a message is, the queue is a sequence of them *)

RoomInv == (\E S : toPolicy \in Seq(S)) /\ SendNeverBlocks

\* The queue stays a sequence.
LEMMA QueueKept ==
    ASSUME RoomInv, [Next]_vars
    PROVE  \E S : toPolicy' \in Seq(S)
<1> PICK S : toPolicy \in Seq(S)
    BY DEF RoomInv
<1>1. CASE \E w \in Workers : MsgSnd(w)
  <2> PICK w \in Workers : MsgSnd(w)
      BY <1>1
  <2> DEFINE m == [job |-> job[w], flist |-> flist[w]]
  <2>1. toPolicy' = Append(toPolicy, m)
      BY DEF MsgSnd
  <2> HIDE DEF m
  <2>2. toPolicy \in Seq(S \cup {m}) /\ m \in S \cup {m}
      BY SMT
  <2>3. Append(toPolicy, m) \in Seq(S \cup {m})
      BY <2>2, AppendProperties
  <2> QED
      BY <2>1, <2>3
<1>2. CASE PolicyTakes
  <2>1. Tail(toPolicy) \in Seq(S)
      BY <1>2, HeadTailProperties DEF PolicyTakes
  <2> QED
      BY <1>2, <2>1 DEF PolicyTakes
<1>3. CASE UNCHANGED toPolicy
    BY <1>3
<1>4. ASSUME NEW w \in Workers, Call(w) \/ Extract(w)
      PROVE  MsgSnd(w) \/ UNCHANGED toPolicy
    BY <1>4 DEF Call, Extract, WalkDone, Drop, Parse, Lock, Store, CheckQueue, TestLog,
                CountLog, AppendLog, sharedVars
<1>5. RemoveLog \/ UNCHANGED vars => UNCHANGED toPolicy
    BY DEF RemoveLog, vars
<1> QED
    BY <1>1, <1>2, <1>3, <1>4, <1>5 DEF Next

\* Only the holder of the lock fills the queue, so the others see it shrink at most.
LEMMA RoomKept ==
    ASSUME LogInv, RoomInv, [Next]_vars
    PROVE  SendNeverBlocks'
<1> SUFFICES ASSUME NEW v \in Workers, pc'[v] = "msgsnd"
             PROVE  Len(toPolicy') < PolicyCap
    BY DEF SendNeverBlocks
<1> PICK S : toPolicy \in Seq(S)
    BY DEF RoomInv
<1>1. CASE pc[v] = "msgsnd"
  <2>1. Len(toPolicy) < PolicyCap
      BY <1>1 DEF RoomInv, SendNeverBlocks
  <2>2. CASE \E w \in Workers : MsgSnd(w)
    <3> PICK w \in Workers : MsgSnd(w)
        BY <2>2
    <3>1. w = v
        BY <1>1 DEF MsgSnd, LogInv, Mutex, Inside
    <3>2. pc'[v] = "testLog"
        BY <3>1, OneMoves DEF MsgSnd, LogInv, Places
    <3> QED
        BY <3>2
  <2>3. CASE PolicyTakes
    <3>1. Len(Tail(toPolicy)) = Len(toPolicy) - 1
        BY <2>3, HeadTailProperties DEF PolicyTakes
    <3>2. Len(toPolicy) \in Nat /\ PolicyCap \in Nat
        BY ExtractionAssumption
    <3> QED
        BY <2>1, <2>3, <3>1, <3>2 DEF PolicyTakes
  <2>4. CASE UNCHANGED toPolicy
      BY <2>1, <2>4
  <2>5. ASSUME NEW w \in Workers, Call(w) \/ Extract(w)
        PROVE  MsgSnd(w) \/ UNCHANGED toPolicy
      BY <2>5 DEF Call, Extract, WalkDone, Drop, Parse, Lock, Store, CheckQueue, TestLog,
                  CountLog, AppendLog, sharedVars
  <2>6. RemoveLog \/ UNCHANGED vars => UNCHANGED toPolicy
      BY DEF RemoveLog, vars
  <2> QED
      BY <2>2, <2>3, <2>4, <2>5, <2>6 DEF Next
<1>2. CASE pc[v] # "msgsnd"
  <2>1. ~(PolicyTakes \/ RemoveLog \/ UNCHANGED vars)
      BY <1>2 DEF PolicyTakes, RemoveLog, vars
  <2> PICK w \in Workers : Call(w) \/ Extract(w)
      BY <2>1 DEF Next
  <2>2. CheckQueue(w)
    <3>1. ASSUME NEW place \in Places, Goto(w, place), place # "msgsnd" PROVE FALSE
        BY <1>2, <3>1, OneMoves DEF LogInv
    <3>2. ~UNCHANGED pc
        BY <1>2
    <3>3. ~Call(w) /\ ~WalkDone(w) /\ ~Drop(w) /\ ~Parse(w)
        BY <3>1, <3>2 DEF Call, WalkDone, Drop, Parse, Places
    <3>4. ~Lock(w) /\ ~Store(w) /\ ~MsgSnd(w)
        BY <3>1 DEF Lock, Store, MsgSnd, Unlock, Places
    <3>5. ~TestLog(w) /\ ~CountLog(w) /\ ~AppendLog(w)
        BY <3>1 DEF TestLog, CountLog, AppendLog, Unlock, Places
    <3> QED
        BY <3>3, <3>4, <3>5 DEF Extract
  <2>3. CASE Len(toPolicy) < PolicyCap
      BY <2>2, <2>3 DEF CheckQueue
  <2>4. CASE Unlock(w)
      BY <1>2, <2>4, OneMoves DEF Unlock, LogInv, Places
  <2> QED
      BY <2>2, <2>3, <2>4 DEF CheckQueue
<1> QED
    BY <1>1, <1>2

\* The room CheckQueue saw is still there at msgsnd, so no thread waits for the policy
\* matcher with write_outlog_lock held (send_msgqueue).
THEOREM NobodyBlocks == Spec => []SendNeverBlocks
<1>1. Init => RoomInv
  <2> SUFFICES ASSUME Init PROVE RoomInv
      OBVIOUS
  <2>1. toPolicy \in Seq({})
      BY DEF Init
  <2>2. SendNeverBlocks
      BY DEF Init, SendNeverBlocks
  <2> QED
      BY <2>1, <2>2 DEF RoomInv
<1>2. LogInv /\ RoomInv /\ [Next]_vars => RoomInv'
    BY QueueKept, RoomKept DEF RoomInv
<1>3. RoomInv => SendNeverBlocks
    BY DEF RoomInv
<1> QED
    BY <1>1, <1>2, <1>3, LogInvariant, PTL DEF Spec

(***************************************************************************)
(* The walk over a file list, which removes entries while it counts: what  *)
(* is sent names the usable files and no other, and an attribute was read  *)
(* from the file it stands with or from one before it - for any threads,   *)
(* lists, sizes and attributes, whatever fails.                            *)
(***************************************************************************)

\* Of the first n files F those that are kept.
Usable(F, n) == {i \in 1..n : F[i].exists /\ SizeFits(F[i].size)}

\* An attribute of entry e is its own, or missing, or that of a file before it.
Own(e, F) ==
    \A f \in Fields :
        \/ e.attrs[f] = e.file
        \/ ~e.parsed /\ e.attrs[f] = None
        \/ (F[e.file].silent \/ f \notin F[e.file].tika) /\ e.attrs[f] < e.file

\* The walk has seen n files of F and stands at entry c, counted from 0, of the list L
\* it works on; t is what tika has said last.  Before the cursor are the usable ones of
\* the files seen, in order, behind it the files not seen yet, untouched.
Walking(F, L, c, t, n) ==
    /\ n \in 0..Len(F) /\ c \in 0..n /\ L \in Seq(Entry)
    /\ Len(L) = c + (Len(F) - n)
    /\ c = Cardinality(Usable(F, n))
    /\ {L[i].file : i \in 1..c} = Usable(F, n)
    /\ \A i \in 1..(c - 1) : L[i].file < L[i + 1].file
    /\ \A i \in 1..(Len(F) - n) : L[c + i] = NewEntry(n + i)
    /\ \A i \in 1..c : Own(L[i], F)
    /\ t \in [Fields -> Value] /\ \A f \in Fields : t[f] <= n

\* The walk is over: the list names the usable files.
Sendable(j, L) ==
    /\ {L[i].file : i \in 1..Len(L)} = Usable(j.files, Len(j.files))
    /\ \A i \in 1..Len(L) : Own(L[i], j.files)
    /\ j.prt = FTP => L # <<>>

WalkInv ==
    /\ TypeOK
    /\ \A w \in Workers : pc[w] = "walk" =>
          \E n \in 0..Len(job[w].files) :
              Walking(job[w].files, flist[w], file_flag[w], tika_message[w], n)
    /\ \A w \in Workers : pc[w] \in {"ready", "store", "check", "msgsnd"} =>
          Sendable(job[w], flist[w])
    /\ \A k \in 1..Len(toPolicy) : Sendable(toPolicy[k].job, toPolicy[k].flist)

-----------------------------------------------------------------------------
(* Sizes, entries and lists *)

\* A size that fits an int is itself as an int.
LEMMA FitsInt ==
  ASSUME NEW n \in 0..IntMax
  PROVE  AsInt(n) = n
  <1>1. ASSUME NEW m \in Nat, n < m PROVE n % m = n
    BY <1>1
  <1> QED
    BY <1>1, ExtractionAssumption DEF AsInt

\* An entry as it comes is one, and so is the one set_tika_message leaves.
LEMMA Entries ==
  /\ \A i \in Nat \ {0} :
        /\ NewEntry(i) \in Entry /\ NewEntry(i).file = i /\ ~NewEntry(i).parsed
        /\ \A f \in Fields : NewEntry(i).attrs[f] = None
  /\ \A i \in Nat \ {0}, u \in [Fields -> Value] :
        [file |-> i, parsed |-> TRUE, attrs |-> u] \in Entry
  <1>1. [f \in Fields |-> None] \in [Fields -> Value]
    BY DEF Value
  <1> QED
    BY <1>1 DEF NewEntry, Entry

\* Removing one element moves those behind it to the front by one.
LEMMA Removed ==
  ASSUME NEW S, NEW s \in Seq(S), NEW i \in 1..Len(s)
  PROVE  /\ RemoveAt(s, i) \in Seq(S) /\ Len(RemoveAt(s, i)) = Len(s) - 1
         /\ \A j \in 1..(i - 1) : RemoveAt(s, i)[j] = s[j]
         /\ \A j \in i..(Len(s) - 1) : RemoveAt(s, i)[j] = s[j + 1]
  <1> DEFINE a == SubSeq(s, 1, i - 1)
             b == SubSeq(s, i + 1, Len(s))
  <1>0. Len(s) \in Nat /\ \A j \in 1..Len(s) : s[j] \in S
    OBVIOUS
  <1>1. a \in Seq(S) /\ Len(a) = i - 1 /\ \A j \in 1..(i - 1) : a[j] = s[j]
    <2>1. a \in Seq(S) /\ Len(a) = IF 1 <= i - 1 THEN (i - 1) - 1 + 1 ELSE 0
      BY <1>0, SubSeqProperties
    <2>2. \A j \in 1..((i - 1) - 1 + 1) : a[j] = s[1 + j - 1]
      BY <1>0, SubSeqProperties
    <2> HIDE DEF a
    <2> QED
      BY <1>0, <2>1, <2>2
  <1>2. b \in Seq(S) /\ Len(b) = Len(s) - i /\ \A j \in 1..(Len(s) - i) : b[j] = s[i + j]
    <2>1. b \in Seq(S) /\ Len(b) = IF i + 1 <= Len(s) THEN Len(s) - (i + 1) + 1 ELSE 0
      BY <1>0, SubSeqProperties
    <2>2. \A j \in 1..(Len(s) - (i + 1) + 1) : b[j] = s[(i + 1) + j - 1]
      BY <1>0, SubSeqProperties
    <2> HIDE DEF b
    <2> QED
      BY <1>0, <2>1, <2>2
  <1>3. RemoveAt(s, i) = a \o b
    BY DEF RemoveAt
  <1> HIDE DEF a, b
  <1>4. /\ a \o b \in Seq(S) /\ Len(a \o b) = Len(s) - 1
        /\ \A j \in 1..(Len(s) - 1) : (a \o b)[j] = IF j <= i - 1 THEN a[j] ELSE b[j - (i - 1)]
    <2>1. Len(a) + Len(b) = Len(s) - 1
      BY <1>0, <1>1, <1>2
    <2>2. /\ a \o b \in Seq(S) /\ Len(a \o b) = Len(a) + Len(b)
          /\ \A j \in 1..(Len(a) + Len(b)) :
                (a \o b)[j] = IF j <= Len(a) THEN a[j] ELSE b[j - Len(a)]
      BY <1>1, <1>2, ConcatProperties
    <2> QED
      BY <1>1, <2>1, <2>2
  <1>5. \A j \in i..(Len(s) - 1) : (a \o b)[j] = s[j + 1]
    <2> SUFFICES ASSUME NEW j \in i..(Len(s) - 1) PROVE (a \o b)[j] = s[j + 1]
      OBVIOUS
    <2>1. j \in 1..(Len(s) - 1) /\ ~(j <= i - 1) /\ j - (i - 1) \in 1..(Len(s) - i)
      BY <1>0
    <2>2. i + (j - (i - 1)) = j + 1
      BY <1>0
    <2> QED
      BY <1>2, <1>4, <2>1, <2>2
  <1>6. \A j \in 1..(i - 1) : (a \o b)[j] = s[j]
    BY <1>0, <1>1, <1>4
  <1> QED
    BY <1>3, <1>4, <1>5, <1>6

\* One file more that is kept is one more, one that is not changes nothing.
LEMMA UsableGrows ==
  ASSUME NEW F, NEW n \in Nat
  PROVE  /\ Usable(F, n) \subseteq 1..n /\ IsFiniteSet(Usable(F, n))
         /\ Cardinality(Usable(F, n)) \in 0..n
         /\ F[n + 1].exists /\ SizeFits(F[n + 1].size) =>
               /\ Usable(F, n + 1) = Usable(F, n) \cup {n + 1}
               /\ Cardinality(Usable(F, n + 1)) = Cardinality(Usable(F, n)) + 1
         /\ ~(F[n + 1].exists /\ SizeFits(F[n + 1].size)) => Usable(F, n + 1) = Usable(F, n)
  <1>1. Usable(F, n) \subseteq 1..n
    BY DEF Usable
  <1>2. /\ IsFiniteSet(Usable(F, n)) /\ Cardinality(Usable(F, n)) \in Nat
        /\ Cardinality(Usable(F, n)) <= n
    <2>1. IsFiniteSet(1..n) /\ Cardinality(1..n) = n
      BY FS_Interval
    <2> QED
      BY <1>1, <2>1, FS_Subset, FS_CardinalityType
  <1>3. ASSUME F[n + 1].exists /\ SizeFits(F[n + 1].size)
        PROVE  Usable(F, n + 1) = Usable(F, n) \cup {n + 1}
    <2>1. 1..(n + 1) = 1..n \cup {n + 1}
      OBVIOUS
    <2> QED
      BY <1>3, <2>1, Zenon DEF Usable
  <1>4. ASSUME ~(F[n + 1].exists /\ SizeFits(F[n + 1].size))
        PROVE  Usable(F, n + 1) = Usable(F, n)
    <2>1. 1..(n + 1) = 1..n \cup {n + 1}
      OBVIOUS
    <2> QED
      BY <1>4, <2>1, Zenon DEF Usable
  <1>5. n + 1 \notin Usable(F, n)
    BY <1>1
  <1> QED
    BY <1>1, <1>2, <1>3, <1>4, <1>5, FS_AddElement

-----------------------------------------------------------------------------
(* The walk as a computation on the list *)

\* Nothing has been seen yet.
LEMMA WalkStarts ==
  ASSUME NEW F \in Seq(File)
  PROVE  Walking(F, [i \in DOMAIN F |-> NewEntry(i)], 0, Blank, 0)
  <1> DEFINE L == [i \in DOMAIN F |-> NewEntry(i)]
  <1>1. DOMAIN F = 1..Len(F) /\ Len(F) \in Nat
    OBVIOUS
  <1>2. L \in Seq(Entry) /\ Len(L) = Len(F) /\ \A i \in 1..Len(F) : L[i] = NewEntry(i)
    BY <1>1, Entries
  <1>3. Usable(F, 0) = {} /\ Cardinality(Usable(F, 0)) = 0
    BY FS_EmptySet DEF Usable
  <1>4. Blank \in [Fields -> Value] /\ \A f \in Fields : Blank[f] <= 0
    BY DEF Blank, Value, None
  <1> HIDE DEF L
  <1>5. {L[i].file : i \in 1..0} = {}
    OBVIOUS
  <1> QED
    BY <1>1, <1>2, <1>3, <1>4, <1>5 DEF Walking

\* The entry at the cursor, if there is one, is that of the next file.
LEMMA AtCursor ==
  ASSUME NEW F \in Seq(File), NEW L, NEW c, NEW t, NEW n, Walking(F, L, c, t, n), c < Len(L)
  PROVE  /\ n \in Nat /\ c \in Nat /\ n + 1 \in 1..Len(F) /\ c + 1 \in 1..Len(L)
         /\ L[c + 1] = NewEntry(n + 1) /\ L[c + 1].file = n + 1
         /\ F[n + 1] \in File
  <1>1. /\ n \in Nat /\ c \in Nat /\ Len(F) \in Nat /\ n <= Len(F) /\ Len(L) \in Nat
        /\ Len(L) = c + (Len(F) - n)
    BY DEF Walking
  <1>2. n + 1 \in 1..Len(F) /\ c + 1 \in 1..Len(L) /\ 1 \in 1..(Len(F) - n)
    BY <1>1
  <1>3. L[c + 1] = NewEntry(n + 1)
    BY <1>2 DEF Walking
  <1> QED
    BY <1>1, <1>2, <1>3, Entries

\* The file at the cursor is not kept: the next one moves under the cursor.
LEMMA DropWalks ==
  ASSUME NEW F \in Seq(File), NEW L, NEW c, NEW t, NEW n, Walking(F, L, c, t, n), c < Len(L),
         ~(F[n + 1].exists /\ SizeFits(F[n + 1].size))
  PROVE  Walking(F, RemoveAt(L, c + 1), c, t, n + 1)
  <1> DEFINE M == RemoveAt(L, c + 1)
             r == Len(F) - n
  <1>1. /\ n \in Nat /\ c \in Nat /\ n + 1 \in 1..Len(F) /\ c + 1 \in 1..Len(L)
        /\ Len(F) \in Nat /\ c <= n /\ L \in Seq(Entry) /\ Len(L) = c + r
    BY AtCursor DEF Walking
  <1>2. /\ M \in Seq(Entry) /\ Len(M) = Len(L) - 1
        /\ \A j \in 1..c : M[j] = L[j]
        /\ \A j \in (c + 1)..(Len(L) - 1) : M[j] = L[j + 1]
    <2>1. (c + 1) - 1 = c
      BY <1>1
    <2> QED
      BY <1>1, <2>1, Removed
  <1>3. Usable(F, n + 1) = Usable(F, n)
    BY <1>1, UsableGrows
  <1> HIDE DEF M
  <1>4. \A i \in 1..(Len(F) - (n + 1)) : M[c + i] = NewEntry((n + 1) + i)
    <2> SUFFICES ASSUME NEW i \in 1..(Len(F) - (n + 1)) PROVE M[c + i] = NewEntry((n + 1) + i)
      OBVIOUS
    <2>1. /\ c + i \in (c + 1)..(Len(L) - 1) /\ (c + i) + 1 = c + (i + 1)
          /\ i + 1 \in 1..r /\ n + (i + 1) = (n + 1) + i
      BY <1>1
    <2>2. L[c + (i + 1)] = NewEntry(n + (i + 1))
      BY <2>1 DEF Walking
    <2> QED
      BY <1>2, <2>1, <2>2
  <1>5. {M[i].file : i \in 1..c} = Usable(F, n + 1)
    <2>1. {M[i].file : i \in 1..c} = {L[i].file : i \in 1..c}
      BY <1>2
    <2> QED
      BY <1>3, <2>1 DEF Walking
  <1>6. \A i \in 1..(c - 1) : M[i].file < M[i + 1].file
    <2>1. \A i \in 1..(c - 1) : i \in 1..c /\ i + 1 \in 1..c
      BY <1>1
    <2> QED
      BY <1>2, <2>1 DEF Walking
  <1>7. \A i \in 1..c : Own(M[i], F)
    BY <1>2 DEF Walking
  <1>8. t \in [Fields -> Value] /\ \A f \in Fields : t[f] <= n + 1
    <2>1. t \in [Fields -> Value] /\ \A f \in Fields : t[f] <= n
      BY DEF Walking
    <2>2. \A f \in Fields : t[f] \in Int
      BY <2>1 DEF Value, None, Unknown
    <2> QED
      BY <1>1, <2>1, <2>2
  <1>9. n + 1 \in 0..Len(F) /\ c \in 0..(n + 1) /\ Len(M) = c + (Len(F) - (n + 1))
    <2>1. n + 1 \in 0..Len(F) /\ c \in 0..(n + 1)
      <3> HIDE DEF r
      <3> QED
        BY <1>1
    <2>2. Len(M) = c + r - 1
      BY <1>2, <1>1
    <2>3. c + r - 1 = c + (Len(F) - (n + 1))
      BY <1>1
    <2> QED
      BY <2>1, <2>2, <2>3
  <1>10. c = Cardinality(Usable(F, n + 1))
    BY <1>3 DEF Walking
  <1> QED
    BY <1>2, <1>4, <1>5, <1>6, <1>7, <1>8, <1>9, <1>10 DEF Walking, M

\* The file at the cursor is kept: e is what its entry becomes, u what tika has said last.
LEMMA ParseWalks ==
  ASSUME NEW F \in Seq(File), NEW L, NEW c, NEW t, NEW n, Walking(F, L, c, t, n), c < Len(L),
         F[n + 1].exists /\ SizeFits(F[n + 1].size),
         NEW e \in Entry, e.file = n + 1, Own(e, F),
         NEW u \in [Fields -> Value], \A f \in Fields : u[f] <= n + 1
  PROVE  Walking(F, [L EXCEPT ![c + 1] = e], c + 1, u, n + 1)
  <1> DEFINE M == [L EXCEPT ![c + 1] = e]
             r == Len(F) - n
  <1>1. /\ n \in Nat /\ c \in Nat /\ n + 1 \in 1..Len(F) /\ c + 1 \in 1..Len(L)
        /\ Len(F) \in Nat /\ c <= n /\ L \in Seq(Entry) /\ Len(L) = c + r
    BY AtCursor DEF Walking
  <1>2. /\ M \in Seq(Entry) /\ Len(M) = Len(L) /\ M[c + 1] = e
        /\ \A j \in 1..Len(L) : j # c + 1 => M[j] = L[j]
    BY <1>1
  <1>3. /\ Usable(F, n + 1) = Usable(F, n) \cup {n + 1} /\ Usable(F, n) \subseteq 1..n
        /\ Cardinality(Usable(F, n + 1)) = Cardinality(Usable(F, n)) + 1
    BY <1>1, UsableGrows
  <1> HIDE DEF M
  <1>4. \A i \in 1..(Len(F) - (n + 1)) : M[(c + 1) + i] = NewEntry((n + 1) + i)
    <2> SUFFICES ASSUME NEW i \in 1..(Len(F) - (n + 1))
                 PROVE  M[(c + 1) + i] = NewEntry((n + 1) + i)
      OBVIOUS
    <2>1. /\ (c + 1) + i \in 1..Len(L) /\ (c + 1) + i # c + 1 /\ (c + 1) + i = c + (i + 1)
          /\ i + 1 \in 1..r /\ n + (i + 1) = (n + 1) + i
      BY <1>1
    <2>2. L[c + (i + 1)] = NewEntry(n + (i + 1))
      BY <2>1 DEF Walking
    <2> QED
      BY <1>2, <2>1, <2>2
  <1>5. \A i \in 1..c : i \in 1..Len(L) /\ i # c + 1 /\ M[i] = L[i]
    BY <1>1, <1>2
  <1>6. {M[i].file : i \in 1..(c + 1)} = Usable(F, n + 1)
    <2>1. 1..(c + 1) = 1..c \cup {c + 1}
      BY <1>1
    <2>2. {M[i].file : i \in 1..(c + 1)} = {M[i].file : i \in 1..c} \cup {M[c + 1].file}
      BY <2>1, Zenon
    <2>3. {M[i].file : i \in 1..c} = Usable(F, n)
      BY <1>5 DEF Walking
    <2> QED
      BY <1>2, <1>3, <2>2, <2>3
  <1>7. \A i \in 1..((c + 1) - 1) : M[i].file < M[i + 1].file
    <2> SUFFICES ASSUME NEW i \in 1..c PROVE M[i].file < M[i + 1].file
      BY <1>1
    <2>1. CASE i = c
      <3>1. L[c].file \in Usable(F, n)
        BY <1>1, <2>1 DEF Walking
      <3>2. L[c].file \in 1..n
        BY <1>3, <3>1
      <3> QED
        BY <1>1, <1>2, <1>5, <2>1, <3>2, SMTT(60)
    <2>2. CASE i # c
      <3>1. i \in 1..(c - 1) /\ i + 1 \in 1..c
        BY <1>1, <2>2
      <3>2. L[i].file < L[i + 1].file
        BY <3>1 DEF Walking
      <3> QED
        BY <1>5, <3>1, <3>2
    <2> QED
      BY <2>1, <2>2
  <1>8. \A i \in 1..(c + 1) : Own(M[i], F)
    <2> SUFFICES ASSUME NEW i \in 1..(c + 1) PROVE Own(M[i], F)
      OBVIOUS
    <2>1. i \in 1..c \/ i = c + 1
      BY <1>1
    <2> QED
      BY <1>2, <1>5, <2>1 DEF Walking
  <1>9. n + 1 \in 0..Len(F) /\ c + 1 \in 0..(n + 1) /\ Len(M) = (c + 1) + (Len(F) - (n + 1))
    BY <1>1, <1>2
  <1>10. c + 1 = Cardinality(Usable(F, n + 1))
    BY <1>3 DEF Walking
  <1>11. M \in Seq(Entry)
    BY <1>2
  <1> QED
    BY <1>4, <1>6, <1>7, <1>8, <1>9, <1>10, <1>11 DEF Walking, M

\* The cursor is at the end: all files have been seen.
LEMMA WalkEnds ==
  ASSUME NEW F \in Seq(File), NEW L, NEW c, NEW t, NEW n, Walking(F, L, c, t, n), c >= Len(L)
  PROVE  /\ {L[i].file : i \in 1..Len(L)} = Usable(F, Len(F))
         /\ \A i \in 1..Len(L) : Own(L[i], F)
  <1>1. n \in 0..Len(F) /\ c \in 0..n /\ Len(L) = c + (Len(F) - n) /\ Len(F) \in Nat
    BY DEF Walking
  <1>2. n = Len(F) /\ c = Len(L)
    BY <1>1
  <1> QED
    BY <1>2 DEF Walking

-----------------------------------------------------------------------------
(* Steps *)

\* What tika says of the file at the cursor is that file's own, or what it said before.
LEMMA TikaSays ==
  ASSUME NEW w \in Workers, NEW n \in Nat,
         NEW t \in [Fields -> Value], \A f \in Fields : t[f] <= n, t = tika_message[w],
         flist[w][file_flag[w] + 1] = NewEntry(n + 1)
  PROVE  /\ TikaMessage(w) \in [Fields -> Value]
         /\ \A f \in Fields :
               /\ TikaMessage(w)[f] <= n + 1
               /\ \/ TikaMessage(w)[f] = n + 1
                  \/ (Seen(w).silent \/ f \notin Seen(w).tika) /\ TikaMessage(w)[f] < n + 1
  <1>1. flist[w][file_flag[w] + 1].file = n + 1
    BY Entries
  <1>2. n + 1 \in Value /\ Unknown \in Value /\ Unknown < n + 1
    BY DEF Value, Unknown
  <1>3. \A f \in Fields : t[f] \in Value /\ t[f] \in Int /\ t[f] < n + 1
    BY DEF Value, None, Unknown
  <1>4. CASE Seen(w).silent
    <2>1. TikaMessage(w) = t
      BY <1>4 DEF TikaMessage
    <2> QED
      BY <1>3, <1>4, <2>1
  <1>5. CASE ~Seen(w).silent
    <2> DEFINE v(f) == CASE f \in Seen(w).tika -> n + 1
                         [] f \notin Seen(w).tika /\ f = "filetype" -> Unknown
                         [] OTHER -> t[f]
    <2>1. TikaMessage(w) = [f \in Fields |-> v(f)]
      BY <1>1, <1>5 DEF TikaMessage
    <2>2. \A f \in Fields : /\ v(f) \in Value /\ v(f) <= n + 1
                            /\ v(f) = n + 1 \/ (f \notin Seen(w).tika /\ v(f) < n + 1)
      <3> TAKE f \in Fields
      <3>1. CASE f \in Seen(w).tika
        BY <1>2, <3>1
      <3>2. CASE f \notin Seen(w).tika /\ f = "filetype"
        <4>1. v(f) = Unknown
          BY <3>2
        <4> HIDE DEF v
        <4> QED
          BY <1>2, <3>2, <4>1 DEF Unknown
      <3>3. CASE f \notin Seen(w).tika /\ f # "filetype"
        BY <1>3, <3>3
      <3> QED
        BY <3>1, <3>2, <3>3
    <2> HIDE DEF v
    <2> QED
      BY <2>1, <2>2
  <1> QED
    BY <1>4, <1>5

\* The list a thread was called with is one of files.
LEMMA JobTyped ==
  ASSUME TypeOK, NEW w \in Workers
  PROVE  job[w] \in Job /\ job[w].files \in Seq(File)
BY DEF TypeOK, Job

\* Where only pc, lock and what belongs to the log move, the types stay.
LEMMA GotoTyped ==
  ASSUME TypeOK, NEW w \in Workers,
         NEW place \in {"idle", "walk", "ready", "store", "check", "msgsnd", "testLog",
                        "count", "append"},
         Goto(w, place)
  PROVE  /\ pc' \in [Workers -> {"idle", "walk", "ready", "store", "check", "msgsnd",
                                 "testLog", "count", "append"}]
         /\ pc'[w] = place /\ \A v \in Workers \ {w} : pc'[v] = pc[v]
BY DEF TypeOK, Goto

\* What is on its way stays sendable where lists and jobs of threads that have finished
\* the walk do not change.
LEMMA OthersWalk ==
  ASSUME WalkInv, TypeOK', NEW w \in Workers, UNCHANGED toPolicy,
         \A v \in Workers \ {w} : /\ pc'[v] = pc[v] /\ job'[v] = job[v] /\ flist'[v] = flist[v]
                                  /\ file_flag'[v] = file_flag[v]
                                  /\ tika_message'[v] = tika_message[v],
         pc'[w] = "walk" =>
             \E n \in 0..Len(job'[w].files) :
                 Walking(job'[w].files, flist'[w], file_flag'[w], tika_message'[w], n),
         pc'[w] \in {"ready", "store", "check", "msgsnd"} => Sendable(job'[w], flist'[w])
  PROVE  WalkInv'
  <1>1. ASSUME NEW v \in Workers, pc'[v] = "walk"
        PROVE  \E n \in 0..Len(job'[v].files) :
                   Walking(job'[v].files, flist'[v], file_flag'[v], tika_message'[v], n)
    <2>1. CASE v = w
      BY <1>1, <2>1
    <2>2. CASE v # w
      <3>1. /\ pc[v] = "walk" /\ job'[v] = job[v] /\ flist'[v] = flist[v]
            /\ file_flag'[v] = file_flag[v] /\ tika_message'[v] = tika_message[v]
        BY <1>1, <2>2
      <3>2. \E n \in 0..Len(job[v].files) :
                Walking(job[v].files, flist[v], file_flag[v], tika_message[v], n)
        BY <3>1 DEF WalkInv
      <3> QED
        BY <3>1, <3>2
    <2> QED
      BY <2>1, <2>2
  <1>2. ASSUME NEW v \in Workers, pc'[v] \in {"ready", "store", "check", "msgsnd"}
        PROVE  Sendable(job'[v], flist'[v])
    <2>1. CASE v = w
      BY <1>2, <2>1
    <2>2. CASE v # w
      <3>1. /\ pc[v] \in {"ready", "store", "check", "msgsnd"}
            /\ job'[v] = job[v] /\ flist'[v] = flist[v]
        BY <1>2, <2>2
      <3>2. Sendable(job[v], flist[v])
        BY <3>1 DEF WalkInv
      <3> QED
        BY <3>1, <3>2
    <2> QED
      BY <2>1, <2>2
  <1>3. \A k \in 1..Len(toPolicy') : Sendable(toPolicy'[k].job, toPolicy'[k].flist)
    BY DEF WalkInv
  <1> QED
    BY <1>1, <1>2, <1>3 DEF WalkInv

\* A call starts at the first of its files; nothing of it is sent yet.
LEMMA CallWalk ==
  ASSUME WalkInv, NEW w \in Workers, Call(w)
  PROVE  WalkInv'
  <1>0. TypeOK
    BY DEF WalkInv
  <1> PICK j \in Jobs[begun + 1] :
         /\ job' = [job EXCEPT ![w] = j]
         /\ flist' = [flist EXCEPT ![w] = [i \in DOMAIN j.files |-> NewEntry(i)]]
    BY DEF Call
  <1>1. j \in Job /\ j.files \in Seq(File) /\ begun + 1 \in 1..Len(Jobs)
    <2>1. begun + 1 \in 1..Len(Jobs)
      BY <1>0, ExtractionAssumption DEF TypeOK, Call
    <2>2. Jobs[begun + 1] \in SUBSET Job
      BY <2>1, ExtractionAssumption
    <2> QED
      BY <2>1, <2>2 DEF Job
  <1> DEFINE L == [i \in DOMAIN j.files |-> NewEntry(i)]
  <1>2. Walking(j.files, L, 0, Blank, 0)
    BY <1>1, WalkStarts
  <1>3. L \in Seq(Entry) /\ Blank \in [Fields -> Value] /\ 0 \in 0..Len(j.files)
    BY <1>2 DEF Walking
  <1>4. /\ flist' = [flist EXCEPT ![w] = L] /\ file_flag' = [file_flag EXCEPT ![w] = 0]
        /\ tika_message' = [tika_message EXCEPT ![w] = Blank] /\ Goto(w, "walk")
        /\ UNCHANGED <<lock, toPolicy, outdata, log, unwritten, removals>> /\ begun' = begun + 1
    BY DEF Call, sharedVars
  <1> HIDE DEF L
  <1>5. TypeOK'
    <2>1. begun' \in 0..Len(Jobs)
      BY <1>0, <1>1, <1>4, ExtractionAssumption DEF TypeOK
    <2>2. /\ job' \in [Workers -> Job] /\ flist' \in [Workers -> Seq(Entry)]
          /\ file_flag' \in [Workers -> Nat] /\ tika_message' \in [Workers -> [Fields -> Value]]
      BY <1>0, <1>1, <1>3, <1>4, ZenonT(60) DEF TypeOK
    <2>3. pc' \in [Workers -> {"idle", "walk", "ready", "store", "check", "msgsnd", "testLog",
                              "count", "append"}]
      BY <1>0, <1>4, GotoTyped
    <2> QED
      BY <1>0, <1>4, <2>1, <2>2, <2>3 DEF TypeOK
  <1>6. /\ job'[w] = j /\ flist'[w] = L /\ file_flag'[w] = 0 /\ tika_message'[w] = Blank
        /\ pc'[w] = "walk"
        /\ \A v \in Workers \ {w} : /\ job'[v] = job[v] /\ flist'[v] = flist[v]
                                   /\ file_flag'[v] = file_flag[v]
                                   /\ tika_message'[v] = tika_message[v] /\ pc'[v] = pc[v]
    BY <1>0, <1>4, GotoTyped DEF TypeOK
  <1>7. \E n \in 0..Len(job'[w].files) :
            Walking(job'[w].files, flist'[w], file_flag'[w], tika_message'[w], n)
    BY <1>2, <1>3, <1>6
  <1> QED
    BY <1>4, <1>5, <1>6, <1>7, OthersWalk

\* What goes to the policies is the list that the walk leaves.
LEMMA WalkDoneWalk ==
  ASSUME WalkInv, NEW w \in Workers, WalkDone(w)
  PROVE  WalkInv'
  <1>0. TypeOK /\ job[w].files \in Seq(File)
    BY JobTyped DEF WalkInv
  <1>1. /\ UNCHANGED <<job, flist, file_flag, tika_message, lock, toPolicy, outdata, log,
                       unwritten, begun, removals>>
        /\ pc[w] = "walk" /\ file_flag[w] >= Len(flist[w])
    BY DEF WalkDone, localVars, sharedVars
  <1> PICK n \in 0..Len(job[w].files) :
         Walking(job[w].files, flist[w], file_flag[w], tika_message[w], n)
    BY <1>1 DEF WalkInv
  <1> PICK place \in {"idle", "ready"} :
         /\ Goto(w, place)
         /\ place = "ready" => ~(flist[w] = <<>> /\ job[w].prt = FTP)
    BY DEF WalkDone
  <1>2. pc'[w] = place /\ (\A v \in Workers \ {w} : pc'[v] = pc[v]) /\ TypeOK'
    BY <1>0, <1>1, GotoTyped DEF TypeOK
  <1>3. ASSUME pc'[w] = "ready" PROVE Sendable(job[w], flist[w])
    <2>1. /\ {flist[w][i].file : i \in 1..Len(flist[w])} = Usable(job[w].files, Len(job[w].files))
          /\ \A i \in 1..Len(flist[w]) : Own(flist[w][i], job[w].files)
      BY <1>0, <1>1, WalkEnds
    <2> QED
      BY <1>2, <1>3, <2>1 DEF Sendable
  <1> QED
    BY <1>1, <1>2, <1>3, OthersWalk

\* A file that is taken out leaves the others as they were.
LEMMA DropWalk ==
  ASSUME WalkInv, NEW w \in Workers, Drop(w)
  PROVE  WalkInv'
  <1>0. TypeOK /\ job[w].files \in Seq(File)
    BY JobTyped DEF WalkInv
  <1>1. /\ UNCHANGED <<pc, job, file_flag, tika_message, lock, toPolicy, outdata, log,
                       unwritten, begun, removals>>
        /\ pc[w] = "walk" /\ file_flag[w] < Len(flist[w])
        /\ flist' = [flist EXCEPT ![w] = RemoveAt(flist[w], file_flag[w] + 1)]
    BY DEF Drop, More, sharedVars
  <1> PICK F, L, c, t : F = job[w].files /\ L = flist[w] /\ c = file_flag[w] /\ t = tika_message[w]
    OBVIOUS
  <1> PICK n \in 0..Len(F) : Walking(F, L, c, t, n)
    BY <1>1 DEF WalkInv
  <1>2. L[c + 1].file = n + 1 /\ n + 1 \in 1..Len(F) /\ c + 1 \in 1..Len(L)
    BY <1>0, <1>1, AtCursor
  <1>3. ~(F[n + 1].exists /\ SizeFits(F[n + 1].size))
    BY <1>2 DEF Drop, Seen
  <1>4. Walking(F, RemoveAt(L, c + 1), c, t, n + 1)
    BY <1>0, <1>1, <1>3, DropWalks
  <1>5. RemoveAt(L, c + 1) \in Seq(Entry)
    BY <1>4 DEF Walking
  <1>6. TypeOK'
    BY <1>0, <1>1, <1>5 DEF TypeOK
  <1>7. /\ flist'[w] = RemoveAt(L, c + 1)
        /\ \A v \in Workers \ {w} : flist'[v] = flist[v]
    BY <1>0, <1>1 DEF TypeOK
  <1>8. n + 1 \in 0..Len(F)
    BY <1>2
  <1> QED
    BY <1>1, <1>4, <1>6, <1>7, <1>8, OthersWalk

\* What is written into an entry comes from the file of that entry.
LEMMA ParseWalk ==
  ASSUME WalkInv, NEW w \in Workers, Parse(w)
  PROVE  WalkInv'
  <1>0. TypeOK /\ job[w].files \in Seq(File)
    BY JobTyped DEF WalkInv
  <1>1. /\ UNCHANGED <<pc, job, lock, toPolicy, outdata, log, unwritten, begun, removals>>
        /\ pc[w] = "walk" /\ file_flag[w] < Len(flist[w])
        /\ tika_message' = [tika_message EXCEPT ![w] = TikaMessage(w)]
        /\ file_flag' = [file_flag EXCEPT ![w] = @ + 1]
    BY DEF Parse, More, sharedVars
  <1> PICK F, L, c, t, u : /\ F = job[w].files /\ L = flist[w] /\ c = file_flag[w]
                          /\ t = tika_message[w] /\ u = TikaMessage(w)
    OBVIOUS
  <1> PICK n \in 0..Len(F) : Walking(F, L, c, t, n)
    BY <1>1 DEF WalkInv
  <1>2. /\ L[c + 1].file = n + 1 /\ n + 1 \in 1..Len(F) /\ c + 1 \in 1..Len(L)
        /\ L[c + 1] = NewEntry(n + 1) /\ n \in Nat /\ c \in Nat
    BY <1>0, <1>1, AtCursor
  <1>3. Seen(w) = F[n + 1] /\ F[n + 1].exists /\ SizeFits(F[n + 1].size)
    BY <1>2 DEF Parse, Seen
  <1>4. /\ u \in [Fields -> Value]
        /\ \A f \in Fields :
              /\ u[f] <= n + 1
              /\ \/ u[f] = n + 1
                 \/ (F[n + 1].silent \/ f \notin F[n + 1].tika) /\ u[f] < n + 1
    <2>1. t \in [Fields -> Value] /\ \A f \in Fields : t[f] <= n
      BY DEF Walking
    <2> QED
      BY <1>2, <1>3, <2>1, TikaSays
  <1>9. /\ u \in [Fields -> Value] /\ \A f \in Fields : u[f] <= n + 1
        /\ n + 1 \in Nat \ {0}
    BY <1>2, <1>4
  <1> PICK M : /\ M = flist'[w] /\ \A v \in Workers \ {w} : flist'[v] = flist[v]
              /\ flist' = [flist EXCEPT ![w] = M] /\ Walking(F, M, c + 1, u, n + 1)
    <2>1. CASE UNCHANGED flist
      <3>1. NewEntry(n + 1) \in Entry /\ NewEntry(n + 1).file = n + 1 /\ Own(NewEntry(n + 1), F)
        BY <1>2, Entries DEF Own
      <3>2. L = [L EXCEPT ![c + 1] = NewEntry(n + 1)]
        <4>1. L \in Seq(Entry)
          BY DEF Walking
        <4> QED
          BY <1>2, <4>1
      <3>3. Walking(F, [L EXCEPT ![c + 1] = NewEntry(n + 1)], c + 1, u, n + 1)
        BY <1>0, <1>1, <1>3, <1>9, <3>1, ParseWalks
      <3>4. flist' = [flist EXCEPT ![w] = L]
        BY <1>0, <2>1 DEF TypeOK
      <3> QED
        BY <2>1, <3>2, <3>3, <3>4
    <2>2. CASE flist' = [flist EXCEPT ![w][c + 1] =
                             [file |-> @.file, parsed |-> TRUE, attrs |-> u]]
      <3> DEFINE e == [file |-> n + 1, parsed |-> TRUE, attrs |-> u]
      <3>1. e \in Entry
        BY <1>9, Entries
      <3>2. e.file = n + 1 /\ Own(e, F)
        BY <1>4 DEF Own
      <3>3. [file |-> L[c + 1].file, parsed |-> TRUE, attrs |-> u] = e
        BY <1>2
      <3>4. flist' = [flist EXCEPT ![w] = [L EXCEPT ![c + 1] = e]]
        BY <2>2, <3>3
      <3> HIDE DEF e
      <3>5. Walking(F, [L EXCEPT ![c + 1] = e], c + 1, u, n + 1)
        BY <1>0, <1>1, <1>3, <1>9, <3>1, <3>2, ParseWalks
      <3> QED
        BY <1>0, <3>4, <3>5 DEF TypeOK
    <2> QED
      BY <2>1, <2>2 DEF Parse
  <1>5. M \in Seq(Entry)
    BY DEF Walking
  <1>6. TypeOK'
    BY <1>0, <1>1, <1>4, <1>5 DEF TypeOK
  <1>7. /\ file_flag'[w] = c + 1 /\ tika_message'[w] = u
        /\ \A v \in Workers \ {w} : file_flag'[v] = file_flag[v] /\ tika_message'[v] = tika_message[v]
    BY <1>0, <1>1 DEF TypeOK
  <1>8. n + 1 \in 0..Len(F)
    BY <1>2
  <1> QED
    BY <1>1, <1>6, <1>7, <1>8, OthersWalk

\* Between the walk and the queue the thread's list stays as the walk left it.
LEMMA SendWalk ==
  ASSUME WalkInv, NEW w \in Workers,
         Lock(w) \/ Store(w) \/ CheckQueue(w) \/ TestLog(w) \/ CountLog(w) \/ AppendLog(w)
  PROVE  WalkInv'
  <1>0. TypeOK
    BY DEF WalkInv
  <1>1. UNCHANGED <<job, flist, file_flag, tika_message, toPolicy, begun, removals>>
    BY DEF Lock, Store, CheckQueue, TestLog, CountLog, AppendLog, localVars
  <1> PICK place \in {"idle", "store", "check", "msgsnd", "count", "append"} :
         /\ Goto(w, place)
         /\ place \in {"store", "check", "msgsnd"} =>
                pc[w] \in {"ready", "store", "check", "msgsnd"}
    BY DEF Lock, Store, CheckQueue, TestLog, CountLog, AppendLog, Unlock
  <1>2. pc'[w] = place /\ \A v \in Workers \ {w} : pc'[v] = pc[v]
    BY <1>0, GotoTyped
  <1>3. TypeOK'
    <2>1. lock' \in SUBSET Workers
      BY <1>0 DEF Lock, Store, CheckQueue, TestLog, CountLog, AppendLog, Unlock, TypeOK
    <2>2. outdata' \in Nat /\ unwritten' \in Nat /\ log' \in [exists : BOOLEAN, lines : Seq(Nat)]
      <3>1. CASE AppendLog(w)
        <4>1. log' = log \/ log' = [exists |-> TRUE, lines |-> Append(log.lines, outdata)]
          BY <3>1 DEF AppendLog
        <4>2. Append(log.lines, outdata) \in Seq(Nat)
          BY <1>0 DEF TypeOK
        <4>3. ASSUME NEW ls \in Seq(Nat)
              PROVE  [exists |-> TRUE, lines |-> ls] \in [exists : BOOLEAN, lines : Seq(Nat)]
          OBVIOUS
        <4>4. log \in [exists : BOOLEAN, lines : Seq(Nat)]
          BY <1>0 DEF TypeOK
        <4>5. outdata' \in Nat /\ unwritten' \in Nat
          BY <1>0, <3>1 DEF AppendLog, TypeOK
        <4> QED
          BY <4>1, <4>2, <4>3, <4>4, <4>5
      <3>2. CASE Lock(w) \/ Store(w) \/ CheckQueue(w) \/ TestLog(w) \/ CountLog(w)
        BY <1>0, <3>2 DEF Lock, Store, CheckQueue, TestLog, CountLog, TypeOK
      <3> QED
        BY <3>1, <3>2
    <2> QED
      BY <1>0, <1>1, <2>1, <2>2, GotoTyped DEF TypeOK
  <1>4. pc'[w] \in {"ready", "store", "check", "msgsnd"} => Sendable(job[w], flist[w])
    BY <1>2 DEF WalkInv
  <1> QED
    BY <1>1, <1>2, <1>3, <1>4, OthersWalk

\* What is put into the queue is what the walk left.
LEMMA MsgSndWalk ==
  ASSUME WalkInv, NEW w \in Workers, MsgSnd(w)
  PROVE  WalkInv'
  <1>0. TypeOK
    BY DEF WalkInv
  <1> DEFINE m == [job |-> job[w], flist |-> flist[w]]
             Message == [job : Job, flist : Seq(Entry)]
  <1>1. /\ UNCHANGED <<job, flist, file_flag, tika_message, lock, outdata, log, unwritten, begun,
                       removals>>
        /\ toPolicy' = Append(toPolicy, m) /\ Goto(w, "testLog") /\ pc[w] = "msgsnd"
    BY DEF MsgSnd, localVars
  <1>2. m \in Message /\ toPolicy \in Seq(Message) /\ m.job = job[w] /\ m.flist = flist[w]
    BY <1>0 DEF TypeOK
  <1>3. Sendable(m.job, m.flist)
    BY <1>1, <1>2 DEF WalkInv
  <1> HIDE DEF m, Message
  <1>4. /\ toPolicy' \in Seq(Message) /\ Len(toPolicy') = Len(toPolicy) + 1
        /\ \A k \in 1..Len(toPolicy) : toPolicy'[k] = toPolicy[k]
        /\ toPolicy'[Len(toPolicy) + 1] = m
    BY <1>1, <1>2, AppendProperties
  <1>5. pc'[w] = "testLog" /\ \A v \in Workers \ {w} : pc'[v] = pc[v]
    BY <1>0, <1>1, GotoTyped
  <1>6. TypeOK'
    BY <1>0, <1>1, <1>4, GotoTyped DEF TypeOK, Message
  <1>7. ASSUME NEW k \in 1..Len(toPolicy') PROVE Sendable(toPolicy'[k].job, toPolicy'[k].flist)
    <2>1. k \in 1..Len(toPolicy) \/ k = Len(toPolicy) + 1
      BY <1>2, <1>4
    <2>2. \A i \in 1..Len(toPolicy) : Sendable(toPolicy[i].job, toPolicy[i].flist)
      BY DEF WalkInv
    <2> QED
      BY <1>3, <1>4, <2>1, <2>2
  <1>8. \A v \in Workers : pc'[v] = "walk" =>
            \E n \in 0..Len(job'[v].files) :
                Walking(job'[v].files, flist'[v], file_flag'[v], tika_message'[v], n)
    BY <1>1, <1>5 DEF WalkInv
  <1>9. \A v \in Workers : pc'[v] \in {"ready", "store", "check", "msgsnd"} =>
            Sendable(job'[v], flist'[v])
    BY <1>1, <1>5 DEF WalkInv
  <1> QED
    BY <1>6, <1>7, <1>8, <1>9 DEF WalkInv

\* A message is taken, the log is removed, or nothing happens.
LEMMA ElseWalk ==
  ASSUME WalkInv, PolicyTakes \/ RemoveLog \/ UNCHANGED vars
  PROVE  WalkInv'
  <1>0. TypeOK
    BY DEF WalkInv
  <1> DEFINE Message == [job : Job, flist : Seq(Entry)]
  <1>1. UNCHANGED <<pc, job, flist, file_flag, tika_message, lock, outdata, unwritten, begun>>
    BY DEF PolicyTakes, RemoveLog, localVars, vars
  <1>2. toPolicy \in Seq(Message)
    BY <1>0 DEF TypeOK
  <1> HIDE DEF Message
  <1>3. /\ toPolicy' \in Seq(Message)
        /\ \A k \in 1..Len(toPolicy') : \E i \in 1..Len(toPolicy) : toPolicy'[k] = toPolicy[i]
    <2>1. CASE PolicyTakes
      <3>1. /\ toPolicy' \in Seq(Message) /\ Len(toPolicy') = Len(toPolicy) - 1
            /\ \A k \in 1..Len(toPolicy') : toPolicy'[k] = toPolicy[k + 1]
        BY <1>2, <2>1, HeadTailProperties DEF PolicyTakes
      <3>2. \A k \in 1..Len(toPolicy') : k + 1 \in 1..Len(toPolicy)
        BY <1>2, <3>1
      <3> QED
        BY <3>1, <3>2
    <2>2. CASE UNCHANGED toPolicy
      BY <1>2, <2>2
    <2> QED
      BY <2>1, <2>2 DEF RemoveLog, vars
  <1>4. log' \in [exists : BOOLEAN, lines : Seq(Nat)] /\ removals' \in 0..MaxRemovals
    <2>1. CASE RemoveLog
      BY <1>0, <2>1, ExtractionAssumption DEF RemoveLog, TypeOK
    <2>2. CASE UNCHANGED <<log, removals>>
      BY <1>0, <2>2 DEF TypeOK
    <2> QED
      BY <2>1, <2>2 DEF PolicyTakes, vars
  <1>5. TypeOK'
    BY <1>0, <1>1, <1>3, <1>4 DEF TypeOK, Message
  <1>6. \A k \in 1..Len(toPolicy') : Sendable(toPolicy'[k].job, toPolicy'[k].flist)
    <2>1. \A i \in 1..Len(toPolicy) : Sendable(toPolicy[i].job, toPolicy[i].flist)
      BY DEF WalkInv
    <2> QED
      BY <1>3, <2>1
  <1> QED
    BY <1>1, <1>5, <1>6 DEF WalkInv

\* The service starts with no call.
LEMMA WalkInit == Init => WalkInv
  <1> SUFFICES ASSUME Init PROVE WalkInv
    OBVIOUS
  <1>1. NoJob \in Job /\ Blank \in [Fields -> Value]
    BY DEF NoJob, Job, Blank, Value
  <1>2. TypeOK
    BY <1>1, ExtractionAssumption DEF Init, TypeOK
  <1>3. Len(toPolicy) = 0
    BY DEF Init
  <1> QED
    BY <1>2, <1>3 DEF Init, WalkInv

\* Every step keeps the walk in order.
LEMMA WalkNext == WalkInv /\ [Next]_vars => WalkInv'
  <1> SUFFICES ASSUME WalkInv, [Next]_vars PROVE WalkInv'
    OBVIOUS
  <1>1. ASSUME NEW w \in Workers, Call(w) \/ Extract(w) PROVE WalkInv'
    BY <1>1, CallWalk, WalkDoneWalk, DropWalk, ParseWalk, SendWalk, MsgSndWalk DEF Extract
  <1>2. CASE PolicyTakes \/ RemoveLog \/ UNCHANGED vars
    BY <1>2, ElseWalk
  <1> QED
    BY <1>1, <1>2 DEF Next

-----------------------------------------------------------------------------
(* What follows for every behaviour *)

\* Wherever the walk is, it has neither skipped nor repeated a file, and what is waiting
\* or on its way to the policy matcher is what a finished walk left.
THEOREM WalkCorrect == Spec => []WalkInv
BY WalkInit, WalkNext, PTL DEF Spec

\* Before the cursor are the usable files in order, behind it the rest of the argument.
LEMMA WalkedInOrder == WalkInv => WalkInOrder
  <1> SUFFICES ASSUME WalkInv, NEW w \in Workers, pc[w] = "walk"
               PROVE  \E seen \in 0..Len(job[w].files) :
                        LET usable == {i \in 1..seen : job[w].files[i].exists
                                                       /\ SizeFits(job[w].files[i].size)}
                            rest   == SubSeq(Files(flist[w]), file_flag[w] + 1, Len(flist[w]))
                        IN  /\ file_flag[w] = Cardinality(usable)
                            /\ {flist[w][i].file : i \in 1..file_flag[w]} = usable
                            /\ \A i \in 1..(file_flag[w] - 1) :
                                  flist[w][i].file < flist[w][i + 1].file
                            /\ rest = [i \in 1..(Len(job[w].files) - seen) |-> seen + i]
    BY DEF WalkInOrder
  <1> PICK F, L, c, t : F = job[w].files /\ L = flist[w] /\ c = file_flag[w] /\ t = tika_message[w]
    OBVIOUS
  <1> PICK n \in 0..Len(F) : Walking(F, L, c, t, n)
    BY DEF WalkInv
  <1>1. /\ F \in Seq(File) /\ Len(F) \in Nat /\ L \in Seq(Entry) /\ Len(L) = c + (Len(F) - n)
        /\ n \in Nat /\ c \in Nat
    BY JobTyped DEF WalkInv, Walking
  <1> DEFINE r    == Len(F) - n
             fs   == [i \in 1..Len(L) |-> L[i].file]
             rest == SubSeq(fs, c + 1, Len(L))
             want == [i \in 1..r |-> n + i]
  <1>2. Files(L) = fs
    BY <1>1 DEF Files
  <1>3. \A i \in 1..Len(L) : fs[i] \in Nat
    <2>1. \A i \in 1..Len(L) : L[i] \in Entry
      BY <1>1
    <2> QED
      BY <2>1 DEF Entry
  <1>4. rest \in Seq(Nat) /\ Len(rest) = r /\ \A i \in 1..r : rest[i] = L[c + i].file
    <2>1. /\ rest \in Seq(Nat)
          /\ Len(rest) = IF c + 1 <= Len(L) THEN Len(L) - (c + 1) + 1 ELSE 0
          /\ \A i \in 1..(Len(L) - (c + 1) + 1) : rest[i] = fs[(c + 1) + i - 1]
      <3>1. c + 1 \in Int /\ Len(L) \in Int /\ \A i \in (c + 1)..Len(L) : fs[i] \in Nat
        BY <1>1, <1>3
      <3> HIDE DEF fs
      <3> QED
        BY <3>1, SubSeqProperties
    <2>2. \A i \in 1..r : fs[(c + 1) + i - 1] = L[c + i].file
      <3>1. \A i \in 1..r : (c + 1) + i - 1 = c + i /\ c + i \in 1..Len(L)
        BY <1>1
      <3> QED
        BY <3>1
    <2>3. Len(L) - (c + 1) + 1 = r /\ (c + 1 <= Len(L) \/ r = 0) /\ r \in Nat
      BY <1>1
    <2> HIDE DEF rest, fs, r
    <2> QED
      BY <1>1, <2>1, <2>2, <2>3
  <1>5. want \in Seq(Nat) /\ Len(want) = r
    BY <1>1
  <1>6. \A i \in 1..r : rest[i] = want[i]
    <2> SUFFICES ASSUME NEW i \in 1..r PROVE rest[i] = n + i
      OBVIOUS
    <2>1. L[c + i] = NewEntry(n + i) /\ n + i \in Nat \ {0}
      BY <1>1 DEF Walking
    <2> QED
      BY <1>4, <2>1, Entries
  <1> HIDE DEF fs, rest, want
  <1>7. rest = want
    BY <1>4, <1>5, <1>6, SeqEqual
  <1>8. /\ c = Cardinality(Usable(F, n))
        /\ {L[i].file : i \in 1..c} = Usable(F, n)
        /\ \A i \in 1..(c - 1) : L[i].file < L[i + 1].file
    BY DEF Walking
  <1>9. SubSeq(Files(flist[w]), file_flag[w] + 1, Len(flist[w])) = [i \in 1..(Len(F) - n) |-> n + i]
    BY <1>2, <1>7 DEF rest, want
  <1>10. Usable(F, n) = {i \in 1..n : F[i].exists /\ SizeFits(F[i].size)}
    BY DEF Usable
  <1>11. Usable(F, n) = {i \in 1..n : job[w].files[i].exists /\ SizeFits(job[w].files[i].size)}
    BY <1>10
  <1>12. /\ file_flag[w] = Cardinality(Usable(F, n))
         /\ {flist[w][i].file : i \in 1..file_flag[w]} = Usable(F, n)
         /\ \A i \in 1..(file_flag[w] - 1) : flist[w][i].file < flist[w][i + 1].file
    BY <1>8
  <1>13. SubSeq(Files(flist[w]), file_flag[w] + 1, Len(flist[w]))
            = [i \in 1..(Len(job[w].files) - n) |-> n + i]
    BY <1>9
  <1> WITNESS n \in 0..Len(job[w].files)
  <1> QED
    BY <1>11, <1>12, <1>13, ZenonT(60)

\* Every message names the usable files of its list and no other - but for those whose
\* size does not fit an int - and an ftp text names at least one.
THEOREM SentAreUsable == Spec => []SentWithinBounds
  <1>1. WalkInv => SentWithinBounds
    <2> SUFFICES ASSUME WalkInv, NEW k \in DOMAIN toPolicy, NEW m, m = toPolicy[k]
                 PROVE  LET sent   == {m.flist[i].file : i \in DOMAIN m.flist}
                            exist  == {i \in DOMAIN m.job.files : m.job.files[i].exists}
                            usable == {i \in exist : m.job.files[i].size \in 1..MaxFilesize}
                            wraps  == {i \in exist : m.job.files[i].size > IntMax}
                        IN  /\ usable \ wraps \subseteq sent /\ sent \subseteq usable \cup wraps
                            /\ m.job.prt = FTP => sent # {}
      BY WalkedInOrder, ZenonT(60) DEF SentWithinBounds, WalkInv
    <2>0. toPolicy \in Seq([job : Job, flist : Seq(Entry)])
      BY DEF WalkInv, TypeOK
    <2> PICK F, L : F = m.job.files /\ L = m.flist
      OBVIOUS
    <2>1. m \in [job : Job, flist : Seq(Entry)] /\ k \in 1..Len(toPolicy)
      <3>1. ASSUME NEW T, toPolicy \in Seq(T)
            PROVE  toPolicy[k] \in T /\ k \in 1..Len(toPolicy)
        BY <3>1
      <3> QED
        BY <2>0, <3>1
    <2>2. /\ F \in Seq(File) /\ L \in Seq(Entry)
          /\ DOMAIN F = 1..Len(F) /\ DOMAIN L = 1..Len(L) /\ Len(L) \in Nat
      BY <2>1 DEF Job
    <2>3. Sendable(m.job, L)
      BY <2>1 DEF WalkInv
    <2> DEFINE sent  == {L[i].file : i \in 1..Len(L)}
               exist == {i \in 1..Len(F) : F[i].exists}
    <2>4. sent = {i \in 1..Len(F) : F[i].exists /\ SizeFits(F[i].size)}
      BY <2>3 DEF Sendable, Usable
    <2>5. \A i \in 1..Len(F) : F[i].size \in Nat
      <3> TAKE i \in 1..Len(F)
      <3>1. F[i] \in File
        BY <2>2
      <3> QED
        BY <3>1 DEF File
    <2>6. ASSUME NEW i \in 1..Len(F), F[i].size <= IntMax
          PROVE  SizeFits(F[i].size) <=> F[i].size \in 1..MaxFilesize
      <3>1. F[i].size \in 0..IntMax
        BY <2>5, <2>6, ExtractionAssumption
      <3>2. AsInt(F[i].size) = F[i].size
        BY <3>1, FitsInt
      <3> QED
        BY <2>5, <3>2, ExtractionAssumption DEF SizeFits
    <2>7. \A i \in 1..Len(F) : F[i].size > IntMax \/ F[i].size <= IntMax
      BY <2>5, ExtractionAssumption
    <2>8. ASSUME m.job.prt = FTP PROVE sent # {}
      <3>1. L # <<>>
        BY <2>3, <2>8 DEF Sendable
      <3>2. 1 \in 1..Len(L)
        BY <2>2, <3>1
      <3> QED
        BY <3>2
    <2>9. /\ {i \in exist : F[i].size \in 1..MaxFilesize} \ {i \in exist : F[i].size > IntMax}
              \subseteq sent
          /\ sent \subseteq {i \in exist : F[i].size \in 1..MaxFilesize}
                           \cup {i \in exist : F[i].size > IntMax}
      BY <2>4, <2>6, <2>7
    <2>10. /\ {m.flist[i].file : i \in DOMAIN m.flist} = sent
           /\ {i \in DOMAIN m.job.files : m.job.files[i].exists} = exist
      BY <2>2
    <2> HIDE DEF sent, exist
    <2> QED
      BY <2>8, <2>9, <2>10
  <1> QED
    BY <1>1, WalkCorrect, PTL

\* An attribute in a message is that of the file it stands with, or, where tika gave that
\* file none, that of a file before it.
THEOREM AttributesAreOwn == Spec => []AttributesOwn
  <1>1. WalkInv => AttributesOwn
    <2> SUFFICES ASSUME WalkInv, NEW k \in DOMAIN toPolicy, NEW m, m = toPolicy[k],
                        NEW i \in DOMAIN m.flist
                 PROVE  Own(m.flist[i], m.job.files)
      BY DEF AttributesOwn, Own
    <2>0. toPolicy \in Seq([job : Job, flist : Seq(Entry)])
      BY DEF WalkInv, TypeOK
    <2>1. m \in [job : Job, flist : Seq(Entry)] /\ k \in 1..Len(toPolicy)
      <3>1. ASSUME NEW T, toPolicy \in Seq(T)
            PROVE  toPolicy[k] \in T /\ k \in 1..Len(toPolicy)
        BY <3>1
      <3> QED
        BY <2>0, <3>1
    <2>2. i \in 1..Len(m.flist)
      BY <2>1
    <2> QED
      BY <2>1, <2>2 DEF WalkInv, Sendable
  <1> QED
    BY <1>1, WalkCorrect, PTL

-----------------------------------------------------------------------------
(***************************************************************************)
(* The list of a mail: what is on the way through the tree, what is in the *)
(* list and what the text names, for any tree and any one failure.         *)
(***************************************************************************)

-----------------------------------------------------------------------------
(* Places and their order *)

\* No place comes before itself, and the order is transitive.
LEMMA BeforeOrders ==
    ASSUME NEW p \in Seq(Nat), NEW q \in Seq(Nat)
    PROVE  /\ ~Before(p, p)
           /\ \A r \in Seq(Nat) : Before(p, q) /\ Before(q, r) => Before(p, r)
           /\ Before(p, q) => ~Before(q, p)
<1>1. \A x \in Seq(Nat) : DOMAIN x = 1..Len(x) /\ Len(x) \in Nat /\ \A n \in DOMAIN x : x[n] \in Nat
  OBVIOUS
<1>2. \A x \in Seq(Nat) : ~Before(x, x)
  BY <1>1 DEF Before
<1>3. ASSUME NEW r \in Seq(Nat), NEW x \in Seq(Nat), NEW y \in Seq(Nat), Before(x, y), Before(y, r)
      PROVE  Before(x, r)
  <2>1. PICK m \in DOMAIN x \cap DOMAIN y : x[m] < y[m] /\ \A k \in 1..(m - 1) : x[k] = y[k]
    BY <1>3 DEF Before
  <2>2. PICK n \in DOMAIN y \cap DOMAIN r : y[n] < r[n] /\ \A k \in 1..(n - 1) : y[k] = r[k]
    BY <1>3 DEF Before
  <2>0. /\ DOMAIN x = 1..Len(x) /\ DOMAIN y = 1..Len(y) /\ DOMAIN r = 1..Len(r)
        /\ Len(x) \in Nat /\ Len(y) \in Nat /\ Len(r) \in Nat
    OBVIOUS
  <2>3. m \in Nat \ {0} /\ n \in Nat \ {0} /\ m \in 1..Len(x) /\ m \in 1..Len(y) /\ n \in 1..Len(y) /\ n \in 1..Len(r)
    BY <2>0
  <2>4. /\ x[m] \in Nat /\ y[m] \in Nat /\ y[n] \in Nat /\ r[n] \in Nat
    BY <1>1
  <2>5. CASE m < n
    <3>1. m \in DOMAIN r /\ y[m] = r[m]
      BY <2>0, <2>2, <2>3, <2>5
    <3>2. \A k \in 1..(m - 1) : x[k] = r[k]
      BY <2>1, <2>2, <2>3, <2>5
    <3> QED
      BY <2>1, <3>1, <3>2 DEF Before
  <2>6. CASE n < m
    <3>1. n \in DOMAIN x /\ x[n] = y[n]
      BY <2>0, <2>1, <2>3, <2>6
    <3>2. \A k \in 1..(n - 1) : x[k] = r[k]
      BY <2>1, <2>2, <2>3, <2>6
    <3> QED
      BY <2>2, <3>1, <3>2 DEF Before
  <2>7. CASE m = n
    <3>1. r[m] \in Nat /\ x[m] < r[m] /\ m \in DOMAIN r
      BY <2>1, <2>2, <2>4, <2>7
    <3>2. \A k \in 1..(m - 1) : x[k] = r[k]
      BY <2>1, <2>2, <2>7
    <3> QED
      BY <2>1, <3>1, <3>2 DEF Before
  <2> QED
    BY <2>3, <2>5, <2>6, <2>7
<1> QED
  BY <1>2, <1>3

\* What is below a place is where the place is.
LEMMA BeforeBelow ==
    ASSUME NEW p \in Seq(Nat), NEW q \in Seq(Nat), Before(p, q), NEW n \in Nat
    PROVE  Before(Append(p, n), q) /\ Before(p, Append(q, n))
<1>1. PICK m \in DOMAIN p \cap DOMAIN q : p[m] < q[m] /\ \A k \in 1..(m - 1) : p[k] = q[k]
  BY DEF Before
<1>2. ASSUME NEW x \in Seq(Nat), m \in DOMAIN x
      PROVE  m \in DOMAIN Append(x, n) /\ \A k \in 1..m : Append(x, n)[k] = x[k]
  <2>1. DOMAIN x = 1..Len(x) /\ DOMAIN Append(x, n) = 1..(Len(x) + 1) /\ Len(x) \in Nat
    OBVIOUS
  <2> QED
    BY <1>2, <2>1
<1>3. m \in Nat \ {0}
  OBVIOUS
<1>4. m \in 1..m /\ \A k \in 1..(m - 1) : k \in 1..m
  BY <1>3
<1> QED
  BY <1>1, <1>2, <1>4 DEF Before

\* The parts of a multipart come in order.
LEMMA PartsInOrder ==
    ASSUME NEW p \in Seq(Nat), NEW m \in Nat, NEW n \in Nat, m < n
    PROVE  Before(Append(p, m), Append(p, n))
<1>1. \A k \in Nat : /\ Append(p, k) \in Seq(Nat) /\ DOMAIN Append(p, k) = 1..(Len(p) + 1)
                     /\ Append(p, k)[Len(p) + 1] = k /\ \A j \in 1..Len(p) : Append(p, k)[j] = p[j]
  OBVIOUS
<1>2. Len(p) \in Nat /\ Len(p) + 1 \in 1..(Len(p) + 1) /\ Len(p) + 1 - 1 = Len(p)
  OBVIOUS
<1> QED
  BY <1>1, <1>2 DEF Before

-----------------------------------------------------------------------------
(* The tree *)

\* Place p is q or below it.
Under(p, q) == Len(q) <= Len(p) /\ \A m \in 1..Len(q) : p[m] = q[m]

\* The message is a tree.
LEMMA TreeIs ==
    ASSUME message \in Messages
    PROVE  /\ <<>> \in DOMAIN message /\ DOMAIN message \subseteq Seq(Nat)
           /\ \A p \in DOMAIN message :
                 /\ message[p].kind \in {"multipart", "message", "part"}
                 /\ message[p].parts \in Nat /\ (message[p].kind # "multipart" => message[p].parts = 0)
                 /\ \A n \in 1..message[p].parts : Append(p, n) \in DOMAIN message
                 /\ \A n \in 1..Len(p) :
                       \E q \in DOMAIN message : q = SubSeq(p, 1, n - 1) /\ p[n] \in 1..message[q].parts
           /\ Leaves \subseteq DOMAIN message /\ MailTexts \subseteq Leaves /\ Attachments \subseteq Leaves
           /\ IsFiniteSet(Leaves) /\ IsFiniteSet(Attachments)
<1>1. IsTree(message)
  BY MailPartsAssumption
<1>2. Leaves \subseteq DOMAIN message /\ MailTexts \subseteq Leaves /\ Attachments \subseteq Leaves
  BY DEF Leaves, MailTexts, Attachments
<1>3. IsFiniteSet(Leaves) /\ IsFiniteSet(Attachments)
  BY <1>1, <1>2, FS_Subset DEF IsTree
<1> QED
  BY <1>1, <1>2, <1>3 DEF IsTree

\* Everything is below the root.
LEMMA UnderRoot ==
    ASSUME NEW p \in Seq(Nat)
    PROVE  Under(p, <<>>)
<1>1. Len(<<>>) = 0 /\ Len(p) \in Nat
  OBVIOUS
<1> QED
  BY <1>1 DEF Under

\* What is below a place but not there is below one of its parts.
LEMMA UnderOne ==
    ASSUME message \in Messages, NEW p \in DOMAIN message, NEW h \in DOMAIN message, Under(p, h), p # h
    PROVE  \E n \in 1..message[h].parts : Under(p, Append(h, n))
<1>1. p \in Seq(Nat) /\ h \in Seq(Nat)
  BY TreeIs
<1>2. Len(p) \in Nat /\ Len(h) \in Nat /\ DOMAIN p = 1..Len(p) /\ DOMAIN h = 1..Len(h)
  BY <1>1
<1>3. Len(h) < Len(p)
  <2>1. Len(h) <= Len(p) /\ \A n \in 1..Len(h) : p[n] = h[n]
    BY DEF Under
  <2>2. ASSUME Len(p) = Len(h) PROVE FALSE
    BY <1>1, <2>1, <2>2, SeqEqual
  <2>3. Len(p) \in Nat /\ Len(h) \in Nat
    BY <1>2
  <2> QED
    BY <2>1, <2>2, <2>3
<1>4. Len(h) + 1 \in 1..Len(p) /\ Len(h) + 1 - 1 = Len(h)
  BY <1>2, <1>3
<1>5. PICK q \in DOMAIN message : q = SubSeq(p, 1, Len(h)) /\ p[Len(h) + 1] \in 1..message[q].parts
  BY <1>4, TreeIs
<1>6. q = h
  <2>1. Len(SubSeq(p, 1, Len(h))) = Len(h) /\ \A n \in 1..Len(h) : SubSeq(p, 1, Len(h))[n] = p[n]
    BY <1>1, <1>2, <1>3
  <2>2. \A n \in 1..Len(h) : p[n] = h[n]
    BY DEF Under
  <2>3. q \in Seq(Nat)
    BY TreeIs
  <2> QED
    BY <1>1, <1>5, <2>1, <2>2, <2>3, SeqEqual
<1> DEFINE n == p[Len(h) + 1]
<1>7. n \in 1..message[h].parts
  BY <1>5, <1>6
<1>8. Under(p, Append(h, n))
  <2>1. message[h].parts \in Nat
    BY TreeIs
  <2>2. n \in Nat
    BY <1>7, <2>1
  <2> HIDE DEF n
  <2>3. Len(Append(h, n)) = Len(h) + 1 /\ Append(h, n)[Len(h) + 1] = n
        /\ \A m \in 1..Len(h) : Append(h, n)[m] = h[m]
    BY <1>1, <2>2
  <2>4. \A m \in 1..Len(h) : p[m] = h[m]
    BY DEF Under
  <2>5. \A m \in 1..(Len(h) + 1) : m \in 1..Len(h) \/ m = Len(h) + 1
    BY <1>2
  <2>6. p[Len(h) + 1] = n
    BY DEF n
  <2>7. Len(h) + 1 <= Len(p)
    BY <1>4
  <2> QED
    BY <2>3, <2>4, <2>5, <2>6, <2>7 DEF Under
<1> QED
  BY <1>7, <1>8

\* Nothing is below a leaf.
LEMMA UnderLeaf ==
    ASSUME message \in Messages, NEW p \in DOMAIN message, NEW h \in DOMAIN message, Under(p, h),
           message[h].kind # "multipart"
    PROVE  p = h
<1> SUFFICES ASSUME p # h PROVE FALSE
  OBVIOUS
<1>1. message[h].parts = 0
  BY TreeIs
<1>2. PICK n \in 1..message[h].parts : Under(p, Append(h, n))
  BY UnderOne
<1> QED
  BY <1>1, <1>2

-----------------------------------------------------------------------------
(* The invariant *)

\* The names that parts have; nodes of the list, entries of the text.
Names  == {NULL, ""} \cup {message[p].filename : p \in Leaves}
Node   == [file : Leaves, filename : Names, contentflag : BOOLEAN]
Listed == [fp : Leaves, fn : Names, fs : {1, -1}]

\* The types.
MailShapes ==
    /\ message \in Messages
    /\ at \in {"mysmtp", "write", "json", "free", "done", "crashed"}
    /\ todo \in Seq(DOMAIN message) /\ hasList \in BOOLEAN /\ nodes \in Seq(Node)
    /\ disk \subseteq Leaves /\ streams \in Nat /\ lost \in Nat
    /\ converted \in 0..Cardinality(Leaves)
    /\ objectmsg.fn \in Names
    /\ json \in [is : BOOLEAN, plain : SUBSET Leaves, flist : Seq(Listed)]

\* What the failure took, and what it left.
MailReturned ==
    /\ failed \notin {"node", "dump", "list"} => lost = 0
    /\ failed # "write" => streams = 0
    /\ at = "done" => nodes = <<>> /\ ~hasList
    /\ json.is => at \in {"free", "done"}

\* Places in the order of the mail.
InOrder(s) == \A m, n \in DOMAIN s : m < n => Before(s[m], s[n])

\* The list has leaves of the mail in their order, each with its own name.
NodesInOrder ==
    /\ \A n \in DOMAIN nodes :
          /\ nodes[n].filename = message[nodes[n].file].filename
          /\ nodes[n].contentflag <=> nodes[n].file \in MailTexts
    /\ \A m, n \in DOMAIN nodes : m < n => Before(nodes[m].file, nodes[n].file)

\* What is to come is in order and behind all that was written.
TodoInOrder ==
    /\ InOrder(todo)
    /\ \A m \in DOMAIN nodes : \A n \in DOMAIN todo : Before(nodes[m].file, todo[n])

\* The files of the list, and those of them that are on disk.
NodeFiles == {nodes[n].file : n \in DOMAIN nodes}
Kept == NodeFiles \cap disk
\* Leaves that were reached and are not both in the list and on disk.
Gone == {p \in Leaves \ Kept : \A n \in DOMAIN todo : ~Under(p, todo[n])}

AtMostOne(S) == \A p, q \in S : p = q

\* Nothing has happened yet.
Beginning == at = "mysmtp" => todo = <<>> /\ nodes = <<>> /\ disk = {} /\ failed = NULL

\* Nothing is in the text before pro_smtp_jsonstr.
Unread == at \in {"mysmtp", "write"} => json.flist = <<>> /\ json.plain = {} /\ converted = 0

\* Within write_part: if nothing failed, all leaves that were reached are in the list and on disk.
MidWalk ==
    at = "write" =>
        /\ hasList \/ failed = "list"
        /\ TodoInOrder
        /\ hasList => AtMostOne(Gone)
        /\ hasList /\ failed = NULL => Gone = {} /\ disk = NodeFiles

\* Files of the nodes that pro_smtp_jsonstr has seen.
SeenFiles == {nodes[n].file : n \in 1..converted}

\* The first of some texts, if there is one.
PlainOf(S) == {t \in S : \A x \in S : ~Before(x, t)}

\* An entry has its own name.
FnRight(entry) ==
    /\ message[entry.fp].filename = NULL => entry.fn = ""
    /\ message[entry.fp].filename \notin {NULL, BadUtf8} => entry.fn = message[entry.fp].filename

\* The entries are in the order of the mail.
ListedInOrder ==
    /\ \A m, n \in DOMAIN json.flist : m < n => Before(json.flist[m].fp, json.flist[n].fp)
    /\ \A n \in DOMAIN json.flist : FnRight(json.flist[n])

FlistFiles == {json.flist[n].fp : n \in DOMAIN json.flist}

\* Within pro_smtp_jsonstr: what the text says of the nodes seen.
Converting ==
    at = "json" =>
        /\ hasList /\ converted <= Len(nodes)
        /\ FlistFiles = SeenFiles \cap Attachments
        /\ ListedInOrder
        /\ json.plain = PlainOf(SeenFiles \cap MailTexts) /\ (json.plain = {} => SeenFiles \cap MailTexts = {})
        /\ AtMostOne(Attachments \ Kept)
        /\ failed = NULL => NodeFiles = Leaves /\ disk = Leaves \ ((SeenFiles \cap MailTexts) \ json.plain)

\* What a text that was made says of the mail.
Ready ==
    json.is =>
        /\ AtMostOne(Attachments \ (Named \cap disk))
        /\ failed = NULL => /\ disk = Named /\ FlistFiles = Attachments /\ ListedInOrder
                            /\ json.plain = PlainOf(MailTexts)

MailInv == MailShapes /\ MailReturned /\ NodesInOrder /\ Beginning /\ Unread /\ MidWalk /\ Converting /\ Ready

-----------------------------------------------------------------------------
(* The walk *)

\* What is said of the mail stays while the mail stays.
LEMMA MailStays ==
    ASSUME message' = message
    PROVE  /\ Leaves' = Leaves /\ MailTexts' = MailTexts /\ Attachments' = Attachments
           /\ Names' = Names /\ Node' = Node /\ Listed' = Listed
<1>1. Leaves' = Leaves
  BY DEF Leaves
<1>2. MailTexts' = MailTexts
  BY <1>1 DEF MailTexts
<1>3. Names' = Names
  BY <1>1 DEF Names
<1> QED
  BY <1>1, <1>2, <1>3 DEF Attachments, Node, Listed

\* The next place and those after it.
LEMMA TodoIs ==
    ASSUME MailShapes, todo # <<>>
    PROVE  /\ Head(todo) \in DOMAIN message /\ 1 \in DOMAIN todo /\ todo[1] = Head(todo)
           /\ Tail(todo) \in Seq(DOMAIN message)
           /\ \A n \in DOMAIN Tail(todo) : n \in Nat /\ n + 1 \in DOMAIN todo /\ todo[n + 1] = Tail(todo)[n]
           /\ \A n \in DOMAIN todo : n # 1 => n - 1 \in DOMAIN Tail(todo)
<1>1. todo \in Seq(DOMAIN message)
  BY DEF MailShapes
<1>2. Len(todo) \in Nat \ {0} /\ DOMAIN todo = 1..Len(todo) /\ \A n \in DOMAIN todo : todo[n] \in DOMAIN message
  BY <1>1
<1>3. Head(todo) = todo[1] /\ 1 \in DOMAIN todo
  BY <1>1, <1>2
<1>4. Tail(todo) \in Seq(DOMAIN message) /\ Len(Tail(todo)) = Len(todo) - 1 /\ DOMAIN Tail(todo) = 1..Len(Tail(todo))
      /\ \A n \in 1..(Len(todo) - 1) : Tail(todo)[n] = todo[n + 1]
  BY <1>1
<1> QED
  BY <1>2, <1>3, <1>4

\* Two sequences put together.
LEMMA JoinedIs ==
    ASSUME NEW S, NEW s \in Seq(S), NEW t \in Seq(S)
    PROVE  /\ s \o t \in Seq(S) /\ Len(s \o t) = Len(s) + Len(t) /\ DOMAIN (s \o t) = 1..Len(s \o t)
           /\ \A n \in 1..(Len(s) + Len(t)) : (s \o t)[n] = IF n <= Len(s) THEN s[n] ELSE t[n - Len(s)]
<1>1. s \o t \in Seq(S) /\ Len(s \o t) = Len(s) + Len(t)
  OBVIOUS
<1>2. \A n \in 1..(Len(s) + Len(t)) : (s \o t)[n] = IF n <= Len(s) THEN s[n] ELSE t[n - Len(s)]
  OBVIOUS
<1> QED
  BY <1>1, <1>2

\* Before mysmtp runs nothing has happened.
LEMMA MailInit == InitMail => MailInv
<1> SUFFICES ASSUME InitMail PROVE MailInv
  OBVIOUS
<1> USE DEF InitMail
<1>1. MailShapes
  <2>1. IsFiniteSet(Leaves)
    BY TreeIs
  <2>2. Cardinality(Leaves) \in Nat
    BY <2>1, FS_CardinalityType
  <2>3. converted \in 0..Cardinality(Leaves)
    BY <2>2
  <2>4. objectmsg.fn \in Names
    BY DEF Names
  <2>5. json \in [is : BOOLEAN, plain : SUBSET Leaves, flist : Seq(Listed)]
    OBVIOUS
  <2>6. todo \in Seq(DOMAIN message) /\ nodes \in Seq(Node)
    OBVIOUS
  <2> QED
    BY <2>3, <2>4, <2>5, <2>6 DEF MailShapes
<1>2. MailReturned
  BY DEF MailReturned
<1>3. NodesInOrder
  BY DEF NodesInOrder
<1>4. Beginning /\ Unread
  BY DEF Beginning, Unread
<1>5. MidWalk /\ Converting /\ Ready
  BY DEF MidWalk, Converting, Ready
<1> QED
  BY <1>1, <1>2, <1>3, <1>4, <1>5 DEF MailInv

\* mysmtp begins the walk at the root, unless the mail cannot be parsed.
LEMMA MysmtpKeeps == MailInv /\ Mysmtp => MailInv'
<1> SUFFICES ASSUME MailInv, Mysmtp PROVE MailInv'
  OBVIOUS
<1>1. /\ message' = message /\ nodes' = nodes /\ disk' = disk /\ streams' = streams /\ lost' = lost
      /\ converted' = converted /\ objectmsg' = objectmsg /\ json' = json /\ at = "mysmtp"
  BY DEF Mysmtp
<1>2. /\ MailShapes /\ MailReturned /\ NodesInOrder /\ Beginning /\ Unread
  BY DEF MailInv
<1>3. /\ todo = <<>> /\ nodes = <<>> /\ disk = {} /\ failed = NULL
      /\ json.flist = <<>> /\ json.plain = {} /\ converted = 0
  BY <1>1, <1>2 DEF Beginning, Unread
<1>4. \/ at' = "write" /\ todo' = <<<<>>>> /\ hasList' = TRUE /\ failed' = failed
      \/ at' = "write" /\ todo' = <<<<>>>> /\ hasList' = hasList /\ failed' = "list"
      \/ at' = "free" /\ hasList' \in {hasList, TRUE} /\ todo' = todo
  BY DEF Mysmtp, Fault, NoFault
<1>5. MailShapes'
  <2>1. todo' \in Seq(DOMAIN message)
    <3>1. message \in Messages /\ todo \in Seq(DOMAIN message)
      BY <1>2 DEF MailShapes
    <3>2. <<>> \in DOMAIN message
      BY <3>1, TreeIs
    <3>3. \A p \in DOMAIN message : <<p>> \in Seq(DOMAIN message)
      OBVIOUS
    <3> QED
      BY <1>4, <3>1, <3>2, <3>3
  <2>2. hasList' \in BOOLEAN /\ at' \in {"write", "free"}
    BY <1>2, <1>4 DEF MailShapes
  <2> QED
    BY <1>1, <1>2, <2>1, <2>2, MailStays DEF MailShapes
<1>6. MailReturned'
  <2>1. ~json.is /\ lost = 0 /\ streams = 0
    BY <1>1, <1>2, <1>3 DEF MailReturned, NULL
  <2> QED
    BY <1>1, <1>4, <2>1 DEF MailReturned
<1>7. NodesInOrder'
  BY <1>1, <1>2, MailStays DEF NodesInOrder
<1>8. Beginning' /\ Unread'
  BY <1>1, <1>3, <1>4 DEF Beginning, Unread
<1>9. MidWalk'
  <2> SUFFICES ASSUME at' = "write" PROVE MidWalk'
    BY DEF MidWalk
  <2>1. todo' = <<<<>>>> /\ (hasList' \/ failed' = "list")
    BY <1>3, <1>4
  <2>2. DOMAIN todo' = {1} /\ todo'[1] = <<>>
    BY <2>1
  <2>3. TodoInOrder'
    BY <1>1, <1>3, <2>2 DEF TodoInOrder, InOrder
  <2>4. Gone' = {}
    <3>1. \A p \in Leaves' : Under(p, todo'[1])
      <4>1. message \in Messages
        BY <1>2 DEF MailShapes
      <4> QED
        BY <1>1, <2>2, <4>1, TreeIs, UnderRoot, MailStays
    <3> QED
      BY <2>2, <3>1 DEF Gone
  <2>5. NodeFiles' = {} /\ disk' = {}
    BY <1>1, <1>3 DEF NodeFiles
  <2> QED
    BY <2>1, <2>3, <2>4, <2>5 DEF MidWalk, AtMostOne
<1>10. Converting'
  BY <1>4 DEF Converting
<1>11. Ready'
  BY <1>1, <1>2 DEF Ready, MailReturned
<1> QED
  BY <1>5, <1>6, <1>7, <1>8, <1>9, <1>10, <1>11 DEF MailInv

\* The parts of a multipart take its place.
LEMMA MultipartKeeps == MailInv /\ Multipart => MailInv'
<1> SUFFICES ASSUME MailInv, Multipart PROVE MailInv'
  OBVIOUS
<1>1. /\ message' = message /\ nodes' = nodes /\ disk' = disk /\ streams' = streams /\ lost' = lost
      /\ converted' = converted /\ objectmsg' = objectmsg /\ json' = json /\ at = "write" /\ at' = at
      /\ hasList' = hasList /\ failed' = failed /\ todo # <<>> /\ message[Head(todo)].kind = "multipart"
      /\ todo' = [n \in 1..message[Head(todo)].parts |-> Append(Head(todo), n)] \o Tail(todo)
  BY DEF Multipart, Part
<1>2. MailShapes /\ MailReturned /\ NodesInOrder /\ Unread /\ MidWalk
  BY DEF MailInv
<1>3. message \in Messages
  BY <1>2 DEF MailShapes
<1> DEFINE h == Head(todo)
           k == message[h].parts
           parts == [n \in 1..k |-> Append(h, n)]
           rest == Tail(todo)
<1>4. /\ h \in DOMAIN message /\ 1 \in DOMAIN todo /\ todo[1] = h /\ rest \in Seq(DOMAIN message)
      /\ \A n \in DOMAIN rest : n \in Nat /\ n + 1 \in DOMAIN todo /\ todo[n + 1] = rest[n]
      /\ \A n \in DOMAIN todo : n # 1 => n - 1 \in DOMAIN rest
  BY <1>1, <1>2, TodoIs
<1>5. h \in Seq(Nat) /\ k \in Nat /\ \A n \in 1..k : Append(h, n) \in DOMAIN message
  BY <1>3, <1>4, TreeIs
<1>6. todo' = parts \o rest
  BY <1>1
<1>7. message[h].kind = "multipart"
  BY <1>1
<1> HIDE DEF h, k, rest
<1>8. parts \in Seq(DOMAIN message) /\ Len(parts) = k /\ \A n \in 1..k : parts[n] = Append(h, n)
  BY <1>5
<1> HIDE DEF parts
<1>9. /\ todo' \in Seq(DOMAIN message)
      /\ \A n \in 1..k : n \in DOMAIN todo' /\ todo'[n] = Append(h, n)
      /\ \A n \in DOMAIN rest : n + k \in DOMAIN todo' /\ todo'[n + k] = rest[n]
      /\ \A n \in DOMAIN todo' : n \in 1..k \/ n - k \in DOMAIN rest
  <2>1. Len(rest) \in Nat /\ DOMAIN rest = 1..Len(rest)
    BY <1>4
  <2>2. todo' \in Seq(DOMAIN message) /\ Len(todo') = k + Len(rest) /\ DOMAIN todo' = 1..Len(todo')
    BY <1>4, <1>6, <1>8, JoinedIs
  <2>3. \A n \in 1..(k + Len(rest)) : todo'[n] = IF n <= k THEN parts[n] ELSE rest[n - k]
    BY <1>4, <1>6, <1>8, JoinedIs
  <2> QED
    BY <1>5, <1>8, <2>1, <2>2, <2>3
<1>10. MailShapes'
  BY <1>1, <1>2, <1>9, MailStays DEF MailShapes
<1>11. MailReturned' /\ NodesInOrder' /\ Unread' /\ Beginning' /\ Converting' /\ Ready'
  <2>1. ~json.is
    BY <1>1, <1>2 DEF MailReturned
  <2> QED
    BY <1>1, <1>2, <2>1, MailStays DEF MailReturned, NodesInOrder, Unread, Beginning, Converting, Ready
<1>12. TodoInOrder'
  <2>1. TodoInOrder
    BY <1>1, <1>2 DEF MidWalk
  <2>2. \A n \in DOMAIN rest : Before(h, rest[n])
    <3> SUFFICES ASSUME NEW n \in DOMAIN rest PROVE Before(h, rest[n])
      OBVIOUS
    <3>1. n \in Nat /\ n + 1 \in DOMAIN todo /\ todo[n + 1] = rest[n] /\ n # 0
      BY <1>4
    <3>2. 1 < n + 1
      BY <3>1
    <3> QED
      BY <1>4, <2>1, <3>1, <3>2 DEF TodoInOrder, InOrder
  <2>3. \A m, n \in DOMAIN rest : m < n => Before(rest[m], rest[n])
    <3> SUFFICES ASSUME NEW m \in DOMAIN rest, NEW n \in DOMAIN rest, m < n PROVE Before(rest[m], rest[n])
      OBVIOUS
    <3>1. m + 1 < n + 1
      BY <1>4
    <3> QED
      BY <1>4, <2>1, <3>1 DEF TodoInOrder, InOrder
  <2>4. \A n \in DOMAIN rest : rest[n] \in Seq(Nat)
    BY <1>3, <1>4, TreeIs
  <2>5. ASSUME NEW m \in DOMAIN todo', NEW n \in DOMAIN todo', m < n PROVE Before(todo'[m], todo'[n])
    <3>0. m \in Nat /\ n \in Nat
      BY <1>9
    <3>1. CASE m \in 1..k /\ n \in 1..k
      BY <1>5, <1>9, <2>5, <3>0, <3>1, PartsInOrder
    <3>2. CASE m \in 1..k /\ n - k \in DOMAIN rest
      <4>1. n - k + k = n
        BY <1>5, <3>0
      <4>2. todo'[n] = rest[n - k] /\ todo'[m] = Append(h, m)
        BY <1>9, <3>2, <4>1
      <4> QED
        BY <1>5, <2>2, <2>4, <3>0, <3>2, <4>2, BeforeBelow
    <3>3. CASE m - k \in DOMAIN rest /\ n - k \in DOMAIN rest
      <4>1. n - k + k = n /\ m - k + k = m /\ m - k < n - k
        BY <1>5, <2>5, <3>0
      <4> QED
        BY <1>9, <2>3, <3>3, <4>1
    <3>4. ~(n \in 1..k /\ ~(m \in 1..k))
      BY <1>5, <1>9, <2>5, <3>0
    <3> QED
      BY <1>9, <3>1, <3>2, <3>3, <3>4
  <2>6. ASSUME NEW m \in DOMAIN nodes', NEW n \in DOMAIN todo' PROVE Before(nodes'[m].file, todo'[n])
    <3>1. \A j \in DOMAIN todo : Before(nodes[m].file, todo[j])
      BY <1>1, <2>1 DEF TodoInOrder
    <3>2. nodes[m].file \in Seq(Nat)
      <4>1. nodes[m] \in Node
        <5>1. nodes \in Seq(Node)
          BY <1>2 DEF MailShapes
        <5>2. m \in DOMAIN nodes
          BY <1>1, <2>6
        <5> QED
          BY <5>1, <5>2, ElementOfSeq
      <4> QED
        BY <1>3, <4>1, TreeIs DEF Node
    <3>3. CASE n \in 1..k
      <4>1. Before(nodes[m].file, h) /\ n \in Nat
        BY <1>4, <3>1, <3>3
      <4>2. Before(nodes[m].file, Append(h, n))
        BY <1>5, <3>2, <4>1, BeforeBelow
      <4> QED
        BY <1>1, <1>9, <3>3, <4>2
    <3>4. CASE n - k \in DOMAIN rest
      <4>1. n - k + k = n
        BY <1>5, <1>9
      <4>2. todo'[n] = rest[n - k] /\ n - k + 1 \in DOMAIN todo /\ rest[n - k] = todo[n - k + 1]
        BY <1>4, <1>9, <3>4, <4>1
      <4> QED
        BY <1>1, <3>1, <4>2
    <3> QED
      BY <1>9, <3>3, <3>4
  <2> QED
    BY <2>5, <2>6 DEF TodoInOrder, InOrder
<1>13. NodeFiles' = NodeFiles /\ Kept' = Kept
  BY <1>1 DEF NodeFiles, Kept
<1>14. Gone' \subseteq Gone
  <2> SUFFICES ASSUME NEW p \in Leaves \ Kept, \A n \in DOMAIN todo' : ~Under(p, todo'[n]),
                      NEW n \in DOMAIN todo, Under(p, todo[n])
               PROVE  FALSE
    BY <1>1, <1>13, MailStays DEF Gone
  <2>1. CASE n = 1
    <3>1. p \in DOMAIN message /\ p # h
      BY <1>3, <1>7, TreeIs DEF Leaves
    <3>2. PICK j \in 1..k : Under(p, Append(h, j))
      BY <1>3, <1>4, <2>1, <3>1, UnderOne DEF k
    <3> QED
      BY <1>9, <3>2
  <2>2. CASE n # 1
    <3>1. n - 1 \in DOMAIN rest
      BY <1>4, <2>2
    <3>2. rest[n - 1] = todo[n - 1 + 1] /\ n - 1 \in Nat
      BY <1>4, <3>1
    <3>3. n \in Nat
      <4>1. todo \in Seq(DOMAIN message)
        BY <1>2 DEF MailShapes
      <4> QED
        BY <4>1
    <3>4. n - 1 + 1 = n
      BY <3>3
    <3> QED
      BY <1>9, <3>1, <3>2, <3>4
  <2> QED
    BY <2>1, <2>2
<1>15. MidWalk'
  BY <1>1, <1>2, <1>12, <1>13, <1>14 DEF MidWalk, AtMostOne
<1> QED
  BY <1>10, <1>11, <1>12, <1>15 DEF MailInv

-----------------------------------------------------------------------------
(* The leaves *)

\* What MessagePart and LeafPart do alike: a file, and a node unless a block is missing;
\* only when something fails now may one of them not be there.
LeafStep(node) ==
    /\ node.file = Head(todo) /\ node.filename = message[Head(todo)].filename
    /\ node.contentflag <=> Head(todo) \in MailTexts
    /\ \/ /\ hasList /\ nodes' = Append(nodes, node) /\ disk' = disk \cup {Head(todo)} /\ failed' = failed
       \/ /\ hasList /\ failed = NULL /\ failed' \in {"node", "open", "write"}
          /\ nodes' \in {nodes, Append(nodes, node)} /\ disk' \in {disk, disk \cup {Head(todo)}}
       \/ /\ ~hasList /\ nodes' = nodes /\ disk' = disk \cup {Head(todo)} /\ failed' = failed

OnlyLeaf ==
    /\ at = "write" /\ todo # <<>> /\ Head(todo) \in Leaves /\ todo' = Tail(todo)
    /\ UNCHANGED <<message, at, hasList, converted, objectmsg, json>>
    /\ streams' \in Nat /\ lost' \in Nat
    /\ failed' \notin {"node", "dump", "list"} => lost' = 0
    /\ failed' # "write" => streams' = 0
    /\ \E node \in Node : LeafStep(node)

\* A node has between three and four blocks.
LEMMA BlocksAre == \A node : BlocksOf(node) \in {3, 4}
  BY DEF BlocksOf

\* What add_name_nodelist does.
LEMMA AddIs ==
    ASSUME MailShapes, MailReturned, MidWalk, at = "write", NEW node, AddNameNodelist(node)
    PROVE  /\ lost' \in Nat /\ (failed' \notin {"node", "dump", "list"} => lost' = 0)
           /\ \/ hasList /\ nodes' = Append(nodes, node) /\ failed' = failed
              \/ hasList /\ failed = NULL /\ failed' = "node" /\ nodes' = nodes
              \/ ~hasList /\ nodes' = nodes /\ failed' = failed
<1>1. lost \in Nat /\ BlocksOf(node) \in {3, 4}
  BY BlocksAre DEF MailShapes
<1>2. CASE hasList /\ nodes' = Append(nodes, node) /\ UNCHANGED lost /\ NoFault
  BY <1>1, <1>2 DEF NoFault, MailReturned
<1>3. CASE hasList /\ Fault("node") /\ lost' \in lost..(lost + BlocksOf(node) - 1) /\ UNCHANGED nodes
  <2>1. lost' \in Nat
    BY <1>1, <1>3
  <2> QED
    BY <1>3, <2>1 DEF Fault
<1>4. CASE ~hasList /\ lost' = lost + BlocksOf(node) + 1 /\ UNCHANGED nodes /\ NoFault
  <2>1. lost' \in Nat
    BY <1>1, <1>4
  <2>2. failed' = "list"
    BY <1>4 DEF MidWalk, NoFault
  <2> QED
    BY <1>4, <2>1, <2>2 DEF NoFault
<1> QED
  BY <1>2, <1>3, <1>4 DEF AddNameNodelist

\* A mail in the mail is such a step.
LEMMA MessageIsLeaf == MailInv /\ MessagePart => OnlyLeaf
<1> SUFFICES ASSUME MailInv, MessagePart PROVE OnlyLeaf
  OBVIOUS
<1>1. /\ message' = message /\ at = "write" /\ at' = at /\ hasList' = hasList /\ streams' = streams
      /\ converted' = converted /\ objectmsg' = objectmsg /\ json' = json
      /\ todo # <<>> /\ todo' = Tail(todo) /\ message[Head(todo)].kind = "message"
  BY DEF MessagePart, Part
<1>2. MailShapes /\ MailReturned /\ MidWalk
  BY DEF MailInv
<1>3. Head(todo) \in Leaves /\ Head(todo) \notin MailTexts
  <2>1. Head(todo) \in DOMAIN message
    BY <1>1, <1>2, TodoIs
  <2> QED
    BY <1>1, <2>1 DEF Leaves, MailTexts
<1> DEFINE node == [file |-> Head(todo), filename |-> message[Head(todo)].filename, contentflag |-> FALSE]
<1>4. node \in Node /\ node.file = Head(todo) /\ node.filename = message[Head(todo)].filename /\ ~node.contentflag
  BY <1>3 DEF Node, Names
<1>5. \/ AddNameNodelist(node) /\ disk' = disk \cup {node.file}
      \/ hasList /\ Fault("open") /\ nodes' = Append(nodes, node) /\ UNCHANGED <<disk, lost>>
      \/ /\ hasList /\ Fault("write") /\ nodes' = Append(nodes, node)
         /\ disk' = disk \cup {node.file} /\ UNCHANGED lost
  BY DEF MessagePart, Part
<1> HIDE DEF node
<1>6. lost \in Nat /\ streams \in Nat
  BY <1>2 DEF MailShapes
<1>7. /\ streams' \in Nat /\ lost' \in Nat
      /\ failed' \notin {"node", "dump", "list"} => lost' = 0
      /\ failed' # "write" => streams' = 0
  <2>1. CASE AddNameNodelist(node)
    <3>1. failed' = failed \/ (failed = NULL /\ failed' = "node")
      BY <1>1, <1>2, <2>1, AddIs
    <3>2. failed' # "write" => failed # "write"
      BY <3>1 DEF NULL
    <3> QED
      BY <1>1, <1>2, <1>6, <2>1, <3>2, AddIs DEF MailReturned
  <2>2. CASE (Fault("open") \/ Fault("write")) /\ UNCHANGED lost
    <3>1. failed \notin {"node", "dump", "list", "write"}
      BY <2>2 DEF Fault, NULL
    <3> QED
      BY <1>1, <1>2, <1>6, <2>2, <3>1 DEF MailReturned
  <2> QED
    BY <1>5, <2>1, <2>2
<1>8. LeafStep(node)
  <2>1. CASE AddNameNodelist(node) /\ disk' = disk \cup {node.file}
    BY <1>1, <1>2, <1>3, <1>4, <2>1, AddIs DEF LeafStep
  <2>2. CASE hasList /\ (Fault("open") \/ Fault("write")) /\ nodes' = Append(nodes, node)
             /\ disk' \in {disk, disk \cup {node.file}}
    BY <1>3, <1>4, <2>2 DEF LeafStep, Fault
  <2> QED
    BY <1>5, <2>1, <2>2
<1> QED
  BY <1>1, <1>3, <1>4, <1>7, <1>8 DEF OnlyLeaf

\* So is a leaf.
LEMMA LeafIsLeaf == MailInv /\ LeafPart => OnlyLeaf
<1> SUFFICES ASSUME MailInv, LeafPart PROVE OnlyLeaf
  OBVIOUS
<1>1. /\ message' = message /\ at = "write" /\ at' = at /\ hasList' = hasList
      /\ converted' = converted /\ objectmsg' = objectmsg /\ json' = json
      /\ todo # <<>> /\ todo' = Tail(todo) /\ message[Head(todo)].kind = "part"
  BY DEF LeafPart, Part
<1>2. MailShapes /\ MailReturned /\ MidWalk
  BY DEF MailInv
<1> DEFINE flag == message[Head(todo)].filename = NULL
<1>3. Head(todo) \in Leaves /\ (Head(todo) \in MailTexts <=> flag)
  <2>1. Head(todo) \in DOMAIN message
    BY <1>1, <1>2, TodoIs
  <2> QED
    BY <1>1, <2>1 DEF Leaves, MailTexts
<1> DEFINE node == [file |-> Head(todo), filename |-> message[Head(todo)].filename, contentflag |-> flag]
<1>4. node \in Node /\ node.file = Head(todo) /\ node.filename = message[Head(todo)].filename
      /\ (node.contentflag <=> flag)
  <2> HIDE DEF flag
  <2>1. flag \in BOOLEAN
    BY DEF flag
  <2> QED
    BY <1>3, <2>1 DEF Node, Names
<1>5. \/ AddNameNodelist(node) /\ disk' = disk \cup {node.file} /\ UNCHANGED streams
      \/ /\ hasList /\ Fault("open") /\ nodes' = Append(nodes, node)
         /\ UNCHANGED <<disk, streams, lost>>
      \/ /\ hasList /\ Fault("write") /\ nodes' = Append(nodes, node)
         /\ disk' = disk \cup {node.file} /\ streams' = streams + 1 /\ UNCHANGED lost
  BY DEF LeafPart, Part, ContentFlag
<1> HIDE DEF node, flag
<1>6. lost \in Nat /\ streams \in Nat
  BY <1>2 DEF MailShapes
<1>7. /\ streams' \in Nat /\ lost' \in Nat
      /\ failed' \notin {"node", "dump", "list"} => lost' = 0
      /\ failed' # "write" => streams' = 0
  <2>1. CASE AddNameNodelist(node) /\ UNCHANGED streams
    <3>1. failed' = failed \/ (failed = NULL /\ failed' = "node")
      BY <1>1, <1>2, <2>1, AddIs
    <3>2. failed' # "write" => failed # "write"
      BY <3>1 DEF NULL
    <3> QED
      BY <1>1, <1>2, <1>6, <2>1, <3>2, AddIs DEF MailReturned
  <2>2. CASE Fault("open") /\ UNCHANGED <<streams, lost>>
    <3>1. failed \notin {"node", "dump", "list", "write"}
      BY <2>2 DEF Fault, NULL
    <3> QED
      BY <1>2, <1>6, <2>2, <3>1 DEF MailReturned
  <2>3. CASE Fault("write") /\ streams' = streams + 1 /\ UNCHANGED lost
    <3>1. failed \notin {"node", "dump", "list", "write"} /\ failed' = "write"
      BY <2>3 DEF Fault, NULL
    <3> QED
      BY <1>2, <1>6, <2>3, <3>1 DEF MailReturned
  <2> QED
    BY <1>5, <2>1, <2>2, <2>3
<1>8. LeafStep(node)
  <2>1. CASE AddNameNodelist(node) /\ disk' = disk \cup {node.file}
    BY <1>1, <1>2, <1>3, <1>4, <2>1, AddIs DEF LeafStep
  <2>2. CASE hasList /\ (Fault("open") \/ Fault("write")) /\ nodes' = Append(nodes, node)
             /\ disk' \in {disk, disk \cup {node.file}}
    BY <1>3, <1>4, <2>2 DEF LeafStep, Fault
  <2> QED
    BY <1>5, <2>1, <2>2
<1> QED
  BY <1>1, <1>3, <1>4, <1>7, <1>8 DEF OnlyLeaf

\* A longer list.
LEMMA AppendedNode ==
    ASSUME MailShapes, NEW node \in Node
    PROVE  /\ Append(nodes, node) \in Seq(Node) /\ DOMAIN nodes = 1..Len(nodes) /\ Len(nodes) \in Nat
           /\ DOMAIN Append(nodes, node) = 1..(Len(nodes) + 1)
           /\ Append(nodes, node)[Len(nodes) + 1] = node
           /\ \A n \in DOMAIN nodes : n \in DOMAIN Append(nodes, node) /\ Append(nodes, node)[n] = nodes[n]
           /\ \A n \in DOMAIN Append(nodes, node) : n \in DOMAIN nodes \/ n = Len(nodes) + 1
<1>1. nodes \in Seq(Node)
  BY DEF MailShapes
<1> QED
  BY <1>1

\* The step keeps the invariant.
LEMMA LeafKeeps == MailInv /\ OnlyLeaf => MailInv'
<1> SUFFICES ASSUME MailInv, OnlyLeaf PROVE MailInv'
  OBVIOUS
<1>1. /\ message' = message /\ converted' = converted /\ objectmsg' = objectmsg /\ json' = json
      /\ at = "write" /\ at' = at /\ hasList' = hasList /\ todo # <<>> /\ todo' = Tail(todo)
      /\ streams' \in Nat /\ lost' \in Nat
      /\ failed' \notin {"node", "dump", "list"} => lost' = 0
      /\ failed' # "write" => streams' = 0
      /\ Head(todo) \in Leaves
  BY DEF OnlyLeaf
<1>2. PICK node \in Node : LeafStep(node)
  BY DEF OnlyLeaf
<1>3. MailShapes /\ MailReturned /\ NodesInOrder /\ Unread /\ MidWalk /\ message \in Messages
  BY DEF MailInv, MailShapes
<1> DEFINE h == Head(todo)
           rest == Tail(todo)
           more == Append(nodes, node)
<1>4. /\ h \in DOMAIN message /\ 1 \in DOMAIN todo /\ todo[1] = h /\ rest \in Seq(DOMAIN message)
      /\ \A n \in DOMAIN rest : n \in Nat /\ n + 1 \in DOMAIN todo /\ todo[n + 1] = rest[n]
      /\ \A n \in DOMAIN todo : n # 1 => n - 1 \in DOMAIN rest
  BY <1>1, <1>3, TodoIs
<1>5. h \in Leaves /\ todo' = rest /\ message[h].kind # "multipart"
  BY <1>1 DEF Leaves
<1>6. node.file = h /\ node.filename = message[h].filename /\ (node.contentflag <=> h \in MailTexts)
  BY <1>2 DEF LeafStep
<1>7. \/ hasList /\ nodes' = more /\ disk' = disk \cup {h} /\ failed' = failed
      \/ /\ hasList /\ failed = NULL /\ failed' \in {"node", "open", "write"}
         /\ nodes' \in {nodes, more} /\ disk' \in {disk, disk \cup {h}}
      \/ ~hasList /\ nodes' = nodes /\ disk' = disk \cup {h} /\ failed' = failed
  BY <1>2 DEF LeafStep
<1>8. /\ more \in Seq(Node) /\ DOMAIN nodes = 1..Len(nodes) /\ Len(nodes) \in Nat
      /\ DOMAIN more = 1..(Len(nodes) + 1) /\ more[Len(nodes) + 1] = node
      /\ \A n \in DOMAIN nodes : n \in DOMAIN more /\ more[n] = nodes[n]
      /\ \A n \in DOMAIN more : n \in DOMAIN nodes \/ n = Len(nodes) + 1
  BY <1>3, AppendedNode
<1> HIDE DEF h, rest, more
<1>9. nodes' \in {nodes, more} /\ disk' \in {disk, disk \cup {h}} /\ nodes \in Seq(Node)
  BY <1>3, <1>7 DEF MailShapes
<1>10. MailShapes'
  <2>1. nodes' \in Seq(Node) /\ disk' \subseteq Leaves
    BY <1>3, <1>5, <1>8, <1>9 DEF MailShapes
  <2> QED
    BY <1>1, <1>3, <1>4, <1>5, <2>1, MailStays DEF MailShapes
<1>11. MailReturned' /\ Unread' /\ Beginning' /\ Converting' /\ Ready'
  <2>1. ~json.is
    BY <1>1, <1>3 DEF MailReturned
  <2> QED
    BY <1>1, <1>3, <2>1 DEF MailReturned, Unread, Beginning, Converting, Ready
<1>12. /\ InOrder(todo) /\ \A m \in DOMAIN nodes : \A n \in DOMAIN todo : Before(nodes[m].file, todo[n])
  BY <1>1, <1>3 DEF MidWalk, TodoInOrder
<1>13. NodesInOrder'
  <2>1. CASE nodes' = nodes
    BY <1>1, <1>3, <2>1, MailStays DEF NodesInOrder
  <2>2. CASE nodes' = more
    <3>1. \A n \in DOMAIN more : /\ more[n].filename = message[more[n].file].filename
                                 /\ more[n].contentflag <=> more[n].file \in MailTexts
      BY <1>3, <1>6, <1>8 DEF NodesInOrder
    <3>2. ASSUME NEW m \in DOMAIN more, NEW n \in DOMAIN more, m < n
          PROVE  Before(more[m].file, more[n].file)
      <4>1. m \in DOMAIN nodes
        BY <1>8, <3>2
      <4>2. CASE n \in DOMAIN nodes
        BY <1>3, <1>8, <3>2, <4>1, <4>2 DEF NodesInOrder
      <4>3. CASE n = Len(nodes) + 1
        BY <1>4, <1>6, <1>8, <1>12, <4>1, <4>3
      <4> QED
        BY <1>8, <4>2, <4>3
    <3> QED
      BY <1>1, <2>2, <3>1, <3>2, MailStays DEF NodesInOrder
  <2> QED
    BY <1>9, <2>1, <2>2
<1>14. TodoInOrder'
  <2>1. ASSUME NEW m \in DOMAIN rest, NEW n \in DOMAIN rest, m < n PROVE Before(rest[m], rest[n])
    <3>1. m + 1 < n + 1
      BY <1>4, <2>1
    <3> QED
      BY <1>4, <1>12, <3>1 DEF InOrder
  <2>2. ASSUME NEW n \in DOMAIN rest PROVE Before(h, rest[n])
    <3>1. 1 < n + 1
      <4>1. rest \in Seq(DOMAIN message)
        BY <1>4
      <4>2. DOMAIN rest = 1..Len(rest) /\ Len(rest) \in Nat
        BY <4>1
      <4> QED
        BY <4>2
    <3> QED
      BY <1>4, <1>12, <3>1 DEF InOrder
  <2>3. \A m \in DOMAIN nodes : \A n \in DOMAIN rest : Before(nodes[m].file, rest[n])
    BY <1>4, <1>12
  <2>4. \A m \in DOMAIN more : \A n \in DOMAIN rest : Before(more[m].file, rest[n])
    BY <1>6, <1>8, <2>2, <2>3
  <2> QED
    BY <1>5, <1>9, <2>1, <2>3, <2>4 DEF TodoInOrder, InOrder
<1>15. NodeFiles \subseteq NodeFiles' /\ (nodes' = more => NodeFiles' = NodeFiles \cup {h})
  <2>1. CASE nodes' = nodes
    <3>1. nodes' # more
      BY <1>8, <2>1
    <3> QED
      BY <2>1, <3>1 DEF NodeFiles
  <2>2. CASE nodes' = more
    BY <1>6, <1>8, <2>2 DEF NodeFiles
  <2> QED
    BY <1>9, <2>1, <2>2
<1>16. Gone' \subseteq Gone \cup {h}
  <2>1. Kept \subseteq Kept'
    BY <1>9, <1>15 DEF Kept
  <2> SUFFICES ASSUME NEW p \in Leaves \ Kept, p # h, \A n \in DOMAIN rest : ~Under(p, rest[n]),
                      NEW n \in DOMAIN todo, Under(p, todo[n])
               PROVE  FALSE
    BY <1>1, <1>5, <2>1, MailStays DEF Gone
  <2>2. CASE n = 1
    <3>1. p \in DOMAIN message
      BY <1>3, TreeIs
    <3> QED
      BY <1>3, <1>4, <1>5, <2>2, <3>1, UnderLeaf
  <2>3. CASE n # 1
    <3>1. n - 1 \in DOMAIN rest
      BY <1>4, <2>3
    <3>2. rest[n - 1] = todo[n - 1 + 1] /\ n - 1 \in Nat
      BY <1>4, <3>1
    <3>3. n \in Nat
      <4>1. todo \in Seq(DOMAIN message)
        BY <1>3 DEF MailShapes
      <4> QED
        BY <4>1
    <3>4. n - 1 + 1 = n
      BY <3>3
    <3> QED
      BY <3>1, <3>2, <3>4
  <2> QED
    BY <2>2, <2>3
<1>17. hasList' => AtMostOne(Gone')
  <2>1. CASE nodes' = more /\ disk' = disk \cup {h}
    <3>1. h \in Kept'
      BY <1>15, <2>1 DEF Kept
    <3>2. Gone' \subseteq Gone
      BY <1>16, <3>1 DEF Gone
    <3> QED
      BY <1>1, <1>3, <3>2 DEF MidWalk, AtMostOne
  <2>2. CASE hasList /\ failed = NULL
    <3>1. Gone = {}
      BY <1>1, <1>3, <2>2 DEF MidWalk
    <3> QED
      BY <1>16, <3>1 DEF AtMostOne
  <2> QED
    BY <1>1, <1>7, <2>1, <2>2
<1>18. hasList' /\ failed' = NULL => Gone' = {} /\ disk' = NodeFiles'
  <2> SUFFICES ASSUME hasList', failed' = NULL PROVE Gone' = {} /\ disk' = NodeFiles'
    OBVIOUS
  <2>1. nodes' = more /\ disk' = disk \cup {h} /\ failed = NULL /\ hasList
    BY <1>1, <1>7 DEF NULL
  <2>2. Gone = {} /\ disk = NodeFiles
    BY <1>1, <1>3, <2>1 DEF MidWalk
  <2>3. h \in Kept' /\ disk' = NodeFiles'
    BY <1>15, <2>1, <2>2 DEF Kept
  <2> QED
    BY <1>16, <2>2, <2>3 DEF Gone
<1>19. MidWalk'
  <2>1. hasList' \/ failed' = "list"
    BY <1>1, <1>3, <1>7 DEF MidWalk
  <2> QED
    BY <1>14, <1>17, <1>18, <2>1 DEF MidWalk
<1> QED
  BY <1>10, <1>11, <1>13, <1>19 DEF MailInv

-----------------------------------------------------------------------------
(* The text *)

\* With a list, pro_smtp_jsonstr begins with the whole list before it.
LEMMA WrittenKeeps == MailInv /\ Written => MailInv'
<1> SUFFICES ASSUME MailInv, Written PROVE MailInv'
  OBVIOUS
<1>1. /\ message' = message /\ todo' = todo /\ hasList' = hasList /\ nodes' = nodes /\ disk' = disk
      /\ streams' = streams /\ lost' = lost /\ converted' = converted /\ objectmsg' = objectmsg
      /\ json' = json /\ failed' = failed /\ at = "write" /\ todo = <<>>
      /\ at' = IF hasList THEN "json" ELSE "crashed"
  BY DEF Written
<1>2. MailShapes /\ MailReturned /\ NodesInOrder /\ Unread /\ MidWalk
  BY DEF MailInv
<1>3. json.flist = <<>> /\ json.plain = {} /\ converted = 0 /\ ~json.is
  BY <1>1, <1>2 DEF Unread, MailReturned
<1>4. MailShapes' /\ MailReturned' /\ NodesInOrder'
  BY <1>1, <1>2, <1>3, MailStays DEF MailShapes, MailReturned, NodesInOrder
<1>5. Beginning' /\ Unread' /\ MidWalk' /\ Ready'
  BY <1>1, <1>3 DEF Beginning, Unread, MidWalk, Ready
<1>6. Converting'
  <2> SUFFICES ASSUME hasList PROVE Converting'
    BY <1>1 DEF Converting
  <2>1. Kept' = Kept /\ NodeFiles' = NodeFiles
    BY <1>1 DEF Kept, NodeFiles
  <2>2. Gone = Leaves \ Kept
    BY <1>1 DEF Gone
  <2>3. SeenFiles' = {} /\ FlistFiles' = {} /\ ListedInOrder'
    BY <1>1, <1>3 DEF SeenFiles, FlistFiles, ListedInOrder
  <2>4. AtMostOne((Attachments \ Kept)')
    BY <1>1, <1>2, <2>1, <2>2, MailStays DEF MidWalk, AtMostOne, Attachments
  <2>5. converted <= Len(nodes)
    <3>1. nodes \in Seq(Node)
      BY <1>2 DEF MailShapes
    <3>2. Len(nodes) \in Nat
      BY <3>1
    <3> QED
      BY <1>3, <3>2
  <2>6. failed = NULL => NodeFiles = Leaves /\ disk = Leaves
    <3> SUFFICES ASSUME failed = NULL PROVE NodeFiles = Leaves /\ disk = Leaves
      OBVIOUS
    <3>1. Gone = {} /\ disk = NodeFiles
      BY <1>1, <1>2 DEF MidWalk
    <3>2. Leaves \subseteq Kept /\ disk \subseteq Leaves
      BY <1>2, <2>2, <3>1 DEF MailShapes
    <3> QED
      BY <3>1, <3>2 DEF Kept
  <2>7. json.plain = PlainOf({})
    BY <1>3 DEF PlainOf
  <2>8. (SeenFiles \cap MailTexts)' = {}
    BY <2>3
  <2> QED
    BY <1>1, <1>3, <2>1, <2>3, <2>4, <2>5, <2>6, <2>7, <2>8, MailStays DEF Converting
<1> QED
  BY <1>4, <1>5, <1>6 DEF MailInv

\* No leaf is in the list twice.
LEMMA NodesFew ==
    ASSUME MailShapes, NodesInOrder
    PROVE  Len(nodes) \in Nat /\ Len(nodes) <= Cardinality(Leaves) /\ Cardinality(Leaves) \in Nat
<1>1. nodes \in Seq(Node) /\ message \in Messages
  BY DEF MailShapes
<1>2. Len(nodes) \in Nat /\ DOMAIN nodes = 1..Len(nodes) /\ \A n \in DOMAIN nodes : nodes[n] \in Node
  BY <1>1
<1>3. \A n \in DOMAIN nodes : nodes[n].file \in Leaves
  BY <1>2 DEF Node
<1> DEFINE place == [n \in 1..Len(nodes) |-> nodes[n].file]
<1>4. \A m, n \in 1..Len(nodes) : nodes[m].file = nodes[n].file => m = n
  <2> SUFFICES ASSUME NEW m \in 1..Len(nodes), NEW n \in 1..Len(nodes), nodes[m].file = nodes[n].file, m # n
               PROVE  FALSE
    OBVIOUS
  <2>1. Before(nodes[m].file, nodes[n].file) \/ Before(nodes[n].file, nodes[m].file)
    BY <1>2 DEF NodesInOrder
  <2>2. nodes[m].file \in Seq(Nat)
    BY <1>1, <1>2, <1>3, TreeIs
  <2> QED
    BY <2>1, <2>2, BeforeOrders
<1>5. place \in Injection(1..Len(nodes), Leaves)
  BY <1>2, <1>3, <1>4 DEF Injection, IsInjective
<1>6. IsFiniteSet(Leaves) /\ Cardinality(Leaves) \in Nat
  BY <1>1, TreeIs, FS_CardinalityType
<1>7. Cardinality(1..Len(nodes)) <= Cardinality(Leaves)
  BY <1>5, <1>6, FS_Injection
<1>8. Cardinality(1..Len(nodes)) = Len(nodes)
  BY <1>2, FS_Interval
<1> QED
  BY <1>2, <1>6, <1>7, <1>8

\* The next node is none of those seen, and after all of them.
LEMMA NextNode ==
    ASSUME MailShapes, NodesInOrder, Converting, at = "json", converted < Len(nodes)
    PROVE  /\ converted + 1 \in 0..Cardinality(Leaves) /\ converted + 1 <= Len(nodes) /\ converted \in Nat
           /\ nodes[converted + 1].file \in Leaves /\ nodes[converted + 1].file \in NodeFiles
           /\ nodes[converted + 1].filename = message[nodes[converted + 1].file].filename
           /\ nodes[converted + 1].contentflag <=> nodes[converted + 1].file \in MailTexts
           /\ SeenFiles \subseteq Leaves
           /\ \A x \in SeenFiles : Before(x, nodes[converted + 1].file) /\ x # nodes[converted + 1].file
                              /\ ~Before(nodes[converted + 1].file, x)
           /\ ~Before(nodes[converted + 1].file, nodes[converted + 1].file)
           /\ nodes' = nodes /\ converted' = converted + 1 => SeenFiles' = SeenFiles \cup {nodes[converted + 1].file}
<1>1. nodes \in Seq(Node) /\ message \in Messages /\ converted \in Nat
  <2>1. Cardinality(Leaves) \in Nat
    BY NodesFew
  <2> QED
    BY <2>1 DEF MailShapes
<1>2. Len(nodes) \in Nat /\ DOMAIN nodes = 1..Len(nodes) /\ \A n \in DOMAIN nodes : nodes[n] \in Node
  BY <1>1
<1>3. converted + 1 \in DOMAIN nodes /\ converted + 1 <= Len(nodes) /\ converted + 1 \in Nat
  BY <1>1, <1>2
<1>4. converted + 1 \in 0..Cardinality(Leaves)
  BY <1>3, NodesFew
<1>5. \A n \in DOMAIN nodes : nodes[n].file \in Leaves /\ nodes[n].file \in Seq(Nat)
  <2>1. \A n \in DOMAIN nodes : nodes[n].file \in Leaves
    BY <1>2 DEF Node
  <2> QED
    BY <1>1, <2>1, TreeIs
<1>6. \A n \in 1..converted : n \in DOMAIN nodes /\ n < converted + 1
  BY <1>1, <1>2, <1>3
<1>7. ASSUME NEW x \in SeenFiles
      PROVE  /\ x \in Leaves /\ Before(x, nodes[converted + 1].file) /\ x # nodes[converted + 1].file
             /\ ~Before(nodes[converted + 1].file, x)
  <2>1. PICK n \in 1..converted : x = nodes[n].file
    BY DEF SeenFiles
  <2>2. x \in Leaves /\ x \in Seq(Nat) /\ nodes[converted + 1].file \in Seq(Nat)
    BY <1>3, <1>5, <1>6, <2>1
  <2>3. Before(x, nodes[converted + 1].file)
    BY <1>3, <1>6, <2>1 DEF NodesInOrder
  <2> QED
    BY <2>2, <2>3, BeforeOrders
<1>8. ~Before(nodes[converted + 1].file, nodes[converted + 1].file)
  BY <1>3, <1>5, BeforeOrders
<1>9. ASSUME nodes' = nodes, converted' = converted + 1
      PROVE  SeenFiles' = SeenFiles \cup {nodes[converted + 1].file}
  <2>1. \A n \in 1..(converted + 1) : n \in 1..converted \/ n = converted + 1
    BY <1>1
  <2>2. 1..converted \subseteq 1..(converted + 1) /\ converted + 1 \in 1..(converted + 1)
    BY <1>1
  <2> QED
    BY <1>9, <2>1, <2>2 DEF SeenFiles
<1> QED
  BY <1>1, <1>3, <1>4, <1>5, <1>7, <1>8, <1>9 DEF NodesInOrder, NodeFiles

\* A text of the mail.
LEMMA ContentKeeps == MailInv /\ Content => MailInv'
<1> SUFFICES ASSUME MailInv, Content PROVE MailInv'
  OBVIOUS
<1> DEFINE f == nodes[converted + 1].file
           T == SeenFiles \cap MailTexts
<1>1. /\ message' = message /\ todo' = todo /\ hasList' = hasList /\ nodes' = nodes
      /\ streams' = streams /\ lost' = lost /\ converted' = converted + 1 /\ objectmsg' = objectmsg
      /\ failed' = failed /\ at = "json" /\ at' = at /\ converted < Len(nodes)
      /\ nodes[converted + 1].contentflag
      /\ IF json.plain = {} THEN json' = [json EXCEPT !.plain = {f}] /\ disk' = disk
                            ELSE disk' = disk \ {f} /\ json' = json
  BY DEF Content
<1>2. MailShapes /\ MailReturned /\ NodesInOrder /\ Converting
  BY DEF MailInv
<1>3. /\ converted + 1 \in 0..Cardinality(Leaves) /\ converted + 1 <= Len(nodes)
      /\ f \in Leaves /\ f \in NodeFiles /\ f \in MailTexts
      /\ \A x \in SeenFiles : Before(x, f) /\ x # f /\ ~Before(f, x)
      /\ ~Before(f, f) /\ SeenFiles' = SeenFiles \cup {f}
  BY <1>1, <1>2, NextNode
<1> HIDE DEF f
<1>4. /\ json \in [is : BOOLEAN, plain : SUBSET Leaves, flist : Seq(Listed)] /\ disk \subseteq Leaves
  BY <1>2 DEF MailShapes
<1>5. /\ json' \in [is : BOOLEAN, plain : SUBSET Leaves, flist : Seq(Listed)]
      /\ json'.flist = json.flist /\ json'.is = json.is /\ disk' \subseteq Leaves
      /\ json'.plain = IF json.plain = {} THEN {f} ELSE json.plain
  <2>1. CASE json.plain = {}
    BY <1>1, <1>3, <1>4, <2>1
  <2>2. CASE json.plain # {}
    BY <1>1, <1>4, <2>2
  <2> QED
    BY <2>1, <2>2
<1>6. MailShapes'
  BY <1>1, <1>2, <1>3, <1>5, MailStays DEF MailShapes
<1>7. MailReturned' /\ NodesInOrder' /\ Beginning' /\ Unread' /\ MidWalk'
  BY <1>1, <1>2, <1>5, MailStays DEF MailReturned, NodesInOrder, Beginning, Unread, MidWalk
<1>8. ~json.is /\ Ready'
  BY <1>1, <1>2, <1>5 DEF MailReturned, Ready
<1>9. /\ hasList /\ FlistFiles = SeenFiles \cap Attachments /\ ListedInOrder
      /\ json.plain = PlainOf(T) /\ (json.plain = {} => T = {})
      /\ AtMostOne(Attachments \ Kept)
      /\ failed = NULL => NodeFiles = Leaves /\ disk = Leaves \ (T \ json.plain)
  BY <1>1, <1>2 DEF Converting
<1>10. f \notin Attachments /\ f \notin T /\ T \subseteq SeenFiles
  BY <1>3 DEF Attachments
<1>11. T' = T \cup {f} /\ (SeenFiles \cap Attachments)' = SeenFiles \cap Attachments
  BY <1>1, <1>3, <1>10, MailStays
<1>12. FlistFiles' = FlistFiles /\ ListedInOrder'
  BY <1>1, <1>5, <1>9, ZenonT(60) DEF FlistFiles, ListedInOrder, FnRight
<1>13. json'.plain = PlainOf(T \cup {f}) /\ json'.plain # {}
  <2>1. CASE json.plain = {}
    BY <1>3, <1>5, <1>9, <2>1 DEF PlainOf
  <2>2. CASE json.plain # {}
    <3>1. T # {}
      BY <1>9, <2>2 DEF PlainOf
    <3>2. f \notin PlainOf(T \cup {f})
      BY <1>3, <1>10, <3>1 DEF PlainOf
    <3>3. \A t \in T : ~Before(f, t)
      BY <1>3, <1>10
    <3>4. PlainOf(T \cup {f}) = PlainOf(T)
      BY <3>2, <3>3 DEF PlainOf
    <3> QED
      BY <1>5, <1>9, <2>2, <3>4
  <2> QED
    BY <2>1, <2>2
<1>14. NodeFiles' = NodeFiles /\ (Attachments \ Kept)' = Attachments \ Kept
  <2>1. NodeFiles' = NodeFiles
    BY <1>1 DEF NodeFiles
  <2>2. \A x : x # f => (x \in disk' <=> x \in disk)
    BY <1>1
  <2> QED
    BY <1>1, <1>10, <2>1, <2>2, MailStays DEF Kept
<1>15. failed = NULL => disk' = Leaves \ ((T \cup {f}) \ json'.plain)
  <2> SUFFICES ASSUME failed = NULL PROVE disk' = Leaves \ ((T \cup {f}) \ json'.plain)
    OBVIOUS
  <2>1. CASE json.plain = {}
    BY <1>1, <1>5, <1>9, <2>1
  <2>2. CASE json.plain # {}
    <3>1. f \notin json.plain
      BY <1>9, <1>10 DEF PlainOf
    <3> QED
      BY <1>1, <1>5, <1>9, <2>2, <3>1
  <2> QED
    BY <2>1, <2>2
<1>16. Converting'
  BY <1>1, <1>3, <1>9, <1>11, <1>12, <1>13, <1>14, <1>15, MailStays DEF Converting, AtMostOne
<1> QED
  BY <1>6, <1>7, <1>8, <1>16 DEF MailInv

\* An attachment.
LEMMA AttachmentKeeps == MailInv /\ Attachment => MailInv'
<1> SUFFICES ASSUME MailInv, Attachment PROVE MailInv'
  OBVIOUS
<1> DEFINE node == nodes[converted + 1]
           f == node.file
           entry == [fp |-> f, fn |-> Fn(node), fs |-> IF f \in disk THEN 1 ELSE -1]
<1>1. /\ message' = message /\ todo' = todo /\ hasList' = hasList /\ nodes' = nodes /\ disk' = disk
      /\ streams' = streams /\ lost' = lost /\ converted' = converted + 1
      /\ failed' = failed /\ at = "json" /\ at' = at /\ converted < Len(nodes)
      /\ ~node.contentflag /\ objectmsg'.fn = Fn(node)
      /\ json' = [json EXCEPT !.flist = Append(json.flist, entry)]
  <2>1. objectmsg' = [fn |-> Fn(node), fs |-> IF f \in disk THEN 1 ELSE -1]
    BY DEF Attachment
  <2> QED
    BY <2>1 DEF Attachment
<1>2. MailShapes /\ MailReturned /\ NodesInOrder /\ Converting
  BY DEF MailInv
<1>3. /\ converted + 1 \in 0..Cardinality(Leaves) /\ converted + 1 <= Len(nodes)
      /\ f \in Leaves /\ f \in NodeFiles /\ f \notin MailTexts /\ node.filename = message[f].filename
      /\ \A x \in SeenFiles : Before(x, f) /\ x # f
      /\ SeenFiles' = SeenFiles \cup {f}
  BY <1>1, <1>2, NextNode
<1>4. /\ json \in [is : BOOLEAN, plain : SUBSET Leaves, flist : Seq(Listed)] /\ objectmsg.fn \in Names
  BY <1>2 DEF MailShapes
<1>5. Fn(node) \in Names /\ entry \in Listed /\ entry.fp = f /\ FnRight(entry)
  <2>1. Fn(node) \in Names
    BY <1>3, <1>4 DEF Fn, Names
  <2>2. entry \in Listed /\ entry.fp = f /\ entry.fn = Fn(node)
    BY <1>3, <2>1 DEF Listed
  <2> QED
    BY <1>3, <2>1, <2>2 DEF FnRight, Fn, NULL, BadUtf8
<1> HIDE DEF f, entry, node
<1>6. json.flist \in Seq(Listed)
  BY <1>4
<1>7. /\ json'.flist = Append(json.flist, entry) /\ json'.plain = json.plain /\ json'.is = json.is
      /\ json' \in [is : BOOLEAN, plain : SUBSET Leaves, flist : Seq(Listed)]
  <2>1. Append(json.flist, entry) \in Seq(Listed)
    BY <1>5, <1>6
  <2> HIDE DEF entry
  <2> QED
    BY <1>1, <1>4, <2>1
<1>8. MailShapes'
  BY <1>1, <1>2, <1>3, <1>5, <1>7, MailStays DEF MailShapes
<1>9. MailReturned' /\ NodesInOrder' /\ Beginning' /\ Unread' /\ MidWalk'
  BY <1>1, <1>2, <1>7, MailStays DEF MailReturned, NodesInOrder, Beginning, Unread, MidWalk
<1>10. Ready'
  BY <1>1, <1>2, <1>7 DEF MailReturned, Ready
<1>11. /\ hasList /\ FlistFiles = SeenFiles \cap Attachments /\ ListedInOrder
       /\ json.plain = PlainOf(SeenFiles \cap MailTexts) /\ (json.plain = {} => SeenFiles \cap MailTexts = {})
       /\ AtMostOne(Attachments \ Kept)
       /\ failed = NULL => NodeFiles = Leaves /\ disk = Leaves \ ((SeenFiles \cap MailTexts) \ json.plain)
  BY <1>1, <1>2 DEF Converting
<1>12. f \in Attachments
  BY <1>3 DEF Attachments
<1>13. /\ (SeenFiles \cap Attachments)' = (SeenFiles \cap Attachments) \cup {f}
       /\ (SeenFiles \cap MailTexts)' = SeenFiles \cap MailTexts
  BY <1>1, <1>3, <1>12, MailStays
<1> DEFINE more == Append(json.flist, entry)
<1>14. /\ DOMAIN json.flist = 1..Len(json.flist) /\ Len(json.flist) \in Nat
       /\ DOMAIN more = 1..(Len(json.flist) + 1) /\ more[Len(json.flist) + 1] = entry
       /\ \A n \in DOMAIN json.flist : n \in DOMAIN more /\ more[n] = json.flist[n]
       /\ \A n \in DOMAIN more : n \in DOMAIN json.flist \/ n = Len(json.flist) + 1
  BY <1>5, <1>6
<1> HIDE DEF more
<1>15. json'.flist = more
  BY <1>7 DEF more
<1>16. FlistFiles' = FlistFiles \cup {f}
  BY <1>5, <1>14, <1>15 DEF FlistFiles
<1>17. ListedInOrder'
  <2>1. ASSUME NEW m \in DOMAIN more, NEW n \in DOMAIN more, m < n PROVE Before(more[m].fp, more[n].fp)
    <3>1. m \in DOMAIN json.flist
      BY <1>14, <2>1
    <3>2. CASE n \in DOMAIN json.flist
      BY <1>11, <1>14, <2>1, <3>1, <3>2 DEF ListedInOrder
    <3>3. CASE n = Len(json.flist) + 1
      <4>1. json.flist[m].fp \in SeenFiles
        BY <1>11, <3>1 DEF FlistFiles
      <4> QED
        BY <1>3, <1>5, <1>14, <3>1, <3>3, <4>1
    <3> QED
      BY <1>14, <3>2, <3>3
  <2>2. \A n \in DOMAIN more : FnRight(more[n])
    BY <1>5, <1>11, <1>14 DEF ListedInOrder
  <2> QED
    BY <1>1, <1>15, <2>1, <2>2 DEF ListedInOrder, FnRight
<1>18. NodeFiles' = NodeFiles /\ Kept' = Kept
  BY <1>1 DEF NodeFiles, Kept
<1>19. Converting'
  BY <1>1, <1>3, <1>7, <1>11, <1>13, <1>16, <1>17, <1>18, MailStays DEF Converting, AtMostOne
<1> QED
  BY <1>8, <1>9, <1>10, <1>19 DEF MailInv

\* The text is made of the whole list.
LEMMA FinishKeeps == MailInv /\ Finish => MailInv'
<1> SUFFICES ASSUME MailInv, Finish PROVE MailInv'
  OBVIOUS
<1>1. /\ message' = message /\ todo' = todo /\ hasList' = hasList /\ nodes' = nodes /\ disk' = disk
      /\ streams' = streams /\ converted' = converted /\ objectmsg' = objectmsg
      /\ at = "json" /\ at' = "free" /\ converted = Len(nodes)
      /\ \/ json' = [json EXCEPT !.is = TRUE] /\ failed' = failed /\ lost' = lost
         \/ failed = NULL /\ failed' = "dump" /\ lost' \in {lost, lost + 3} /\ json' = json
  BY DEF Finish, Fault, NoFault
<1>2. MailShapes /\ MailReturned /\ NodesInOrder /\ Converting
  BY DEF MailInv
<1>3. json \in [is : BOOLEAN, plain : SUBSET Leaves, flist : Seq(Listed)] /\ lost \in Nat /\ ~json.is
  BY <1>1, <1>2 DEF MailShapes, MailReturned
<1>4. /\ json'.plain = json.plain /\ json'.flist = json.flist /\ lost' \in Nat
      /\ json' \in [is : BOOLEAN, plain : SUBSET Leaves, flist : Seq(Listed)]
  <2>1. CASE json' = [json EXCEPT !.is = TRUE] /\ lost' = lost
    BY <1>3, <2>1
  <2>2. CASE lost' \in {lost, lost + 3} /\ json' = json
    BY <1>3, <2>2
  <2> QED
    BY <1>1, <2>1, <2>2
<1>5. MailShapes'
  BY <1>1, <1>2, <1>4, MailStays DEF MailShapes
<1>6. MailReturned'
  BY <1>1, <1>2, <1>3 DEF MailReturned, NULL
<1>7. NodesInOrder' /\ Beginning' /\ Unread' /\ MidWalk' /\ Converting'
  BY <1>1, <1>2, MailStays DEF NodesInOrder, Beginning, Unread, MidWalk, Converting
<1>8. /\ FlistFiles = SeenFiles \cap Attachments /\ ListedInOrder
      /\ json.plain = PlainOf(SeenFiles \cap MailTexts)
      /\ AtMostOne(Attachments \ Kept)
      /\ failed = NULL => NodeFiles = Leaves /\ disk = Leaves \ ((SeenFiles \cap MailTexts) \ json.plain)
  BY <1>1, <1>2 DEF Converting
<1>9. SeenFiles = NodeFiles
  <2>1. nodes \in Seq(Node)
    BY <1>2 DEF MailShapes
  <2>2. DOMAIN nodes = 1..converted
    BY <1>1, <2>1
  <2> QED
    BY <2>2 DEF SeenFiles, NodeFiles
<1>10. FlistFiles' = FlistFiles /\ Named' = Named /\ ListedInOrder' /\ Named = FlistFiles \cup json.plain
  BY <1>1, <1>4, <1>8 DEF FlistFiles, Named, ListedInOrder, FnRight
<1>11. Attachments \ (Named \cap disk) \subseteq Attachments \ Kept
  BY <1>8, <1>9, <1>10 DEF Kept
<1>12. AtMostOne((Attachments \ (Named \cap disk))')
  BY <1>1, <1>8, <1>10, <1>11, MailStays DEF AtMostOne
<1>13. failed = NULL => /\ disk = Named /\ FlistFiles = Attachments
                        /\ json.plain = PlainOf(MailTexts)
  <2> SUFFICES ASSUME failed = NULL
               PROVE  disk = Named /\ FlistFiles = Attachments /\ json.plain = PlainOf(MailTexts)
    OBVIOUS
  <2>1. SeenFiles = Leaves
    BY <1>8, <1>9
  <2>2. FlistFiles = Attachments /\ json.plain = PlainOf(MailTexts) /\ disk = Leaves \ (MailTexts \ json.plain)
    <3>1. SeenFiles \cap MailTexts = MailTexts /\ SeenFiles \cap Attachments = Attachments
      BY <2>1 DEF Attachments, MailTexts
    <3> QED
      BY <1>8, <3>1
  <2>3. json.plain \subseteq MailTexts
    BY <2>2 DEF PlainOf
  <2>4. disk = Named
    BY <1>10, <2>2, <2>3 DEF Attachments, MailTexts
  <2> QED
    BY <2>2, <2>4
<1>14. Ready'
  <2> SUFFICES ASSUME json'.is PROVE Ready'
    BY DEF Ready
  <2>1. failed' = failed
    BY <1>1, <1>3
  <2> QED
    BY <1>1, <1>4, <1>10, <1>12, <1>13, <2>1, MailStays DEF Ready
<1> QED
  BY <1>5, <1>6, <1>7, <1>14 DEF MailInv

\* What was made of the mail outlives the list.
LEMMA FreeKeeps == MailInv /\ FreeNameNodelist => MailInv'
<1> SUFFICES ASSUME MailInv, FreeNameNodelist PROVE MailInv'
  OBVIOUS
<1>1. /\ message' = message /\ todo' = todo /\ disk' = disk /\ streams' = streams /\ lost' = lost
      /\ converted' = converted /\ objectmsg' = objectmsg /\ json' = json /\ failed' = failed
      /\ at = "free" /\ at' = "done" /\ nodes' = <<>> /\ hasList' = FALSE
  BY DEF FreeNameNodelist
<1>2. MailShapes /\ MailReturned /\ Ready
  BY DEF MailInv
<1>3. MailShapes'
  <2>1. nodes' \in Seq(Node)
    BY <1>1
  <2> QED
    BY <1>1, <1>2, <2>1, MailStays DEF MailShapes
<1>4. MailReturned' /\ NodesInOrder' /\ Beginning' /\ Unread' /\ MidWalk' /\ Converting'
  BY <1>1, <1>2 DEF MailReturned, NodesInOrder, Beginning, Unread, MidWalk, Converting
<1>5. Ready'
  BY <1>1, <1>2, MailStays DEF Ready, Named, FlistFiles, ListedInOrder, FnRight
<1> QED
  BY <1>3, <1>4, <1>5 DEF MailInv

\* When nothing happens.
LEMMA MailStutters == MailInv /\ UNCHANGED mailVars => MailInv'
<1> SUFFICES ASSUME MailInv, UNCHANGED mailVars PROVE MailInv'
  OBVIOUS
<1>1. /\ message' = message /\ at' = at /\ todo' = todo /\ hasList' = hasList /\ nodes' = nodes
      /\ disk' = disk /\ streams' = streams /\ lost' = lost /\ converted' = converted
      /\ objectmsg' = objectmsg /\ json' = json /\ failed' = failed
  BY DEF mailVars
<1>2. Kept' = Kept /\ NodeFiles' = NodeFiles /\ SeenFiles' = SeenFiles /\ FlistFiles' = FlistFiles /\ Named' = Named
  BY <1>1 DEF Kept, NodeFiles, SeenFiles, FlistFiles, Named
<1>3. Gone' = Gone
  BY <1>1, <1>2, MailStays DEF Gone
<1>4. MailShapes' /\ MailReturned' /\ NodesInOrder' /\ Beginning' /\ Unread'
  BY <1>1, MailStays DEF MailInv, MailShapes, MailReturned, NodesInOrder, Beginning, Unread
<1>5. MidWalk'
  BY <1>1, <1>2, <1>3 DEF MailInv, MidWalk, TodoInOrder
<1>6. ListedInOrder' <=> ListedInOrder
  BY <1>1 DEF ListedInOrder, FnRight
<1>7. Converting' /\ Ready'
  BY <1>1, <1>2, <1>6, MailStays DEF MailInv, Converting, Ready
<1> QED
  BY <1>4, <1>5, <1>7 DEF MailInv

\* The invariant, always.
LEMMA MailAlways == MailSpec => []MailInv
<1>1. MailInv /\ [NextMail]_mailVars => MailInv'
  <2> SUFFICES ASSUME MailInv, [NextMail]_mailVars PROVE MailInv'
    OBVIOUS
  <2>1. CASE MessagePart
    BY <2>1, MessageIsLeaf, LeafKeeps
  <2>2. CASE LeafPart
    BY <2>2, LeafIsLeaf, LeafKeeps
  <2> QED
    BY <2>1, <2>2, MysmtpKeeps, MultipartKeeps, WrittenKeeps, ContentKeeps, AttachmentKeeps, FinishKeeps,
       FreeKeeps, MailStutters DEF NextMail
<1> QED
  BY <1>1, MailInit, PTL DEF MailSpec

\* If nothing fails, the text that mysmtp makes names exactly the files on disk: the attachments of
\* the mail, whatever its tree, in the order of the mail and each with its own name, and its first text.
THEOREM AttachmentsAreInOrder == MailSpec => []AttachmentsInOrder
<1>1. MailInv => AttachmentsInOrder
  <2> SUFFICES ASSUME MailInv, at = "done", json.is, failed = NULL PROVE AttachmentsInOrder
    BY DEF AttachmentsInOrder, DiskIsNamed, Done
  <2>1. disk = Named /\ FlistFiles = Attachments /\ ListedInOrder /\ json.plain = PlainOf(MailTexts)
    BY DEF MailInv, Ready
  <2>2. DiskIsNamed
    BY <2>1 DEF DiskIsNamed
  <2>3. {json.flist[n].fp : n \in DOMAIN json.flist} = Attachments
    BY <2>1 DEF FlistFiles
  <2>4. \A m, n \in DOMAIN json.flist : m < n => Before(json.flist[m].fp, json.flist[n].fp)
    BY <2>1 DEF ListedInOrder
  <2>5. \A n \in DOMAIN json.flist : \E a \in {message[json.flist[n].fp]} :
           /\ a.filename = NULL => json.flist[n].fn = ""
           /\ a.filename \notin {NULL, BadUtf8} => json.flist[n].fn = a.filename
    BY <2>1 DEF ListedInOrder, FnRight
  <2>6. json.plain = {t \in MailTexts : \A x \in MailTexts : ~Before(x, t)}
    BY <2>1 DEF PlainOf
  <2> QED
    BY <2>2, <2>3, <2>4, <2>5, <2>6 DEF AttachmentsInOrder
<1> QED
  BY <1>1, MailAlways, PTL

\* Whatever fails with one part, at most one attachment is not both named and on disk, and
\* mysmtp gives back all but what the failure took.
THEOREM FailuresStayLocal == MailSpec => []FailureStaysLocal
<1>1. MailInv => FailureStaysLocal
  <2> SUFFICES ASSUME MailInv PROVE FailureStaysLocal
    OBVIOUS
  <2>1. MailTypeOK
    BY DEF MailInv, MailShapes, MailTypeOK
  <2>2. AllReturned
    BY <2>1 DEF MailInv, MailReturned, AllReturned
  <2>3. ASSUME Done PROVE Cardinality({a \in Attachments : a \notin Named \cap disk}) <= 1
    <3> DEFINE S == {a \in Attachments : a \notin Named \cap disk}
    <3>1. \A p, q \in S : p = q
      BY <2>3 DEF MailInv, Ready, Done, AtMostOne
    <3> HIDE DEF S
    <3>2. ASSUME NEW p \in S PROVE Cardinality(S) <= 1
      <4>1. S = {p}
        BY <3>1
      <4>2. Cardinality({p}) = 1
        BY FS_Singleton
      <4> QED
        BY <4>1, <4>2
    <3>3. Cardinality(S) <= 1
      <4>1. S = {} => Cardinality(S) <= 1
        BY FS_EmptySet
      <4> QED
        BY <3>2, <4>1
    <3> QED
      BY <3>3 DEF S
  <2> QED
    BY <2>2, <2>3 DEF FailureStaysLocal
<1> QED
  BY <1>1, MailAlways, PTL
=============================================================================
