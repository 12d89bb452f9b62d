---------------------------- MODULE DlpPipeline ----------------------------
(***************************************************************************)
(* The path of a question from the ICAP service to the policy matcher and  *)
(* of the verdict back.                                                    *)
(*                                                                         *)
(*   handler --session ring--> worker --System V queue--> policy matcher   *)
(*      ^                                                     |            *)
(*      +---------------- System V queue, by thread id <------+            *)
(*                                                                         *)
(* A worker takes a node from the session ring, follows its attr into the  *)
(* stack frame of the handler that waits, parses the mail (webmail_mail),  *)
(* extracts the files and sends one message (file_extract_pthread and      *)
(* send_msgqueue), then frees what hangs off the frame.  The matcher is    *)
(* another process; it judges one message at a time.  Both queues belong   *)
(* to the kernel and outlive the server.                                   *)
(***************************************************************************)
EXTENDS EchoService

CONSTANTS Workers,      \* threads that serve the session ring
          PolicyCap,    \* messages the queue to the policy matcher holds
          MaxRestarts   \* bound: how often the server process dies

ASSUME PipelineAssumption ==
    /\ IsFiniteSet(Workers)
    /\ PolicyCap \in Nat \ {0}
    /\ MaxRestarts \in Nat

VARIABLES
    wpc,          \* where each worker stands
    frame,        \* the handler frame its node points to
    outlogLock,   \* workers that hold write_outlog_lock
    toPolicy,     \* the queue FILE_KEY: frames a message was sent about
    restarts      \* how often the server has died

pipeVars == <<wpc, frame, outlogLock, toPolicy, restarts>>
vars == <<serviceVars, ring, verdicts, pipeVars>>

NoFrame == <<>>

Init ==
    /\ ServiceInit
    /\ wpc = [w \in Workers |-> "idle"]
    /\ frame = [w \in Workers |-> NoFrame]
    /\ outlogLock = {}
    /\ toPolicy = <<>>
    /\ restarts = 0

WGoto(w, place) == wpc' = [wpc EXCEPT ![w] = place]

-----------------------------------------------------------------------------
(* A worker *)

\* sbuff_getdata
Take(w) ==
    /\ wpc[w] = "idle" /\ ring # <<>>
    /\ frame' = [frame EXCEPT ![w] = Head(ring)]
    /\ ring' = Tail(ring)
    /\ WGoto(w, "parse")
    /\ UNCHANGED <<serviceVars, verdicts, outlogLock, toPolicy, restarts>>

\* webmail_mail reads the request through the frame and builds a JSON text of its
\* own; or it recognises nothing that it would send.
Parse(w) ==
    /\ wpc[w] = "parse"
    /\ \/ WGoto(w, "extract")
       \/ "silent" \in Faults /\ WGoto(w, "touch")
    /\ UNCHANGED <<serviceVars, ring, verdicts, frame, outlogLock, toPolicy, restarts>>

\* The files have been extracted: file_extract_pthread takes write_outlog_lock.
LockOutlog(w) ==
    /\ wpc[w] = "extract" /\ outlogLock = {}
    /\ outlogLock' = {w}
    /\ WGoto(w, "check")
    /\ UNCHANGED <<serviceVars, ring, verdicts, frame, toPolicy, restarts>>

\* Mutant: write_outlog_lock is kept.
UnlockForgotten(w) == UNCHANGED outlogLock /\ WGoto(w, "touch")

Unlock(w) == outlogLock' = outlogLock \ {w} /\ WGoto(w, "touch")

\* send_msgqueue: a full queue loses the message, or else ...
CheckQueue(w) ==
    /\ wpc[w] = "check"
    /\ \/ Len(toPolicy) < PolicyCap /\ WGoto(w, "msgsnd") /\ UNCHANGED outlogLock
       \/ Len(toPolicy) >= PolicyCap /\ Unlock(w)
    /\ UNCHANGED <<serviceVars, ring, verdicts, frame, toPolicy, restarts>>

\* ... msgsnd, which would wait for room.
MsgSnd(w) ==
    /\ wpc[w] = "msgsnd" /\ Len(toPolicy) < PolicyCap
    /\ toPolicy' = Append(toPolicy, frame[w])
    /\ Unlock(w)
    /\ UNCHANGED <<serviceVars, ring, verdicts, frame, restarts>>

\* webmail_free_HttpSession goes through the frame once more.
FreeHttpSession(w) ==
    /\ wpc[w] = "touch"
    /\ frame' = [frame EXCEPT ![w] = NoFrame]
    /\ WGoto(w, "idle")
    /\ UNCHANGED <<serviceVars, ring, verdicts, outlogLock, toPolicy, restarts>>

Work(w) ==
    Take(w) \/ Parse(w) \/ LockOutlog(w) \/ CheckQueue(w) \/ MsgSnd(w) \/ FreeHttpSession(w)

-----------------------------------------------------------------------------
(* The policy matcher and the server process *)

\* It answers to the thread id it finds in the message.
Judge ==
    /\ toPolicy # <<>>
    /\ LET f == Head(toPolicy)
       IN  \E m \in {"y", "n"} :
               verdicts' = [verdicts EXCEPT ![f[1]] = Append(@, [about |-> f, msg |-> m])]
    /\ toPolicy' = Tail(toPolicy)
    /\ UNCHANGED <<serviceVars, ring, wpc, frame, outlogLock, restarts>>

\* The process dies with its threads, its ring and its locks; the queues stay.
Restart ==
    /\ "restart" \in Faults /\ restarts < MaxRestarts
    /\ restarts' = restarts + 1
    /\ Forget(Threads)
    /\ ring' = <<>>
    /\ wpc' = [w \in Workers |-> "idle"]
    /\ frame' = [w \in Workers |-> NoFrame]
    /\ outlogLock' = {}
    /\ UNCHANGED <<verdicts, toPolicy>>

Next ==
    \/ \E t \in Threads : (InitRequestData(t) \/ Serve(t)) /\ UNCHANGED pipeVars
    \/ \E w \in Workers : Work(w)
    \/ Judge
    \/ Restart

Spec == Init /\ [][Next]_vars

\* Threads are scheduled, the server goes on feeding and draining a request that
\* has begun, the matcher answers, and a blocked put or lock gets its turn.
FairSpec ==
    /\ Spec
    /\ \A t \in Threads : SF_vars(Serve(t) /\ UNCHANGED pipeVars)
    /\ \A w \in Workers : SF_vars(Work(w))
    /\ WF_vars(Judge)

-----------------------------------------------------------------------------

TypeOK ==
    /\ ServiceTypeOK
    /\ wpc \in [Workers -> {"idle", "parse", "extract", "check", "msgsnd", "touch"}]
    /\ frame \in [Workers -> Frame \cup {NoFrame}]
    /\ outlogLock \in SUBSET Workers
    /\ toPolicy \in Seq(Frame)
    /\ restarts \in 0..MaxRestarts

Asking(w) == wpc[w] \in {"parse", "extract", "check", "msgsnd"}

\* Where questions of thread t, or the verdicts on them, are.
InRing(t)     == {i \in DOMAIN ring : ring[i][1] = t}
InWork(t)     == {w \in Workers : Asking(w) /\ frame[w][1] = t}
InPolicy(t)   == {i \in DOMAIN toPolicy : toPolicy[i][1] = t}
InVerdicts(t) == DOMAIN verdicts[t]

Places(t) == Cardinality(InRing(t)) + Cardinality(InWork(t))
             + Cardinality(InPolicy(t)) + Cardinality(InVerdicts(t))

\* A thread that waits has at most one question under way, and a thread that does
\* not wait has none: a question is in the ring, with a worker, in the queue to
\* the matcher, or answered, and it is about the request the thread has now.
OneQuestion ==
    \A t \in Threads :
        LET mine == <<t, served[t]>>
        IN  /\ Places(t) <= IF pc[t] = "wait" THEN 1 ELSE 0
            /\ \A i \in InRing(t) : ring[i] = mine
            /\ \A w \in InWork(t) : frame[w] = mine
            /\ \A i \in InPolicy(t) : toPolicy[i] = mine
            /\ \A i \in InVerdicts(t) : verdicts[t][i].about = mine

\* The message a handler takes is the verdict on the request it serves, although
\* the only thing that ties the two together is a thread id that is used again
\* for every later request: no thread ever has two questions under way.  Both queues
\* outlive the server, so after a restart a thread may take the verdict on a question
\* of the process before.
OwnVerdict ==
    /\ TypeOK
    /\ restarts = 0 =>
        /\ OneQuestion
        /\ \A t \in Threads : answer[t] # NoAnswer => answer[t].about = <<t, served[t]>>

\* As long as a worker has not sent its message it reads the frame of a handler
\* that is still there: the one that put the node waits and serves the same request.
\* After a restart a verdict from before it may have sent the handler on.
ReadsLiveFrame ==
    restarts = 0 => \A w \in Workers : Asking(w) =>
        /\ pc[frame[w][1]] = "wait"
        /\ served[frame[w][1]] = frame[w][2]

\* A handler that waits although its question is nowhere: the put was interrupted, or
\* the worker had nothing to send.  msgrcv has no time limit.
Forgotten(t) == pc[t] = "wait" /\ Places(t) = 0

\* Every request that begins is answered and released in the end, as long as its
\* question is under way.
EveryRequestEnds ==
    \A t \in Threads : (pc[t] # "free") ~> (pc[t] = "free" \/ Forgotten(t))
=============================================================================
