---------------------------- MODULE PacketQueue ----------------------------
(***************************************************************************)
(* The packet ring of session_buf.c (rbuff_create ... rbuff_destroy): one  *)
(* thread puts packets, one takes them, and each packet is in a block of   *)
(* its own while it is in the ring.  The actions say what happens to the   *)
(* ring; PacketRing joins them with the calls of the pool that the blocks  *)
(* are from.  NoBlock is the null pointer.                                 *)
(***************************************************************************)
EXTENDS Integers, Sequences

CONSTANTS PacketQlength, \* irb_qlength, the length of the ring
          Caplens,       \* the lengths of packets: valid, empty and too long
          MaxCaplen,     \* the 65536 of rbuff_putdata
          MaxPackets,    \* how many packets come
          Signals        \* signals interrupt a thread that waits

ASSUME PacketQueueAssumption ==
    /\ PacketQlength \in Nat \ {0} /\ Caplens \subseteq Nat /\ MaxCaplen \in Nat
    /\ MaxPackets \in Nat /\ Signals \in BOOLEAN

VARIABLES rbuff,         \* the ring
          putter, getter,\* where the two threads are
          put, got,      \* the packets put and taken since the ring was made
          spoiled        \* a block was freed while the ring still pointed to it

queueVars == <<rbuff, putter, getter, put, got, spoiled>>

NoBlock == <<>>
Slot    == [data |-> NoBlock, caplen |-> 0, packet |-> 0]
NoRing  == [base |-> <<>>, head |-> 0, tail |-> 0, empty |-> 0, full |-> 0, lost |-> 0]

InitQueue ==
    /\ rbuff = NoRing
    /\ putter = [at |-> "idle", next |-> 1, caplen |-> 0] /\ getter = "idle"
    /\ put = <<>> /\ got = <<>> /\ spoiled = FALSE

Made == rbuff.base # <<>>
RingBlocks == {rbuff.base[i].data : i \in DOMAIN rbuff.base} \ {NoBlock}

\* rbuff_create
Create ==
    /\ ~Made /\ putter.at = "idle" /\ getter = "idle"
    /\ rbuff' = [NoRing EXCEPT !.base = [i \in 0..(PacketQlength - 1) |-> Slot], !.empty = PacketQlength]
    /\ put' = <<>> /\ got' = <<>>
    /\ UNCHANGED <<putter, getter, spoiled>>

\* rbuff_putdata to its sem_wait
PutWait(caplen) ==
    /\ Made /\ putter.at = "idle" /\ putter.next <= MaxPackets /\ rbuff.empty > 0
    /\ rbuff' = [rbuff EXCEPT !.empty = @ - 1]
    /\ putter' = [putter EXCEPT !.at = "fill", !.caplen = caplen]
    /\ UNCHANGED <<getter, put, got, spoiled>>

\* The same, interrupted by a signal while it waits: the packet is dropped.
PutDropped ==
    /\ Signals
    /\ Made /\ putter.at = "idle" /\ putter.next <= MaxPackets /\ rbuff.empty = 0
    /\ putter' = [putter EXCEPT !.next = @ + 1]
    /\ UNCHANGED <<rbuff, getter, put, got, spoiled>>

\* Mutant: the last slot is never used.
AfterShort(i) == IF i >= PacketQlength - 2 THEN 0 ELSE i + 1

\* The cursors wrap at irb_buffer_end_index.
After(i) == IF i >= PacketQlength - 1 THEN 0 ELSE i + 1

\* A packet that is empty or too long is given no block.
Valid == putter.caplen > 0 /\ putter.caplen <= MaxCaplen

\* rbuff_putdata up to its sem_post: the packet goes to a block, and the block and its
\* header to the slot at the tail.  A packet that is not valid, and one there is no memory
\* for, end the call, the slot it waited for with it.
PutFill(data) ==
    /\ putter.at = "fill" /\ (data # NoBlock => Valid)
    /\ IF data # NoBlock
       THEN /\ rbuff' = [rbuff EXCEPT !.base[rbuff.tail] = [data |-> data, caplen |-> putter.caplen,
                                                          packet |-> putter.next],
                                     !.tail = After(@)]
            /\ putter' = [putter EXCEPT !.at = "post"]
       ELSE /\ rbuff' = [rbuff EXCEPT !.base[rbuff.tail].data = IF Valid THEN NoBlock ELSE @, !.lost = @ + 1]
            /\ putter' = [putter EXCEPT !.at = "idle", !.next = @ + 1]
    /\ UNCHANGED <<getter, put, got, spoiled>>

\* Its sem_post
PutPost ==
    /\ putter.at = "post"
    /\ rbuff' = [rbuff EXCEPT !.full = @ + 1]
    /\ put' = Append(put, putter.next)
    /\ putter' = [putter EXCEPT !.at = "idle", !.next = @ + 1]
    /\ UNCHANGED <<getter, got, spoiled>>

\* rbuff_getdata to its sem_wait
GetWait ==
    /\ Made /\ getter = "idle" /\ rbuff.full > 0
    /\ rbuff' = [rbuff EXCEPT !.full = @ - 1]
    /\ getter' = "take"
    /\ UNCHANGED <<putter, put, got, spoiled>>

HeadData == rbuff.base[rbuff.head].data

\* The same, interrupted while it waits: a block that is in the slot at the head already
\* is freed, and the slot keeps pointing to it.
GetInterrupted ==
    /\ Signals
    /\ Made /\ getter = "idle" /\ rbuff.full = 0
    /\ spoiled' = (HeadData # NoBlock)
    /\ UNCHANGED <<rbuff, putter, getter, put, got>>

\* rbuff_getdata up to its sem_post: the packet and its header are copied out of the slot at
\* the head, the block freed and the slot cleared.  Without a block it returns where it is.
GetTake ==
    /\ getter = "take"
    /\ IF HeadData = NoBlock
       THEN getter' = "idle" /\ rbuff' = [rbuff EXCEPT !.lost = @ + 1] /\ got' = got
       ELSE /\ getter' = "post"
            /\ rbuff' = [rbuff EXCEPT !.base[rbuff.head] = Slot, !.head = After(@)]
            /\ got' = Append(got, rbuff.base[rbuff.head].packet)
    /\ UNCHANGED <<putter, put, spoiled>>

\* Its sem_post
GetPost ==
    /\ getter = "post"
    /\ rbuff' = [rbuff EXCEPT !.empty = @ + 1]
    /\ getter' = "idle"
    /\ UNCHANGED <<putter, put, got, spoiled>>

\* rbuff_destroy, between calls
Destroy ==
    /\ Made /\ putter.at = "idle" /\ getter = "idle"
    /\ rbuff' = NoRing
    /\ UNCHANGED <<putter, getter, put, got, spoiled>>

\* The ring on any pool: a packet that is valid may be given any block, or none.  Once a
\* block was freed early, anything might happen, and no behaviour is looked at further.
NextQueue ==
    /\ ~spoiled
    /\ \/ Create \/ (\E caplen \in Caplens : PutWait(caplen)) \/ PutDropped
       \/ (\E data : PutFill(data)) \/ PutPost
       \/ GetWait \/ GetInterrupted \/ GetTake \/ GetPost \/ Destroy

QueueSpec == InitQueue /\ [][NextQueue]_queueVars

(***************************************************************************)
(* Properties                                                              *)
(***************************************************************************)

\* As long as no signal has made the taker free a block early, the packets taken are those
\* put, in their order, those put and not taken wait from the head on, each in a block, and
\* slots are only lost to calls that failed.
PacketsKept ==
    ~spoiled /\ Made =>
        LET behind == SubSeq(put, Len(got) + 1, Len(put))
            At(i)  == (rbuff.head + i) % PacketQlength
        IN  /\ Len(got) <= Len(put)
            /\ \A i \in 1..Len(got) : got[i] = put[i]
            /\ \A i \in 1..Len(behind) :
                  rbuff.base[At(i - 1)].packet = behind[i] /\ rbuff.base[At(i - 1)].data # NoBlock
            /\ rbuff.empty + rbuff.full + rbuff.lost + (IF putter.at = "idle" THEN 0 ELSE 1)
                  + (IF getter = "idle" THEN 0 ELSE 1) = PacketQlength
=============================================================================
