---------------------------- MODULE SessionRing ----------------------------
(***************************************************************************)
(* The session ring of session_buf.c: the bounded buffer that carries a    *)
(* SESSION_BUFFER_NODE from the threads that recognise a mail, an upload   *)
(* or a chat message to the threads that extract its files.                *)
(*                                                                         *)
(* sbuff_putdata reserves a slot inside the critical section of pmutex and *)
(* fills it after leaving it; sbuff_getdata reads the slot at the head     *)
(* inside the critical section of mutex.  The two semaphores count free    *)
(* and filled slots.  A slot is copied field by field, so a copy is two    *)
(* steps here: the descriptor (five tuple, attr, file handle), then the    *)
(* two names.                                                              *)
(***************************************************************************)
EXTENDS Integers, Sequences, FiniteSets

CONSTANTS Producers,   \* threads that call sbuff_putdata
          Consumers,   \* threads that call sbuff_getdata in a loop
          Qlength,     \* irb_qlength, the number of slots
          MaxPuts,     \* bound: how many entries one producer puts
          NoEntry      \* what calloc leaves in a slot

ASSUME ThreadsAssumption ==
    /\ IsFiniteSet(Producers) /\ IsFiniteSet(Consumers)
    /\ Producers \cap Consumers = {}

ASSUME QlengthAssumption == Qlength \in Nat \ {0}

ASSUME MaxPutsAssumption == MaxPuts \in Nat

Entry == Producers \X (1..MaxPuts)   \* one value for each put of each producer

ASSUME NoEntryAssumption == NoEntry \notin Entry

Index     == 0..(Qlength - 1)
EndIndex  == Qlength - 1             \* irb_buffer_end_index
Content   == Entry \cup {NoEntry}
Node      == [desc : Content, names : Content]

VARIABLES
    empty,       \* value of the semaphore empty_buffer
    full,        \* value of the semaphore full_buffer
    irb_tail,    \* irb_tail_index, written inside pmutex
    irb_head,    \* irb_head_index, written inside mutex
    rb_base,     \* the slots
    mutex,       \* consumers that are inside the critical section of mutex
    ringpc,          \* where each thread stands in sbuff_putdata or sbuff_getdata
    puts,        \* how many calls of sbuff_putdata each producer has begun
    temp_index,  \* the slot each producer reserved
    hdr,         \* the node each consumer is copying out
    reserved,    \* history: entries in the order their slots were reserved
    taken        \* history: nodes in the order they were copied out

prodVars == <<puts, temp_index, reserved>>
consVars == <<mutex, hdr, taken>>
ringVars == <<empty, full, irb_tail, irb_head, rb_base, mutex, ringpc, puts,
          temp_index, hdr, reserved, taken>>

RingThreads == Producers \cup Consumers

RingInit ==
    /\ empty = Qlength
    /\ full = 0
    /\ irb_tail = 0
    /\ irb_head = 0
    /\ rb_base = [i \in Index |-> [desc |-> NoEntry, names |-> NoEntry]]
    /\ mutex = {}
    /\ ringpc = [t \in RingThreads |-> "idle"]
    /\ puts = [p \in Producers |-> 0]
    /\ temp_index = [p \in Producers |-> 0]
    /\ hdr = [c \in Consumers |-> [desc |-> NoEntry, names |-> NoEntry]]
    /\ reserved = <<>>
    /\ taken = <<>>

-----------------------------------------------------------------------------
(* sbuff_putdata *)

Current(p) == <<p, puts[p]>>         \* the entry producer p is putting

\* sem_wait(empty_buffer)
WaitEmpty(p) ==
    /\ ringpc[p] = "idle"
    /\ puts[p] < MaxPuts
    /\ empty > 0
    /\ empty' = empty - 1
    /\ puts' = [puts EXCEPT ![p] = @ + 1]
    /\ ringpc' = [ringpc EXCEPT ![p] = "reserve"]
    /\ UNCHANGED <<full, irb_tail, irb_head, rb_base, temp_index, reserved, consVars>>

\* sem_wait returns -1 (a signal): sbuff_putdata gives up and its caller, which
\* ignores the result, loses the entry.
WaitInterrupted(p) ==
    /\ ringpc[p] = "idle"
    /\ puts[p] < MaxPuts
    /\ puts' = [puts EXCEPT ![p] = @ + 1]
    /\ UNCHANGED <<empty, full, irb_tail, irb_head, rb_base, ringpc, temp_index, reserved,
                   consVars>>

\* The critical section of pmutex touches irb_tail_index and nothing else
\* does, so it is one step.
Reserve(p) ==
    /\ ringpc[p] = "reserve"
    /\ temp_index' = [temp_index EXCEPT ![p] = irb_tail]
    /\ irb_tail' = IF irb_tail >= EndIndex THEN 0 ELSE irb_tail + 1
    /\ reserved' = Append(reserved, Current(p))
    /\ ringpc' = [ringpc EXCEPT ![p] = "fill"]
    /\ UNCHANGED <<empty, full, irb_head, rb_base, puts, consVars>>

\* After the unlock: session_five_attr, attr and old_file ...
FillDesc(p) ==
    /\ ringpc[p] = "fill"
    /\ rb_base' = [rb_base EXCEPT ![temp_index[p]].desc = Current(p)]
    /\ ringpc' = [ringpc EXCEPT ![p] = "fillNames"]
    /\ UNCHANGED <<empty, full, irb_tail, irb_head, prodVars, consVars>>

\* ... then orgname and strname.
FillNames(p) ==
    /\ ringpc[p] = "fillNames"
    /\ rb_base' = [rb_base EXCEPT ![temp_index[p]].names = Current(p)]
    /\ ringpc' = [ringpc EXCEPT ![p] = "post"]
    /\ UNCHANGED <<empty, full, irb_tail, irb_head, prodVars, consVars>>

\* Mutant: a slot is filled and not announced.
PostFullForgotten(p) ==
    /\ ringpc[p] = "post"
    /\ ringpc' = [ringpc EXCEPT ![p] = "idle"]
    /\ UNCHANGED <<empty, full, irb_tail, irb_head, rb_base, prodVars, consVars>>

\* sem_post(full_buffer)
PostFull(p) ==
    /\ ringpc[p] = "post"
    /\ full' = full + 1
    /\ ringpc' = [ringpc EXCEPT ![p] = "idle"]
    /\ UNCHANGED <<empty, irb_tail, irb_head, rb_base, prodVars, consVars>>

-----------------------------------------------------------------------------
(* sbuff_getdata *)

\* sem_wait(full_buffer)
WaitFull(c) ==
    /\ ringpc[c] = "idle"
    /\ full > 0
    /\ full' = full - 1
    /\ ringpc' = [ringpc EXCEPT ![c] = "lock"]
    /\ UNCHANGED <<empty, irb_tail, irb_head, rb_base, prodVars, consVars>>

\* Mutant: a consumer does not wait for the one inside.
LockHeadUnlocked(c) ==
    /\ ringpc[c] = "lock"
    /\ mutex' = mutex \cup {c}
    /\ ringpc' = [ringpc EXCEPT ![c] = "copy"]
    /\ UNCHANGED <<empty, full, irb_tail, irb_head, rb_base, prodVars, hdr, taken>>

LockHead(c) ==
    /\ ringpc[c] = "lock"
    /\ mutex = {}
    /\ mutex' = {c}
    /\ ringpc' = [ringpc EXCEPT ![c] = "copy"]
    /\ UNCHANGED <<empty, full, irb_tail, irb_head, rb_base, prodVars, hdr, taken>>

CopyDesc(c) ==
    /\ ringpc[c] = "copy"
    /\ hdr' = [hdr EXCEPT ![c].desc = rb_base[irb_head].desc]
    /\ ringpc' = [ringpc EXCEPT ![c] = "copyNames"]
    /\ UNCHANGED <<empty, full, irb_tail, irb_head, rb_base, prodVars, mutex, taken>>

\* The names, the new head and the unlock.
CopyNames(c) ==
    /\ ringpc[c] = "copyNames"
    /\ hdr' = [hdr EXCEPT ![c].names = rb_base[irb_head].names]
    /\ irb_head' = IF irb_head >= Qlength - 1 THEN 0 ELSE irb_head + 1
    /\ taken' = Append(taken, hdr'[c])
    /\ mutex' = mutex \ {c}
    /\ ringpc' = [ringpc EXCEPT ![c] = "give"]
    /\ UNCHANGED <<empty, full, irb_tail, rb_base, prodVars>>

\* Mutant: a slot is read and not given back.
PostEmptyForgotten(c) ==
    /\ ringpc[c] = "give"
    /\ ringpc' = [ringpc EXCEPT ![c] = "idle"]
    /\ UNCHANGED <<empty, full, irb_tail, irb_head, rb_base, prodVars, consVars>>

\* sem_post(empty_buffer)
PostEmpty(c) ==
    /\ ringpc[c] = "give"
    /\ empty' = empty + 1
    /\ ringpc' = [ringpc EXCEPT ![c] = "idle"]
    /\ UNCHANGED <<full, irb_tail, irb_head, rb_base, prodVars, consVars>>

-----------------------------------------------------------------------------

Putdata(p) == WaitEmpty(p) \/ Reserve(p) \/ FillDesc(p) \/ FillNames(p) \/ PostFull(p)

Getdata(c) == WaitFull(c) \/ LockHead(c) \/ CopyDesc(c) \/ CopyNames(c) \/ PostEmpty(c)

RingNext ==
    \/ \E p \in Producers : Putdata(p) \/ WaitInterrupted(p)
    \/ \E c \in Consumers : Getdata(c)

RingSpec == RingInit /\ [][RingNext]_ringVars

\* Every thread that can run is scheduled; a thread blocked in sem_wait or on
\* the mutex competes with the others and wins in the end (the semaphore and
\* the mutex do not starve a waiter forever).
FairRing ==
    /\ RingSpec
    /\ \A p \in Producers : SF_ringVars(Putdata(p))
    /\ \A c \in Consumers : SF_ringVars(Getdata(c))

-----------------------------------------------------------------------------

RingTypeOK ==
    /\ empty \in Nat
    /\ full \in Nat
    /\ irb_tail \in Index
    /\ irb_head \in Index
    /\ rb_base \in [Index -> Node]
    /\ mutex \in SUBSET Consumers
    /\ ringpc \in [RingThreads -> {"idle", "reserve", "fill", "fillNames", "post",
                           "lock", "copy", "copyNames", "give"}]
    /\ \A p \in Producers : ringpc[p] \in {"idle", "reserve", "fill", "fillNames", "post"}
    /\ \A c \in Consumers : ringpc[c] \in {"idle", "lock", "copy", "copyNames", "give"}
    /\ puts \in [Producers -> 0..MaxPuts]
    /\ \A p \in Producers : ringpc[p] # "idle" => puts[p] >= 1
    /\ temp_index \in [Producers -> Index]
    /\ hdr \in [Consumers -> Node]
    /\ reserved \in Seq(Entry)
    /\ taken \in Seq(Node)

At(S, places) == {t \in S : ringpc[t] \in places}

Reserving  == At(Producers, {"reserve"})                     \* hold a free slot, not yet named
Filling    == At(Producers, {"fill", "fillNames", "post"})   \* own a slot nobody may read yet
Taking     == At(Consumers, {"lock", "copy", "copyNames"})   \* hold the right to read a slot
Returning  == At(Consumers, {"give"})                        \* have read it, not yet given it back

\* Every slot is accounted for exactly once: free, about to be reserved, being
\* filled, filled, being read, or being given back.  No legal interleaving of
\* any number of producers and consumers leaks or mints a semaphore token.
TokensConserved ==
    empty + Cardinality(Reserving) + Cardinality(Filling)
          + full + Cardinality(Taking) + Cardinality(Returning) = Qlength

\* The entries that are reserved and not yet copied out are exactly those being
\* filled, those announced by full, and those a consumer has been granted.  A
\* consumer past sem_wait therefore always has an entry left to read.
EntriesConserved ==
    Len(reserved) = Len(taken) + full + Cardinality(Taking) + Cardinality(Filling)

\* The slot that lies k places after the head, around the end of the array.
FromHead(k) == IF irb_head + k < Qlength THEN irb_head + k ELSE irb_head + k - Qlength

\* The two cursors never lap each other: readers never get ahead of the
\* reservations, reservations never get a whole ring ahead of the readers, and
\* the tail cursor stands exactly that far from the head.
CursorsBounded ==
    /\ Len(taken) <= Len(reserved)
    /\ Len(reserved) <= Len(taken) + Qlength
    /\ irb_tail = FromHead(Len(reserved) - Len(taken))

\* No token of a semaphore, no entry and no slot is lost or counted twice: the
\* inductive invariant from which CursorsBounded follows.
RingInv == RingTypeOK /\ TokensConserved /\ EntriesConserved /\ CursorsBounded

\* What sbuff_getdata copies out is, whole and in order, what sbuff_putdata was
\* given: no node is read before it is filled, torn between two puts, read
\* twice or skipped.
IntactInOrder ==
    \A i \in 1..Len(taken) :
        i \in DOMAIN reserved /\ taken[i] = [desc |-> reserved[i], names |-> reserved[i]]

\* How a sole producer gets there: the slots between the two cursors hold what was
\* reserved for them, all but the last one while it is being filled, and the one
\* consumer inside mutex reads a slot that is complete.
Waiting == Len(reserved) - Len(taken)

SlotsHoldEntries ==
    \A k \in 0..(Waiting - 1) :
        LET node  == rb_base[FromHead(k)]
            entry == reserved[Len(taken) + 1 + k]
        IN  /\ \/ node.desc = entry
               \/ k = Waiting - 1 /\ At(Producers, {"fill"}) # {}
            /\ \/ node.names = entry
               \/ k = Waiting - 1 /\ At(Producers, {"fill", "fillNames"}) # {}

FillsLastSlot ==
    \A p \in Filling :
        /\ Waiting >= 1
        /\ reserved[Len(reserved)] = Current(p)
        /\ temp_index[p] = FromHead(Waiting - 1)

ReadsInsideMutex ==
    /\ \A c, d \in At(Consumers, {"copy", "copyNames"}) : c = d
    /\ At(Consumers, {"copy", "copyNames"}) = mutex
    /\ \A c \in Consumers :
           ringpc[c] = "copyNames" => Waiting >= 1 /\ hdr[c].desc = reserved[Len(taken) + 1]

SoleInv ==
    SlotsHoldEntries /\ FillsLastSlot /\ ReadsInsideMutex /\ IntactInOrder

\* Every entry whose slot was reserved is copied out in the end.
EveryEntryTaken ==
    \A n \in 1..(MaxPuts * Cardinality(Producers)) :
        (Len(reserved) >= n) ~> (Len(taken) >= n)

-----------------------------------------------------------------------------
\* The promise: a bounded first-in first-out channel.  A node that is torn or
\* stale maps to no entry of the channel.
Channel == INSTANCE BoundedFifo WITH
    Capacity <- Qlength,
    put      <- reserved,
    got      <- [i \in 1..Len(taken) |->
                    IF taken[i].desc = taken[i].names THEN taken[i].desc ELSE NoEntry]

ImplementsFifo == Channel!Spec
=============================================================================
