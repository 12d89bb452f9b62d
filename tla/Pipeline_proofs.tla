-------------------------- MODULE Pipeline_proofs --------------------------
(***************************************************************************)
(* Proofs about the pipeline.  First the session ring, for any number of   *)
(* producers and consumers, any length and any number of puts.  Then the   *)
(* gate of the ICAP service, for any threads, workers and requests, any    *)
(* faults and any number of restarts.  Last the packet ring, the other     *)
(* ring of session_buf.c, for any length, packets, signals and pool.       *)
(***************************************************************************)
EXTENDS SessionRing, DlpPipeline, PacketQueue, FiniteSetTheorems, SequenceTheorems, TLAPS

-----------------------------------------------------------------------------
(* The session ring                                                        *)

(***************************************************************************)
(* Type correctness                                                        *)
(***************************************************************************)

\* A slot that was never filled is a node.
LEMMA EmptyNode == [desc |-> NoEntry, names |-> NoEntry] \in Node
  BY DEF Node, Content

\* What a producer is busy with is one of its entries.
LEMMA CurrentIsEntry ==
  ASSUME RingTypeOK, NEW p \in Producers, ringpc[p] # "idle"
  PROVE  Current(p) \in Entry
  <1>1. puts[p] \in 0..MaxPuts /\ puts[p] >= 1
    BY DEF RingTypeOK
  <1> QED
    BY <1>1, MaxPutsAssumption DEF Current, Entry

\* RingTypeOK: every variable of the ring keeps its range; in particular the two
\* cursors stay inside the array and each thread stays inside the function it runs.
THEOREM TypeCorrect == RingSpec => []RingTypeOK
  <1>1. RingInit => RingTypeOK
    <2> SUFFICES ASSUME RingInit PROVE RingTypeOK
      OBVIOUS
    <2>1. irb_tail \in Index /\ irb_head \in Index
      BY QlengthAssumption DEF RingInit, Index
    <2>2. puts \in [Producers -> 0..MaxPuts] /\ temp_index \in [Producers -> Index]
      BY QlengthAssumption, MaxPutsAssumption DEF RingInit, Index
    <2>3. rb_base \in [Index -> Node] /\ hdr \in [Consumers -> Node]
      BY EmptyNode DEF RingInit
    <2>4. mutex \in SUBSET Consumers /\ reserved \in Seq(Entry) /\ taken \in Seq(Node)
      BY DEF RingInit
    <2> QED
      BY <2>1, <2>2, <2>3, <2>4, QlengthAssumption DEF RingInit, RingTypeOK, RingThreads
  <1>2. RingTypeOK /\ [RingNext]_ringVars => RingTypeOK'
    <2> SUFFICES ASSUME RingTypeOK, [RingNext]_ringVars PROVE RingTypeOK'
      OBVIOUS
    <2> USE DEF RingTypeOK, RingThreads, prodVars, consVars
    <2>1. CASE \E p \in Producers : WaitEmpty(p) \/ WaitInterrupted(p)
      <3> PICK p \in Producers : WaitEmpty(p) \/ WaitInterrupted(p)
        BY <2>1
      <3>1. puts[p] + 1 \in 0..MaxPuts /\ puts[p] + 1 >= 1
        BY MaxPutsAssumption DEF WaitEmpty, WaitInterrupted
      <3>2. empty' \in Nat
        BY DEF WaitEmpty, WaitInterrupted
      <3>3. puts' \in [Producers -> 0..MaxPuts] /\ puts'[p] >= 1
        BY <3>1, SMTT(60) DEF WaitEmpty, WaitInterrupted
      <3>4. \A q \in Producers : ringpc'[q] # "idle" => puts'[q] >= 1
        BY <3>3 DEF WaitEmpty, WaitInterrupted
      <3> QED
        BY <3>2, <3>3, <3>4, ThreadsAssumption DEF WaitEmpty, WaitInterrupted
    <2>2. CASE \E p \in Producers : Reserve(p)
      <3> PICK p \in Producers : Reserve(p)
        BY <2>2
      <3>1. Current(p) \in Entry
        BY CurrentIsEntry DEF Reserve
      <3>2. reserved' \in Seq(Entry)
        BY <3>1 DEF Reserve
      <3>3. irb_tail' \in Index
        BY QlengthAssumption DEF Reserve, Index, EndIndex
      <3> QED
        BY <3>2, <3>3, ThreadsAssumption DEF Reserve
    <2>3. CASE \E p \in Producers : FillDesc(p) \/ FillNames(p)
      <3> PICK p \in Producers : FillDesc(p) \/ FillNames(p)
        BY <2>3
      <3>1. Current(p) \in Content
        BY CurrentIsEntry DEF FillDesc, FillNames, Content
      <3>2. rb_base' \in [Index -> Node]
        <4>1. temp_index[p] \in Index
          OBVIOUS
        <4>2. rb_base[temp_index[p]] \in Node
          BY <4>1
        <4>3. [rb_base[temp_index[p]] EXCEPT !.desc = Current(p)] \in Node
          BY <3>1, <4>2 DEF Node
        <4>4. [rb_base[temp_index[p]] EXCEPT !.names = Current(p)] \in Node
          BY <3>1, <4>2 DEF Node
        <4> QED
          BY <4>1, <4>3, <4>4, ZenonT(60) DEF FillDesc, FillNames
      <3>3. ringpc' \in [RingThreads -> {"idle", "reserve", "fill", "fillNames", "post",
                                 "lock", "copy", "copyNames", "give"}]
        BY DEF FillDesc, FillNames
      <3>4. \A q \in Producers : /\ ringpc'[q] \in {"idle", "reserve", "fill", "fillNames", "post"}
                                 /\ ringpc'[q] # "idle" => puts'[q] >= 1
        BY DEF FillDesc, FillNames
      <3>5. \A c \in Consumers : ringpc'[c] \in {"idle", "lock", "copy", "copyNames", "give"}
        BY ThreadsAssumption DEF FillDesc, FillNames
      <3>6. UNCHANGED <<empty, full, irb_tail, irb_head, prodVars, consVars>>
        BY DEF FillDesc, FillNames
      <3> QED
        BY <3>2, <3>3, <3>4, <3>5, <3>6
    <2>4. CASE \E p \in Producers : PostFull(p)
      BY <2>4, ThreadsAssumption DEF PostFull
    <2>5. CASE \E c \in Consumers : WaitFull(c) \/ PostEmpty(c) \/ LockHead(c)
      <3>1. ASSUME NEW c \in Consumers, WaitFull(c) PROVE RingTypeOK'
        BY <3>1, ThreadsAssumption DEF WaitFull
      <3>2. ASSUME NEW c \in Consumers, PostEmpty(c) PROVE RingTypeOK'
        BY <3>2, ThreadsAssumption DEF PostEmpty
      <3>3. ASSUME NEW c \in Consumers, LockHead(c) PROVE RingTypeOK'
        BY <3>3, ThreadsAssumption DEF LockHead
      <3> QED
        BY <2>5, <3>1, <3>2, <3>3
    <2>6. CASE \E c \in Consumers : CopyDesc(c)
      <3> PICK c \in Consumers : CopyDesc(c)
        BY <2>6
      <3>1. hdr' \in [Consumers -> Node]
        BY ZenonT(60) DEF CopyDesc, Node
      <3> QED
        BY <3>1, ThreadsAssumption DEF CopyDesc
    <2>7. CASE \E c \in Consumers : CopyNames(c)
      <3> PICK c \in Consumers : CopyNames(c)
        BY <2>7
      <3>1. hdr' \in [Consumers -> Node]
        BY ZenonT(60) DEF CopyNames, Node
      <3>2. taken' \in Seq(Node)
        BY <3>1 DEF CopyNames
      <3>3. irb_head' \in Index
        BY QlengthAssumption DEF CopyNames, Index
      <3> QED
        BY <3>1, <3>2, <3>3, ThreadsAssumption DEF CopyNames
    <2>8. CASE UNCHANGED ringVars
      BY <2>8 DEF ringVars
    <2> QED
      BY <2>1, <2>2, <2>3, <2>4, <2>5, <2>6, <2>7, <2>8 DEF RingNext, Putdata, Getdata
  <1> QED
    BY <1>1, <1>2, PTL DEF RingSpec

(***************************************************************************)
(* Counting threads                                                        *)
(***************************************************************************)

\* When one thread moves from one place to another, the number of threads of S
\* in a set of places changes by what that thread contributes.
OnlyMoves(t) == \A u \in RingThreads \ {t} : ringpc'[u] = ringpc[u]

\* When one thread moves, the number of threads at some places changes by that thread alone.
LEMMA OneMoves ==
  ASSUME RingTypeOK, NEW S \in {Producers, Consumers}, NEW t \in RingThreads, OnlyMoves(t),
         NEW places
  PROVE  /\ Cardinality(At(S, places)) \in Nat
         /\ Cardinality(At(S, places)') =
              Cardinality(At(S, places))
                + (IF t \in S /\ ringpc'[t] \in places THEN 1 ELSE 0)
                - (IF t \in S /\ ringpc[t] \in places THEN 1 ELSE 0)
  <1> USE DEF RingTypeOK, RingThreads, OnlyMoves
  <1>1. IsFiniteSet(At(S, places)) /\ Cardinality(At(S, places)) \in Nat
    <2>1. IsFiniteSet(S) /\ At(S, places) \in SUBSET S
      BY ThreadsAssumption DEF At
    <2> QED
      BY <2>1, FS_Subset, FS_CardinalityType
  <1>2. CASE t \in S /\ ringpc'[t] \in places
    <2>1. At(S, places)' = At(S, places) \cup {t}
      BY <1>2 DEF At
    <2>2. t \in At(S, places) <=> ringpc[t] \in places
      BY <1>2 DEF At
    <2>3. Cardinality(At(S, places) \cup {t}) =
            IF t \in At(S, places) THEN Cardinality(At(S, places))
                                   ELSE Cardinality(At(S, places)) + 1
      BY <1>1, FS_AddElement
    <2>4. Cardinality(At(S, places)') = Cardinality(At(S, places) \cup {t})
      BY <2>1
    <2> QED
      BY <1>1, <1>2, <2>2, <2>3, <2>4
  <1>3. CASE t \in S /\ ringpc'[t] \notin places
    <2>1. At(S, places)' = At(S, places) \ {t}
      BY <1>3 DEF At
    <2>2. t \in At(S, places) <=> ringpc[t] \in places
      BY <1>3 DEF At
    <2>3. Cardinality(At(S, places) \ {t}) =
            IF t \in At(S, places) THEN Cardinality(At(S, places)) - 1
                                   ELSE Cardinality(At(S, places))
      BY <1>1, FS_RemoveElement
    <2>4. Cardinality(At(S, places)') = Cardinality(At(S, places) \ {t})
      BY <2>1
    <2> QED
      BY <1>1, <1>3, <2>2, <2>3, <2>4
  <1>4. CASE t \notin S
    <2>1. At(S, places)' = At(S, places)
      BY <1>4 DEF At
    <2> QED
      BY <1>1, <1>4, <2>1
  <1> QED
    BY <1>2, <1>3, <1>4, <1>1

Flag(P) == IF P THEN 1 ELSE 0

\* A producer's step changes the sizes of the producers' groups only.
LEMMA ProducerMoves ==
  ASSUME RingTypeOK, NEW p \in Producers, OnlyMoves(p)
  PROVE  /\ Cardinality(Reserving)' = Cardinality(Reserving)
              + Flag(ringpc'[p] = "reserve") - Flag(ringpc[p] = "reserve")
         /\ Cardinality(Filling)' = Cardinality(Filling)
              + Flag(ringpc'[p] \in {"fill", "fillNames", "post"})
              - Flag(ringpc[p] \in {"fill", "fillNames", "post"})
         /\ Cardinality(Taking)' = Cardinality(Taking)
         /\ Cardinality(Returning)' = Cardinality(Returning)
  <1>1. p \in RingThreads /\ p \notin Consumers
    BY ThreadsAssumption DEF RingThreads
  <1>2. ASSUME NEW S \in {Producers, Consumers}, NEW places
        PROVE  /\ Cardinality(At(S, places)) \in Nat
               /\ Cardinality(At(S, places)') = Cardinality(At(S, places))
                    + Flag(p \in S /\ ringpc'[p] \in places)
                    - Flag(p \in S /\ ringpc[p] \in places)
    BY <1>1, <1>2, OneMoves DEF Flag
  <1>3. /\ Cardinality(Taking)' = Cardinality(Taking) + 0 - 0 /\ Cardinality(Taking) \in Nat
        /\ Cardinality(Returning)' = Cardinality(Returning) + 0 - 0
        /\ Cardinality(Returning) \in Nat
    BY <1>1, <1>2 DEF Taking, Returning, Flag
  <1> QED
    BY <1>2, <1>3 DEF Reserving, Filling, Flag

\* A consumer's step changes the sizes of the consumers' groups only.
LEMMA ConsumerMoves ==
  ASSUME RingTypeOK, NEW c \in Consumers, OnlyMoves(c)
  PROVE  /\ Cardinality(Reserving)' = Cardinality(Reserving)
         /\ Cardinality(Filling)' = Cardinality(Filling)
         /\ Cardinality(Taking)' = Cardinality(Taking)
              + Flag(ringpc'[c] \in {"lock", "copy", "copyNames"})
              - Flag(ringpc[c] \in {"lock", "copy", "copyNames"})
         /\ Cardinality(Returning)' = Cardinality(Returning)
              + Flag(ringpc'[c] = "give") - Flag(ringpc[c] = "give")
  <1>1. c \in RingThreads /\ c \notin Producers
    BY ThreadsAssumption DEF RingThreads
  <1>2. ASSUME NEW S \in {Producers, Consumers}, NEW places
        PROVE  /\ Cardinality(At(S, places)) \in Nat
               /\ Cardinality(At(S, places)') = Cardinality(At(S, places))
                    + Flag(c \in S /\ ringpc'[c] \in places)
                    - Flag(c \in S /\ ringpc[c] \in places)
    BY <1>1, <1>2, OneMoves DEF Flag
  <1>3. /\ Cardinality(Reserving)' = Cardinality(Reserving) + 0 - 0
        /\ Cardinality(Reserving) \in Nat
        /\ Cardinality(Filling)' = Cardinality(Filling) + 0 - 0 /\ Cardinality(Filling) \in Nat
    BY <1>1, <1>2 DEF Reserving, Filling, Flag
  <1> QED
    BY <1>2, <1>3 DEF Taking, Returning, Flag

\* The sizes of the four groups of threads are numbers.
LEMMA GroupSizes ==
  ASSUME RingTypeOK
  PROVE  /\ Cardinality(Reserving) \in Nat /\ Cardinality(Filling) \in Nat
         /\ Cardinality(Taking) \in Nat /\ Cardinality(Returning) \in Nat
  <1>1. ASSUME NEW S \in {Producers, Consumers}, NEW places
        PROVE  Cardinality(At(S, places)) \in Nat
    <2>1. IsFiniteSet(S) /\ At(S, places) \in SUBSET S
      BY ThreadsAssumption DEF At
    <2> QED
      BY <2>1, FS_Subset, FS_CardinalityType
  <1> QED
    BY <1>1 DEF Reserving, Filling, Taking, Returning

(***************************************************************************)
(* The semaphores and the cursors                                          *)
(***************************************************************************)

\* A step that moves thread t to another place and changes nothing else but the
\* semaphores keeps the cursors where they are.
LEMMA CursorsStay ==
  ASSUME CursorsBounded, UNCHANGED <<irb_tail, irb_head, reserved, taken>>
  PROVE  CursorsBounded'
  BY DEF CursorsBounded, FromHead

\* A slot is free when a producer reserves one.
LEMMA ReserveStep ==
  ASSUME RingInv, NEW p \in Producers, Reserve(p)
  PROVE  TokensConserved' /\ EntriesConserved' /\ CursorsBounded'
  <1>1. /\ Cardinality(Reserving)' = Cardinality(Reserving) - 1
        /\ Cardinality(Filling)' = Cardinality(Filling) + 1
        /\ Cardinality(Taking)' = Cardinality(Taking)
        /\ Cardinality(Returning)' = Cardinality(Returning)
    <2>1. RingTypeOK /\ ringpc[p] = "reserve" /\ ringpc'[p] = "fill" /\ OnlyMoves(p)
      BY DEF RingInv, RingTypeOK, RingThreads, OnlyMoves, Reserve
    <2> QED
      BY <2>1, GroupSizes, ProducerMoves DEF Flag
  <1>2. Len(reserved) \in Nat /\ Len(taken) \in Nat /\ Len(reserved') = Len(reserved) + 1
        /\ UNCHANGED <<taken, empty, full, irb_head>>
    BY CurrentIsEntry DEF Reserve, consVars, RingInv, RingTypeOK
  <1>3. TokensConserved' /\ EntriesConserved'
    <2>1. TokensConserved /\ EntriesConserved /\ empty \in Nat /\ full \in Nat
      BY DEF RingInv, RingTypeOK
    <2>2. /\ Cardinality(Reserving) \in Nat /\ Cardinality(Filling) \in Nat
          /\ Cardinality(Taking) \in Nat /\ Cardinality(Returning) \in Nat
      BY GroupSizes DEF RingInv
    <2>3. empty' \in Nat /\ full' \in Nat /\ empty' = empty /\ full' = full
      BY <1>2, <2>1
    <2>4. TokensConserved'
      BY <1>1, <2>1, <2>2, <2>3 DEF TokensConserved
    <2>5. EntriesConserved'
      BY <1>1, <1>2, <2>1, <2>2, <2>3 DEF EntriesConserved
    <2> QED
      BY <2>4, <2>5
  <1>4. Cardinality(Reserving) >= 1
    <2>1. IsFiniteSet(Reserving) /\ p \in Reserving
      BY ThreadsAssumption, FS_Subset DEF Reserving, At, Reserve
    <2> QED
      BY <2>1, FS_EmptySet, GroupSizes DEF RingInv
  <1>5. Len(reserved) < Len(taken) + Qlength
    <2>1. TokensConserved /\ EntriesConserved /\ empty \in Nat /\ full \in Nat
      BY DEF RingInv, RingTypeOK
    <2>2. /\ Cardinality(Reserving) \in Nat /\ Cardinality(Filling) \in Nat
          /\ Cardinality(Taking) \in Nat /\ Cardinality(Returning) \in Nat
      BY GroupSizes DEF RingInv
    <2>3. full + Cardinality(Taking) + Cardinality(Filling) < Qlength
      BY <1>4, <2>1, <2>2, QlengthAssumption DEF TokensConserved
    <2> QED
      BY <1>2, <2>1, <2>2, <2>3, QlengthAssumption DEF EntriesConserved
  <1>6. irb_tail' = FromHead(Len(reserved) + 1 - Len(taken))
    BY <1>2, <1>5, QlengthAssumption, SMTT(60)
       DEF RingInv, RingTypeOK, Reserve, CursorsBounded, FromHead, Index, EndIndex
  <1> QED
    BY <1>2, <1>3, <1>5, <1>6, QlengthAssumption DEF RingInv, CursorsBounded, FromHead

\* An entry is there when a consumer takes one.
LEMMA CopyNamesStep ==
  ASSUME RingInv, NEW c \in Consumers, CopyNames(c)
  PROVE  TokensConserved' /\ EntriesConserved' /\ CursorsBounded'
  <1>1. /\ Cardinality(Reserving)' = Cardinality(Reserving)
        /\ Cardinality(Filling)' = Cardinality(Filling)
        /\ Cardinality(Taking)' = Cardinality(Taking) - 1
        /\ Cardinality(Returning)' = Cardinality(Returning) + 1
    <2>1. RingTypeOK /\ ringpc[c] = "copyNames" /\ ringpc'[c] = "give" /\ OnlyMoves(c)
      BY DEF RingInv, RingTypeOK, RingThreads, OnlyMoves, CopyNames
    <2> QED
      BY <2>1, GroupSizes, ConsumerMoves DEF Flag
  <1>2. Len(reserved) \in Nat /\ Len(taken) \in Nat /\ Len(taken') = Len(taken) + 1
        /\ UNCHANGED <<reserved, empty, full, irb_tail>>
    BY DEF CopyNames, prodVars, Node, RingInv, RingTypeOK
  <1>3. TokensConserved' /\ EntriesConserved'
    <2>1. TokensConserved /\ EntriesConserved /\ empty \in Nat /\ full \in Nat
      BY DEF RingInv, RingTypeOK
    <2>2. /\ Cardinality(Reserving) \in Nat /\ Cardinality(Filling) \in Nat
          /\ Cardinality(Taking) \in Nat /\ Cardinality(Returning) \in Nat
      BY GroupSizes DEF RingInv
    <2>3. empty' \in Nat /\ full' \in Nat /\ empty' = empty /\ full' = full
      BY <1>2, <2>1
    <2>4. TokensConserved'
      BY <1>1, <2>1, <2>2, <2>3 DEF TokensConserved
    <2>5. EntriesConserved'
      BY <1>1, <1>2, <2>1, <2>2, <2>3 DEF EntriesConserved
    <2> QED
      BY <2>4, <2>5
  <1>4. Cardinality(Taking) >= 1
    <2>1. IsFiniteSet(Taking) /\ c \in Taking
      BY ThreadsAssumption, FS_Subset DEF Taking, At, CopyNames
    <2> QED
      BY <2>1, FS_EmptySet, GroupSizes DEF RingInv
  <1>5. Len(taken) < Len(reserved)
    BY <1>2, <1>4, GroupSizes DEF RingInv, RingTypeOK, EntriesConserved
  <1>6. irb_tail = IF irb_head' + (Len(reserved) - Len(taken) - 1) < Qlength
                    THEN irb_head' + (Len(reserved) - Len(taken) - 1)
                    ELSE irb_head' + (Len(reserved) - Len(taken) - 1) - Qlength
    <2>1. irb_head' = IF irb_head >= Qlength - 1 THEN 0 ELSE irb_head + 1
      BY DEF CopyNames
    <2> QED
      BY <1>2, <1>5, <2>1, QlengthAssumption
         DEF RingInv, RingTypeOK, CursorsBounded, FromHead, Index
  <1>7. Len(reserved) <= Len(taken) + Qlength
    BY DEF RingInv, CursorsBounded
  <1> QED
    BY <1>2, <1>3, <1>5, <1>6, <1>7, QlengthAssumption DEF CursorsBounded, FromHead

\* A step of one thread that leaves the cursors and the histories alone keeps the
\* balance if it moves the semaphores by as much as it moves the groups.
LEMMA BalancedMove ==
  ASSUME RingInv, UNCHANGED <<irb_tail, irb_head, reserved, taken>>,
         empty' \in Int, full' \in Int,
         NEW a \in Int, NEW b \in Int, NEW d \in Int, NEW e \in Int,
         Cardinality(Reserving)' = Cardinality(Reserving) + a,
         Cardinality(Filling)' = Cardinality(Filling) + b,
         Cardinality(Taking)' = Cardinality(Taking) + d,
         Cardinality(Returning)' = Cardinality(Returning) + e,
         empty' = empty - a - e,
         full' = full - b - d
  PROVE  TokensConserved' /\ EntriesConserved' /\ CursorsBounded'
  <1>1. CursorsBounded'
    BY CursorsStay DEF RingInv
  <1>2. /\ Cardinality(Reserving) \in Nat /\ Cardinality(Filling) \in Nat
        /\ Cardinality(Taking) \in Nat /\ Cardinality(Returning) \in Nat
    BY GroupSizes DEF RingInv
  <1>3. empty \in Nat /\ full \in Nat /\ Qlength \in Nat
    BY QlengthAssumption DEF RingInv, RingTypeOK
  <1>4. TokensConserved'
    <2>1. TokensConserved
      BY DEF RingInv
    <2> QED
      BY <1>2, <1>3, <2>1 DEF TokensConserved
  <1>5. EntriesConserved'
    <2>1. EntriesConserved /\ UNCHANGED <<reserved, taken>>
          /\ Len(reserved) \in Nat /\ Len(taken) \in Nat
      BY DEF RingInv, RingTypeOK
    <2> QED
      BY <1>2, <1>3, <2>1 DEF EntriesConserved
  <1> QED
    BY <1>1, <1>4, <1>5

\* The other steps of a producer move one token.
LEMMA ProducerStep ==
  ASSUME RingInv, NEW p \in Producers,
         WaitEmpty(p) \/ FillDesc(p) \/ FillNames(p) \/ PostFull(p)
  PROVE  TokensConserved' /\ EntriesConserved' /\ CursorsBounded'
  <1>1. RingTypeOK /\ empty \in Nat /\ full \in Nat
    BY DEF RingInv, RingTypeOK
  <1>2. /\ Cardinality(Reserving) \in Nat /\ Cardinality(Filling) \in Nat
        /\ Cardinality(Taking) \in Nat /\ Cardinality(Returning) \in Nat
    BY <1>1, GroupSizes
  <1>3. CASE WaitEmpty(p)
    <2>1. /\ ringpc[p] = "idle" /\ ringpc'[p] = "reserve" /\ OnlyMoves(p)
          /\ empty' = empty - 1 /\ UNCHANGED <<full, irb_tail, irb_head, reserved, taken>>
      BY <1>3 DEF RingInv, RingTypeOK, RingThreads, OnlyMoves, WaitEmpty, consVars
    <2>2. /\ Cardinality(Reserving)' = Cardinality(Reserving) + 1
          /\ Cardinality(Filling)' = Cardinality(Filling) + 0
          /\ Cardinality(Taking)' = Cardinality(Taking) + 0
          /\ Cardinality(Returning)' = Cardinality(Returning) + 0
      BY <1>1, <1>2, <2>1, ProducerMoves DEF Flag
    <2> QED
      BY <1>1, <2>1, <2>2, BalancedMove
  <1>4. CASE FillDesc(p) \/ FillNames(p)
    <2>1. /\ ringpc[p] \in {"fill", "fillNames"}
          /\ ringpc'[p] \in {"fillNames", "post"} /\ OnlyMoves(p)
          /\ UNCHANGED <<empty, full, irb_tail, irb_head, reserved, taken>>
      BY <1>4 DEF RingInv, RingTypeOK, RingThreads, OnlyMoves, FillDesc, FillNames, prodVars, consVars
    <2>2. /\ Cardinality(Reserving)' = Cardinality(Reserving) + 0
          /\ Cardinality(Filling)' = Cardinality(Filling) + 0
          /\ Cardinality(Taking)' = Cardinality(Taking) + 0
          /\ Cardinality(Returning)' = Cardinality(Returning) + 0
      BY <1>1, <1>2, <2>1, ProducerMoves DEF Flag
    <2> QED
      BY <1>1, <2>1, <2>2, BalancedMove
  <1>5. CASE PostFull(p)
    <2>1. /\ ringpc[p] = "post" /\ ringpc'[p] = "idle" /\ OnlyMoves(p)
          /\ full' = full + 1 /\ UNCHANGED <<empty, irb_tail, irb_head, reserved, taken>>
      BY <1>5 DEF RingInv, RingTypeOK, RingThreads, OnlyMoves, PostFull, prodVars, consVars
    <2>2. /\ Cardinality(Reserving)' = Cardinality(Reserving) + 0
          /\ Cardinality(Filling)' = Cardinality(Filling) + (-1)
          /\ Cardinality(Taking)' = Cardinality(Taking) + 0
          /\ Cardinality(Returning)' = Cardinality(Returning) + 0
      BY <1>1, <1>2, <2>1, ProducerMoves DEF Flag
    <2> QED
      BY <1>1, <2>1, <2>2, BalancedMove
  <1> QED
    BY <1>3, <1>4, <1>5

\* The other steps of a consumer move one token.
LEMMA ConsumerStep ==
  ASSUME RingInv, NEW c \in Consumers,
         WaitFull(c) \/ LockHead(c) \/ CopyDesc(c) \/ PostEmpty(c)
  PROVE  TokensConserved' /\ EntriesConserved' /\ CursorsBounded'
  <1>1. RingTypeOK /\ empty \in Nat /\ full \in Nat
    BY DEF RingInv, RingTypeOK
  <1>2. /\ Cardinality(Reserving) \in Nat /\ Cardinality(Filling) \in Nat
        /\ Cardinality(Taking) \in Nat /\ Cardinality(Returning) \in Nat
    BY <1>1, GroupSizes
  <1>3. CASE WaitFull(c)
    <2>1. /\ ringpc[c] = "idle" /\ ringpc'[c] = "lock" /\ OnlyMoves(c)
          /\ full' = full - 1 /\ UNCHANGED <<empty, irb_tail, irb_head, reserved, taken>>
      BY <1>3 DEF RingInv, RingTypeOK, RingThreads, OnlyMoves, WaitFull, prodVars, consVars
    <2>2. /\ Cardinality(Reserving)' = Cardinality(Reserving) + 0
          /\ Cardinality(Filling)' = Cardinality(Filling) + 0
          /\ Cardinality(Taking)' = Cardinality(Taking) + 1
          /\ Cardinality(Returning)' = Cardinality(Returning) + 0
      BY <1>1, <1>2, <2>1, ConsumerMoves DEF Flag
    <2> QED
      BY <1>1, <2>1, <2>2, BalancedMove
  <1>4. CASE LockHead(c) \/ CopyDesc(c)
    <2>1. /\ ringpc[c] \in {"lock", "copy"}
          /\ ringpc'[c] \in {"copy", "copyNames"} /\ OnlyMoves(c)
          /\ UNCHANGED <<empty, full, irb_tail, irb_head, reserved, taken>>
      BY <1>4 DEF RingInv, RingTypeOK, RingThreads, OnlyMoves, LockHead, CopyDesc, prodVars
    <2>2. /\ Cardinality(Reserving)' = Cardinality(Reserving) + 0
          /\ Cardinality(Filling)' = Cardinality(Filling) + 0
          /\ Cardinality(Taking)' = Cardinality(Taking) + 0
          /\ Cardinality(Returning)' = Cardinality(Returning) + 0
      BY <1>1, <1>2, <2>1, ConsumerMoves DEF Flag
    <2> QED
      BY <1>1, <2>1, <2>2, BalancedMove
  <1>5. CASE PostEmpty(c)
    <2>1. /\ ringpc[c] = "give" /\ ringpc'[c] = "idle" /\ OnlyMoves(c)
          /\ empty' = empty + 1 /\ UNCHANGED <<full, irb_tail, irb_head, reserved, taken>>
      BY <1>5 DEF RingInv, RingTypeOK, RingThreads, OnlyMoves, PostEmpty, prodVars, consVars
    <2>2. /\ Cardinality(Reserving)' = Cardinality(Reserving) + 0
          /\ Cardinality(Filling)' = Cardinality(Filling) + 0
          /\ Cardinality(Taking)' = Cardinality(Taking) + 0
          /\ Cardinality(Returning)' = Cardinality(Returning) + (-1)
      BY <1>1, <1>2, <2>1, ConsumerMoves DEF Flag
    <2> QED
      BY <1>1, <2>1, <2>2, BalancedMove
  <1> QED
    BY <1>3, <1>4, <1>5

\* An interrupted wait, and a step that changes nothing.
LEMMA StutterStep ==
  ASSUME RingInv, UNCHANGED <<empty, full, irb_tail, irb_head, ringpc, reserved, taken>>
  PROVE  TokensConserved' /\ EntriesConserved' /\ CursorsBounded'
  <1>1. /\ UNCHANGED Reserving /\ UNCHANGED Filling
        /\ UNCHANGED Taking /\ UNCHANGED Returning
    BY DEF Reserving, Filling, Taking, Returning, At
  <1>2. TokensConserved' /\ EntriesConserved'
    BY <1>1 DEF RingInv, TokensConserved, EntriesConserved
  <1> QED
    BY <1>2, CursorsStay DEF RingInv

\* RingInv: for any number of producers and consumers no interleaving loses or
\* mints a semaphore token, and the cursors of sbuff_putdata and sbuff_getdata
\* never lap each other.
THEOREM RingCorrect == RingSpec => []RingInv
  <1>1. RingInit => RingInv
    <2> SUFFICES ASSUME RingInit PROVE RingInv
      OBVIOUS
    <2>1. RingTypeOK
      BY QlengthAssumption, MaxPutsAssumption, EmptyNode DEF RingInit, RingTypeOK, Index, RingThreads
    <2>2. Reserving = {} /\ Filling = {} /\ Taking = {} /\ Returning = {}
      BY DEF RingInit, RingThreads, Reserving, Filling, Taking, Returning, At
    <2>3. Cardinality({}) = 0
      BY FS_EmptySet
    <2>4. TokensConserved /\ EntriesConserved
      BY <2>2, <2>3, QlengthAssumption DEF RingInit, TokensConserved, EntriesConserved
    <2>5. CursorsBounded
      BY QlengthAssumption DEF RingInit, CursorsBounded, FromHead
    <2> QED
      BY <2>1, <2>4, <2>5 DEF RingInv
  <1>2. RingTypeOK' /\ RingInv /\ [RingNext]_ringVars => RingInv'
    <2> SUFFICES ASSUME RingTypeOK', RingInv, [RingNext]_ringVars PROVE RingInv'
      OBVIOUS
    <2>1. CASE \E p \in Producers : Reserve(p)
      BY <2>1, ReserveStep DEF RingInv
    <2>2. CASE \E p \in Producers :
                 WaitEmpty(p) \/ FillDesc(p) \/ FillNames(p) \/ PostFull(p)
      BY <2>2, ProducerStep DEF RingInv
    <2>3. CASE \E p \in Producers : WaitInterrupted(p)
      <3>1. UNCHANGED <<empty, full, irb_tail, irb_head, ringpc, reserved, taken>>
        BY <2>3 DEF WaitInterrupted, consVars
      <3> QED
        BY <3>1, StutterStep DEF RingInv
    <2>4. CASE \E c \in Consumers : CopyNames(c)
      BY <2>4, CopyNamesStep DEF RingInv
    <2>5. CASE \E c \in Consumers :
                 WaitFull(c) \/ LockHead(c) \/ CopyDesc(c) \/ PostEmpty(c)
      BY <2>5, ConsumerStep DEF RingInv
    <2>6. CASE UNCHANGED ringVars
      BY <2>6, StutterStep DEF ringVars, RingInv
    <2> QED
      BY <2>1, <2>2, <2>3, <2>4, <2>5, <2>6 DEF RingNext, Putdata, Getdata
  <1> QED
    BY <1>1, <1>2, TypeCorrect, PTL DEF RingSpec

\* CursorsBounded, the part of RingInv a reader of session_buf.c looks for: readers
\* never pass the reservations and reservations never overwrite a slot that still
\* waits to be read.
THEOREM CursorsNeverLap == RingSpec => []CursorsBounded
  <1>1. RingInv => CursorsBounded
    BY DEF RingInv
  <1> QED
    BY <1>1, RingCorrect, PTL

(***************************************************************************)
(* No interleaving of sbuff_putdata and sbuff_getdata loses or mints a     *)
(* token of the two semaphores.                                            *)
(***************************************************************************)
THEOREM TokensNeverLost == RingSpec => []TokensConserved
  <1>1. RingInv => TokensConserved
    BY DEF RingInv
  <1> QED
    BY <1>1, RingCorrect, PTL

(***************************************************************************)
(* With a single producer the session ring is the bounded first-in         *)
(* first-out channel its callers take it for.                              *)
(***************************************************************************)

SoleProducer == \A p, q \in Producers : p = q

\* The lengths and cursors are numbers.
LEMMA Sizes ==
  ASSUME RingInv
  PROVE  /\ Len(reserved) \in Nat /\ Len(taken) \in Nat
         /\ Waiting \in 0..Qlength /\ irb_head \in Index
         /\ irb_tail = FromHead(Waiting)
  BY QlengthAssumption DEF RingInv, RingTypeOK, CursorsBounded, Waiting

\* Places less than a ring apart are different slots.
LEMMA FromHeadDistinct ==
  ASSUME irb_head \in Index, NEW k \in 0..(Qlength - 1)
  PROVE  /\ FromHead(k) \in Index
         /\ \A l \in 0..(Qlength - 1) : FromHead(k) = FromHead(l) => k = l
  BY QlengthAssumption DEF FromHead, Index

\* A consumer past sem_wait(full_buffer) finds an entry that is not the one being
\* filled.
LEMMA ReadyToRead ==
  ASSUME RingInv, NEW c \in Taking
  PROVE  Waiting >= 1 /\ (Filling # {} => Waiting >= 2)
  <1>1. IsFiniteSet(Taking) /\ IsFiniteSet(Filling)
    BY ThreadsAssumption, FS_Subset DEF Taking, Filling, At
  <1>2. /\ Cardinality(Taking) \in Nat /\ Cardinality(Filling) \in Nat
    BY GroupSizes DEF RingInv
  <1>3. Cardinality(Taking) >= 1
    BY <1>1, <1>2, FS_EmptySet
  <1>4. Filling # {} => Cardinality(Filling) >= 1
    BY <1>1, <1>2, FS_EmptySet
  <1>5. full \in Nat /\ Len(reserved) \in Nat /\ Len(taken) \in Nat /\ EntriesConserved
    BY DEF RingInv, RingTypeOK
  <1>6. Len(reserved) = Len(taken) + full + Cardinality(Taking) + Cardinality(Filling)
    BY <1>5 DEF EntriesConserved
  <1> QED
    BY <1>2, <1>3, <1>4, <1>5, <1>6 DEF Waiting

\* Every slot a consumer may read is complete.
LEMMA HeadComplete ==
  ASSUME RingInv, SoleInv, NEW c \in Taking
  PROVE  /\ rb_base[irb_head].desc = reserved[Len(taken) + 1]
         /\ rb_base[irb_head].names = reserved[Len(taken) + 1]
  <1>1. Waiting >= 1 /\ (Filling # {} => Waiting >= 2)
    BY ReadyToRead
  <1>2. At(Producers, {"fill"}) # {} \/ At(Producers, {"fill", "fillNames"}) # {} => Filling # {}
    BY DEF Filling, At
  <1>3. Waiting \in Nat /\ irb_head \in Index /\ Len(taken) \in Nat
    BY Sizes
  <1>4. FromHead(0) = irb_head /\ 0 \in 0..(Waiting - 1) /\ Len(taken) + 1 + 0 = Len(taken) + 1
    BY <1>1, <1>3, QlengthAssumption DEF FromHead, Index
  <1>5. Filling # {} => 0 # Waiting - 1
    BY <1>1, <1>3
  <1> QED
    BY <1>2, <1>4, <1>5 DEF SoleInv, SlotsHoldEntries

-----------------------------------------------------------------------------

\* The slot reserved is behind all that wait to be read.
LEMMA SoleReserve ==
  ASSUME SoleProducer, RingInv, SoleInv, RingInv', NEW p \in Producers, Reserve(p)
  PROVE  SoleInv'
  <1>1. /\ ringpc[p] = "reserve" /\ ringpc' = [ringpc EXCEPT ![p] = "fill"]
        /\ temp_index' = [temp_index EXCEPT ![p] = irb_tail]
        /\ reserved' = Append(reserved, Current(p))
        /\ UNCHANGED <<irb_head, rb_base, puts, mutex, hdr, taken>>
    BY DEF Reserve, consVars
  <1>2. /\ Len(reserved) \in Nat /\ Len(taken) \in Nat /\ Waiting \in 0..Qlength
        /\ irb_head \in Index /\ irb_tail = FromHead(Waiting)
    BY Sizes
  <1>3. /\ Len(reserved') = Len(reserved) + 1 /\ reserved'[Len(reserved) + 1] = Current(p)
        /\ \A i \in 1..Len(reserved) : reserved'[i] = reserved[i]
    BY <1>1, CurrentIsEntry DEF RingInv, RingTypeOK
  <1>4. Waiting' = Waiting + 1
    BY <1>1, <1>2, <1>3 DEF Waiting
  <1>5. Filling = {} /\ Filling' = {p}
    BY <1>1 DEF SoleProducer, Filling, At, RingInv, RingTypeOK, RingThreads
  <1>6. At(Producers, {"fill"})' # {} /\ At(Producers, {"fill", "fillNames"})' # {}
    BY <1>1 DEF At, RingInv, RingTypeOK, RingThreads
  <1>7. SlotsHoldEntries'
    <2> SUFFICES ASSUME NEW k \in 0..(Waiting' - 1)
                 PROVE  \/ k = Waiting' - 1
                        \/ /\ rb_base[FromHead(k)].desc = reserved'[Len(taken) + 1 + k]
                           /\ rb_base[FromHead(k)].names = reserved'[Len(taken) + 1 + k]
      BY <1>1, <1>6 DEF SlotsHoldEntries, FromHead
    <2>1. CASE k # Waiting' - 1
      <3>1. k \in 0..(Waiting - 1) /\ Len(taken) + 1 + k \in 1..Len(reserved)
        BY <2>1, <1>2, <1>4 DEF Waiting
      <3>2. At(Producers, {"fill"}) = {} /\ At(Producers, {"fill", "fillNames"}) = {}
        BY <1>5 DEF Filling, At
      <3>3. /\ rb_base[FromHead(k)].desc = reserved[Len(taken) + 1 + k]
            /\ rb_base[FromHead(k)].names = reserved[Len(taken) + 1 + k]
        BY <3>1, <3>2 DEF SoleInv, SlotsHoldEntries
      <3> QED
        BY <3>1, <3>3, <1>3
    <2> QED
      BY <2>1
  <1>8. FillsLastSlot'
    <2>1. temp_index'[p] = irb_tail /\ Current(p)' = Current(p)
      BY <1>1 DEF RingInv, RingTypeOK, Current
    <2>2. FromHead(Waiting)' = FromHead(Waiting')
      BY <1>1 DEF FromHead
    <2>3. temp_index'[p] = FromHead(Waiting' - 1)
      BY <2>1, <1>2, <1>4
    <2>4. FromHead(Waiting - 1)' = FromHead(Waiting' - 1)
      BY <1>1 DEF FromHead
    <2> QED
      BY <1>2, <1>3, <1>4, <1>5, <2>1, <2>3, <2>4 DEF FillsLastSlot
  <1>9. ReadsInsideMutex'
    <2>1. \A c \in Consumers : ringpc'[c] = ringpc[c]
      BY <1>1, ThreadsAssumption DEF RingInv, RingTypeOK, RingThreads
    <2>2. \A c \in Consumers : ringpc[c] = "copyNames" => Waiting >= 1 /\ Len(taken) + 1 \in 1..Len(reserved)
      BY <1>2 DEF SoleInv, ReadsInsideMutex, Waiting
    <2> QED
      BY <1>1, <1>2, <1>3, <1>4, <2>1, <2>2 DEF SoleInv, ReadsInsideMutex, At
  <1>10. IntactInOrder'
    <2>1. \A i \in 1..Len(taken) : i \in 1..Len(reserved)
      BY <1>2 DEF Waiting
    <2>2. DOMAIN reserved = 1..Len(reserved) /\ DOMAIN reserved' = 1..(Len(reserved) + 1)
      BY <1>1, <1>3, CurrentIsEntry DEF RingInv, RingTypeOK
    <2> QED
      BY <1>1, <1>2, <1>3, <2>1, <2>2 DEF SoleInv, IntactInOrder
  <1> QED
    BY <1>7, <1>8, <1>9, <1>10 DEF SoleInv

\* Filling touches the last reserved slot, which no consumer reads.
LEMMA SoleFill ==
  ASSUME SoleProducer, RingInv, SoleInv, NEW p \in Producers, FillDesc(p) \/ FillNames(p)
  PROVE  SoleInv'
  <1>1. /\ ringpc[p] \in {"fill", "fillNames"}
        /\ ringpc[p] = "fill" => ringpc' = [ringpc EXCEPT ![p] = "fillNames"]
        /\ ringpc[p] = "fillNames" => ringpc' = [ringpc EXCEPT ![p] = "post"]
        /\ UNCHANGED <<irb_head, irb_tail, puts, temp_index, reserved, mutex, hdr, taken>>
    BY DEF FillDesc, FillNames, prodVars, consVars
  <1>2. /\ Len(reserved) \in Nat /\ Len(taken) \in Nat /\ Waiting \in 0..Qlength
        /\ irb_head \in Index
    BY Sizes
  <1>3. p \in Filling /\ Filling' = Filling
    BY <1>1 DEF Filling, At, RingInv, RingTypeOK, RingThreads
  <1>4. /\ Waiting >= 1 /\ reserved[Len(reserved)] = Current(p)
        /\ temp_index[p] = FromHead(Waiting - 1)
    BY <1>3 DEF SoleInv, FillsLastSlot
  <1>5. UNCHANGED Waiting /\ \A k : FromHead(k)' = FromHead(k)
    BY <1>1 DEF Waiting, FromHead
  <1>6. SlotsHoldEntries'
    <2> SUFFICES ASSUME NEW k \in 0..(Waiting - 1)
                 PROVE  /\ \/ rb_base'[FromHead(k)].desc = reserved[Len(taken) + 1 + k]
                           \/ k = Waiting - 1 /\ At(Producers, {"fill"})' # {}
                        /\ \/ rb_base'[FromHead(k)].names = reserved[Len(taken) + 1 + k]
                           \/ k = Waiting - 1 /\ At(Producers, {"fill", "fillNames"})' # {}
      BY <1>1, <1>5 DEF SlotsHoldEntries
    <2>1. k \in 0..(Qlength - 1) /\ Waiting - 1 \in 0..(Qlength - 1)
      BY <1>2, <1>4, QlengthAssumption
    <2>2. FromHead(k) \in Index /\ (FromHead(k) = FromHead(Waiting - 1) => k = Waiting - 1)
      BY <2>1, <1>2, FromHeadDistinct
    <2>3. rb_base \in [Index -> Node]
      BY DEF RingInv, RingTypeOK
    <2>4. CASE k # Waiting - 1
      <3>1. rb_base'[FromHead(k)] = rb_base[FromHead(k)]
        BY <2>2, <2>3, <2>4, <1>4 DEF FillDesc, FillNames
      <3> QED
        BY <3>1, <2>4 DEF SoleInv, SlotsHoldEntries
    <2>5. CASE k = Waiting - 1 /\ FillDesc(p)
      <3>1. rb_base'[FromHead(k)].desc = Current(p)
        BY <2>2, <2>3, <2>5, <1>4 DEF FillDesc, Node
      <3>2. Len(taken) + 1 + k = Len(reserved)
        BY <2>5, <1>2 DEF Waiting
      <3>3. p \in At(Producers, {"fill", "fillNames"})'
        BY <2>5 DEF FillDesc, At, RingInv, RingTypeOK, RingThreads
      <3> QED
        BY <3>1, <3>2, <3>3, <2>5, <1>4
    <2>6. CASE k = Waiting - 1 /\ FillNames(p)
      <3>1. /\ rb_base'[FromHead(k)].names = Current(p)
            /\ rb_base'[FromHead(k)].desc = rb_base[FromHead(k)].desc
        BY <2>2, <2>3, <2>6, <1>4 DEF FillNames, Node
      <3>2. Len(taken) + 1 + k = Len(reserved)
        BY <2>6, <1>2 DEF Waiting
      <3>3. At(Producers, {"fill"}) = {}
        BY <2>6 DEF SoleProducer, FillNames, At
      <3>4. rb_base[FromHead(k)].desc = reserved[Len(taken) + 1 + k]
        BY <3>3 DEF SoleInv, SlotsHoldEntries
      <3> QED
        BY <3>1, <3>2, <3>4, <1>4
    <2> QED
      BY <2>4, <2>5, <2>6
  <1>7. FillsLastSlot'
    <2>1. \A q : Current(q)' = Current(q)
      BY <1>1 DEF Current
    <2>2. FromHead(Waiting - 1)' = FromHead(Waiting - 1)
      BY <1>1, <1>5 DEF FromHead
    <2> QED
      BY <1>1, <1>3, <1>5, <2>1, <2>2 DEF SoleInv, FillsLastSlot
  <1>8. ReadsInsideMutex'
    <2>1. \A c \in Consumers : ringpc'[c] = ringpc[c]
      BY <1>1, ThreadsAssumption DEF RingInv, RingTypeOK, RingThreads
    <2> QED
      BY <1>1, <1>5, <2>1 DEF SoleInv, ReadsInsideMutex, At
  <1>9. IntactInOrder'
    BY <1>1 DEF SoleInv, IntactInOrder
  <1> QED
    BY <1>6, <1>7, <1>8, <1>9 DEF SoleInv
\* The semaphore steps move one thread between places SoleInv does not look at.
LEMMA SoleTokens ==
  ASSUME SoleProducer, RingInv, SoleInv,
         \/ \E p \in Producers : WaitEmpty(p) \/ WaitInterrupted(p) \/ PostFull(p)
         \/ \E c \in Consumers : WaitFull(c) \/ PostEmpty(c)
  PROVE  SoleInv'
  <1>1. UNCHANGED <<irb_head, rb_base, temp_index, reserved, mutex, hdr, taken>>
    BY DEF WaitEmpty, WaitInterrupted, PostFull, WaitFull, PostEmpty, prodVars, consVars
  <1>2. UNCHANGED Waiting /\ \A k : FromHead(k)' = FromHead(k)
    BY <1>1 DEF Waiting, FromHead
  <1>3. UNCHANGED At(Consumers, {"copy", "copyNames"})
        /\ \A c \in Consumers : ringpc'[c] = "copyNames" => ringpc[c] = "copyNames"
    BY ThreadsAssumption DEF WaitEmpty, WaitInterrupted, PostFull, WaitFull, PostEmpty, At,
       RingInv, RingTypeOK, RingThreads
  <1>4. UNCHANGED At(Producers, {"fill"}) /\ UNCHANGED At(Producers, {"fill", "fillNames"})
    BY ThreadsAssumption DEF WaitEmpty, WaitInterrupted, PostFull, WaitFull, PostEmpty, At,
       RingInv, RingTypeOK, RingThreads
  <1>5. \A p \in Filling' : p \in Filling /\ puts'[p] = puts[p]
    BY ThreadsAssumption DEF SoleProducer, WaitEmpty, WaitInterrupted, PostFull, WaitFull,
       PostEmpty, Filling, At, RingInv, RingTypeOK, RingThreads, prodVars
  <1>6. SlotsHoldEntries'
    BY <1>1, <1>2, <1>4 DEF SoleInv, SlotsHoldEntries
  <1>7. FillsLastSlot'
    <2>1. FromHead(Waiting - 1)' = FromHead(Waiting - 1)
      BY <1>1, <1>2 DEF FromHead
    <2> QED
      BY <1>1, <1>2, <1>5, <2>1 DEF SoleInv, FillsLastSlot, Current
  <1>8. ReadsInsideMutex'
    BY <1>1, <1>2, <1>3 DEF SoleInv, ReadsInsideMutex
  <1>9. IntactInOrder'
    BY <1>1 DEF SoleInv, IntactInOrder
  <1> QED
    BY <1>6, <1>7, <1>8, <1>9 DEF SoleInv

\* What the steps inside mutex leave alone.
LEMMA SoleReadFrame ==
  ASSUME RingInv, SoleInv, UNCHANGED <<irb_head, rb_base, temp_index, reserved, taken, puts>>,
         NEW c \in Consumers, OnlyMoves(c)
  PROVE  SlotsHoldEntries' /\ FillsLastSlot' /\ IntactInOrder'
  <1>1. UNCHANGED Waiting /\ \A k : FromHead(k)' = FromHead(k)
    BY DEF Waiting, FromHead
  <1>2. /\ UNCHANGED At(Producers, {"fill"}) /\ UNCHANGED At(Producers, {"fill", "fillNames"})
        /\ UNCHANGED Filling
    BY ThreadsAssumption DEF OnlyMoves, Filling, At, RingThreads
  <1>3. SlotsHoldEntries'
    BY <1>1, <1>2 DEF SoleInv, SlotsHoldEntries
  <1>4. FillsLastSlot'
    <2>1. FromHead(Waiting - 1)' = FromHead(Waiting - 1)
      BY <1>1 DEF FromHead
    <2> QED
      BY <1>1, <1>2, <2>1 DEF SoleInv, FillsLastSlot, Current
  <1> QED
    BY <1>3, <1>4 DEF SoleInv, IntactInOrder

\* The consumer that gets the mutex finds the first slot filled.
LEMMA SoleLock ==
  ASSUME RingInv, SoleInv, NEW c \in Consumers, LockHead(c)
  PROVE  SoleInv'
  <1>1. SlotsHoldEntries' /\ FillsLastSlot' /\ IntactInOrder'
    <2>1. OnlyMoves(c) /\ UNCHANGED <<irb_head, rb_base, prodVars, taken>>
      BY DEF LockHead, OnlyMoves, RingInv, RingTypeOK
    <2> QED
      BY <2>1, SoleReadFrame DEF prodVars
  <1>2. At(Consumers, {"copy", "copyNames"}) = {}
    BY DEF SoleInv, ReadsInsideMutex, LockHead
  <1>3. At(Consumers, {"copy", "copyNames"})' = {c}
    BY <1>2, ThreadsAssumption DEF LockHead, At, RingInv, RingTypeOK, RingThreads
  <1>4. \A d \in Consumers : ringpc'[d] # "copyNames"
    BY <1>2, ThreadsAssumption DEF LockHead, At, RingInv, RingTypeOK, RingThreads
  <1>5. ReadsInsideMutex'
    BY <1>3, <1>4 DEF LockHead, ReadsInsideMutex
  <1> QED
    BY <1>1, <1>5 DEF SoleInv

\* What is copied first belongs to the next entry.
LEMMA SoleCopyDesc ==
  ASSUME RingInv, SoleInv, NEW c \in Consumers, CopyDesc(c)
  PROVE  SoleInv'
  <1>1. SlotsHoldEntries' /\ FillsLastSlot' /\ IntactInOrder'
    <2>1. OnlyMoves(c) /\ UNCHANGED <<irb_head, rb_base, prodVars, taken>>
      BY DEF CopyDesc, OnlyMoves, RingInv, RingTypeOK
    <2> QED
      BY <2>1, SoleReadFrame DEF prodVars
  <1>2. c \in Taking /\ c \in At(Consumers, {"copy", "copyNames"})
    BY DEF CopyDesc, Taking, At
  <1>3. Waiting >= 1 /\ rb_base[irb_head].desc = reserved[Len(taken) + 1]
    BY <1>2, ReadyToRead, HeadComplete
  <1>4. UNCHANGED At(Consumers, {"copy", "copyNames"})
    BY ThreadsAssumption DEF CopyDesc, At, RingInv, RingTypeOK, RingThreads
  <1>5. \A d \in Consumers : ringpc'[d] = "copyNames" => d = c
    BY <1>2, <1>4 DEF At, SoleInv, ReadsInsideMutex
  <1>6. hdr'[c].desc = rb_base[irb_head].desc
    BY DEF CopyDesc, RingInv, RingTypeOK, Node
  <1>7. UNCHANGED Waiting /\ UNCHANGED <<mutex, reserved, taken>>
    BY DEF CopyDesc, Waiting, prodVars
  <1>8. ReadsInsideMutex'
    BY <1>3, <1>4, <1>5, <1>6, <1>7 DEF SoleInv, ReadsInsideMutex
  <1> QED
    BY <1>1, <1>8 DEF SoleInv

\* What is copied second belongs to the same entry.
LEMMA SoleCopyNames ==
  ASSUME RingInv, SoleInv, NEW c \in Consumers, CopyNames(c)
  PROVE  /\ SoleInv'
         /\ Len(taken) < Len(reserved)
         /\ taken' = Append(taken, [desc  |-> reserved[Len(taken) + 1],
                                    names |-> reserved[Len(taken) + 1]])
  <1>1. c \in Taking /\ c \in At(Consumers, {"copy", "copyNames"})
    BY DEF CopyNames, Taking, At
  <1>2. Waiting >= 1 /\ rb_base[irb_head].names = reserved[Len(taken) + 1]
    BY <1>1, ReadyToRead, HeadComplete
  <1>3. hdr[c].desc = reserved[Len(taken) + 1]
    BY DEF CopyNames, SoleInv, ReadsInsideMutex
  <1>4. hdr'[c] = [desc |-> reserved[Len(taken) + 1], names |-> reserved[Len(taken) + 1]]
    BY <1>2, <1>3 DEF CopyNames, RingInv, RingTypeOK, Node
  <1>5. /\ Len(reserved) \in Nat /\ Len(taken) \in Nat /\ Waiting \in 0..Qlength
        /\ irb_head \in Index
    BY Sizes
  <1>6. UNCHANGED <<rb_base, puts, temp_index, reserved>>
    BY DEF CopyNames, prodVars
  <1>7. /\ taken' = Append(taken, hdr'[c]) /\ Len(taken') = Len(taken) + 1
        /\ taken'[Len(taken) + 1] = hdr'[c]
        /\ \A i \in 1..Len(taken) : taken'[i] = taken[i]
    BY DEF CopyNames, RingInv, RingTypeOK, Node
  <1>8. Waiting' = Waiting - 1
    BY <1>5, <1>6, <1>7 DEF Waiting
  <1>9. irb_head' = IF irb_head >= Qlength - 1 THEN 0 ELSE irb_head + 1
    BY DEF CopyNames
  <1>10. \A k \in 0..(Qlength - 1) :
           (IF irb_head' + k < Qlength THEN irb_head' + k ELSE irb_head' + k - Qlength)
              = FromHead(k + 1)
    BY <1>5, <1>9, QlengthAssumption DEF FromHead, Index
  <1>11. /\ UNCHANGED At(Producers, {"fill"}) /\ UNCHANGED At(Producers, {"fill", "fillNames"})
         /\ UNCHANGED Filling
    BY ThreadsAssumption DEF CopyNames, Filling, At, RingInv, RingTypeOK, RingThreads
  <1>12. SlotsHoldEntries'
    <2> SUFFICES ASSUME NEW k \in 0..(Waiting - 1 - 1)
                 PROVE  LET node == rb_base[FromHead(k + 1)]
                        IN  /\ \/ node.desc = reserved[Len(taken) + 1 + 1 + k]
                               \/ k = Waiting - 1 - 1 /\ At(Producers, {"fill"}) # {}
                            /\ \/ node.names = reserved[Len(taken) + 1 + 1 + k]
                               \/ k = Waiting - 1 - 1 /\ At(Producers, {"fill", "fillNames"}) # {}
      <3>1. \A k \in 0..(Waiting - 1 - 1) : k \in 0..(Qlength - 1)
        BY <1>5, QlengthAssumption
      <3> QED
        BY <3>1, <1>6, <1>7, <1>8, <1>10, <1>11 DEF SlotsHoldEntries, FromHead
    <2>1. k + 1 \in 0..(Waiting - 1) /\ Len(taken) + 1 + (k + 1) = Len(taken) + 1 + 1 + k
      BY <1>5
    <2>2. k + 1 = Waiting - 1 <=> k = Waiting - 1 - 1
      BY <1>5
    <2> QED
      BY <2>1, <2>2 DEF SoleInv, SlotsHoldEntries
  <1>13. FillsLastSlot'
    <2> SUFFICES ASSUME NEW p \in Filling
                 PROVE  /\ Waiting - 1 >= 1 /\ reserved[Len(reserved)] = Current(p)
                        /\ temp_index[p] = FromHead(Waiting - 1 - 1 + 1)
      <3>1. \A p \in Filling : Waiting - 1 >= 1 => Waiting - 1 - 1 \in 0..(Qlength - 1)
        BY <1>5, QlengthAssumption
      <3>2. FromHead(Waiting - 1)' =
              (IF irb_head' + (Waiting - 1 - 1) < Qlength
               THEN irb_head' + (Waiting - 1 - 1) ELSE irb_head' + (Waiting - 1 - 1) - Qlength)
        BY <1>8 DEF FromHead
      <3> QED
        BY <3>1, <3>2, <1>6, <1>8, <1>10, <1>11 DEF FillsLastSlot, Current
    <2>1. Waiting >= 2
      BY <1>1, ReadyToRead
    <2>2. Waiting - 1 - 1 + 1 = Waiting - 1
      BY <1>5
    <2> QED
      BY <1>5, <2>1, <2>2 DEF SoleInv, FillsLastSlot
  <1>14. ReadsInsideMutex'
    <2>1. At(Consumers, {"copy", "copyNames"}) = {c} /\ mutex = {c}
      BY <1>1 DEF SoleInv, ReadsInsideMutex
    <2>2. At(Consumers, {"copy", "copyNames"})' = {}
      BY <2>1, ThreadsAssumption DEF CopyNames, At, RingInv, RingTypeOK, RingThreads
    <2>3. \A d \in Consumers : ringpc'[d] # "copyNames"
      BY <2>2 DEF At
    <2>4. mutex' = {}
      BY <2>1 DEF CopyNames
    <2> QED
      BY <2>2, <2>3, <2>4 DEF ReadsInsideMutex
  <1>15. IntactInOrder'
    <2>1. DOMAIN reserved = 1..Len(reserved)
      BY DEF RingInv, RingTypeOK
    <2>2. \A i \in 1..Len(taken) : i \in DOMAIN reserved
            /\ taken[i] = [desc |-> reserved[i], names |-> reserved[i]]
      BY DEF SoleInv, IntactInOrder
    <2>3. Len(taken) + 1 \in DOMAIN reserved
      BY <2>1, <1>2, <1>5 DEF Waiting
    <2> QED
      BY <1>4, <1>5, <1>6, <1>7, <2>2, <2>3 DEF IntactInOrder
  <1> QED
    BY <1>2, <1>4, <1>5, <1>7, <1>12, <1>13, <1>14, <1>15 DEF SoleInv, Waiting
-----------------------------------------------------------------------------

\* The empty ring.
LEMMA SoleInit ==
  ASSUME RingInit
  PROVE  SoleInv
  <1>1. Waiting = 0 /\ Filling = {} /\ At(Consumers, {"copy", "copyNames"}) = {}
    BY DEF RingInit, Waiting, Filling, At, RingThreads
  <1>2. \A c \in Consumers : ringpc[c] # "copyNames"
    BY DEF RingInit, RingThreads
  <1> QED
    BY <1>1, <1>2
       DEF RingInit, SoleInv, SlotsHoldEntries, FillsLastSlot, ReadsInsideMutex, IntactInOrder

\* Every step of a ring with one producer keeps the invariant.
LEMMA SoleStep ==
  ASSUME SoleProducer, RingInv, RingInv', SoleInv, [RingNext]_ringVars
  PROVE  SoleInv'
  <1>1. CASE \E p \in Producers : Reserve(p)
    BY <1>1, SoleReserve
  <1>2. CASE \E p \in Producers : FillDesc(p) \/ FillNames(p)
    BY <1>2, SoleFill
  <1>3. CASE \/ \E p \in Producers : WaitEmpty(p) \/ WaitInterrupted(p) \/ PostFull(p)
             \/ \E c \in Consumers : WaitFull(c) \/ PostEmpty(c)
    BY <1>3, SoleTokens
  <1>4. CASE \E c \in Consumers : LockHead(c)
    BY <1>4, SoleLock
  <1>5. CASE \E c \in Consumers : CopyDesc(c)
    BY <1>5, SoleCopyDesc
  <1>6. CASE \E c \in Consumers : CopyNames(c)
    BY <1>6, SoleCopyNames
  <1>7. CASE UNCHANGED ringVars
    BY <1>7 DEF ringVars, SoleInv, SlotsHoldEntries, FillsLastSlot, ReadsInsideMutex,
       IntactInOrder, Waiting, FromHead, Filling, At, Current
  <1> QED
    BY <1>1, <1>2, <1>3, <1>4, <1>5, <1>6, <1>7 DEF RingNext, Putdata, Getdata

\* SoleInv, and with it IntactInOrder: when one thread calls sbuff_putdata, every
\* node sbuff_getdata copies out is exactly what was put, whole and in order,
\* whatever the length of the ring and the number of consumers.
THEOREM SoleProducerIntact ==
  ASSUME SoleProducer
  PROVE  RingSpec => [](SoleInv /\ IntactInOrder)
  <1>1. RingInit => SoleInv
    BY SoleInit
  <1>2. RingInv /\ RingInv' /\ SoleInv /\ [RingNext]_ringVars => SoleInv'
    BY SoleStep
  <1>3. SoleInv => IntactInOrder
    BY DEF SoleInv
  <1> QED
    BY <1>1, <1>2, <1>3, RingCorrect, PTL DEF RingSpec

-----------------------------------------------------------------------------
(* The ring of a sole producer implements the channel. *)

Handed == [i \in 1..Len(taken) |->
              IF taken[i].desc = taken[i].names THEN taken[i].desc ELSE NoEntry]

\* Every step of the ring is a step of the channel or leaves it alone.
LEMMA ChannelStep ==
  ASSUME SoleProducer, RingInv, RingInv', SoleInv, [RingNext]_ringVars
  PROVE  [Channel!Next]_<<reserved, Handed>>
  <1>1. /\ Len(reserved) \in Nat /\ Len(taken) \in Nat
        /\ reserved \in Seq(Entry) /\ taken \in Seq(Node) /\ taken' \in Seq(Node)
    BY DEF RingInv, RingTypeOK
  <1>2. Len(Handed) = Len(taken)
    BY <1>1 DEF Handed
  <1>3. CASE \E p \in Producers : Reserve(p)
    <2> PICK p \in Producers : Reserve(p)
      BY <1>3
    <2>1. Current(p) \in Entry /\ reserved' = Append(reserved, Current(p)) /\ taken' = taken
      BY CurrentIsEntry DEF RingInv, Reserve, consVars
    <2>2. Len(reserved') = Len(reserved) + 1 /\ Len(reserved') <= Len(taken') + Qlength
      BY <1>1, <2>1 DEF RingInv, CursorsBounded
    <2>3. Len(reserved) - Len(Handed) < Qlength
      BY <1>1, <1>2, <2>1, <2>2, QlengthAssumption
    <2>4. Handed' = Handed
      BY <2>1 DEF Handed
    <2> QED
      BY <2>1, <2>3, <2>4 DEF Channel!Next, Channel!Put, Handed
  <1>4. CASE \E c \in Consumers : CopyNames(c)
    <2> PICK c \in Consumers : CopyNames(c)
      BY <1>4
    <2> DEFINE e == reserved[Len(taken) + 1]
    <2>1. /\ Len(taken) < Len(reserved) /\ reserved' = reserved
          /\ taken' = Append(taken, [desc |-> e, names |-> e])
      BY SoleCopyNames DEF CopyNames, prodVars
    <2>2. e \in Entry /\ [desc |-> e, names |-> e] \in Node
      BY <1>1, <2>1 DEF Node, Content
    <2>3. /\ Len(taken') = Len(taken) + 1
          /\ \A i \in 1..Len(taken) : taken'[i] = taken[i]
          /\ taken'[Len(taken) + 1] = [desc |-> e, names |-> e]
      BY <1>1, <2>1, <2>2
    <2>4. Handed' = [i \in 1..(Len(taken) + 1) |-> IF i = Len(taken) + 1 THEN e ELSE Handed[i]]
      BY <1>1, <2>3 DEF Handed
    <2>5. Handed \in Seq(Entry \cup {NoEntry})
      <3>1. \A i \in 1..Len(taken) : Handed[i] \in Entry \cup {NoEntry}
        <4> SUFFICES ASSUME NEW i \in 1..Len(taken) PROVE Handed[i] \in Entry \cup {NoEntry}
          OBVIOUS
        <4>1. taken[i] \in Node
          BY <1>1
        <4>2. taken[i].desc \in Entry \cup {NoEntry}
          BY <4>1 DEF Node, Content
        <4> QED
          BY <4>2 DEF Handed
      <3>2. Handed \in [1..Len(taken) -> Entry \cup {NoEntry}]
        BY <3>1 DEF Handed
      <3> QED
        BY <3>2, <1>1
    <2>6. Append(Handed, e) = [i \in 1..(Len(taken) + 1) |->
                                 IF i = Len(taken) + 1 THEN e ELSE Handed[i]]
      BY <1>1, <1>2, <2>2, <2>5
    <2>7. Handed' = Append(Handed, reserved[Len(Handed) + 1])
      BY <1>2, <2>4, <2>6
    <2> QED
      BY <1>2, <2>1, <2>7 DEF Channel!Next, Channel!Get, Handed
  <1>5. CASE ~ (\E p \in Producers : Reserve(p)) /\ ~ (\E c \in Consumers : CopyNames(c))
    <2>1. UNCHANGED <<reserved, taken>>
      BY <1>5 DEF RingNext, ringVars, Putdata, Getdata, WaitEmpty, WaitInterrupted, FillDesc, FillNames,
         PostFull, WaitFull, LockHead, CopyDesc, PostEmpty, prodVars, consVars
    <2> QED
      BY <2>1 DEF Handed
  <1> QED
    BY <1>3, <1>4, <1>5

\* ImplementsFifo: the ring of session_buf.c with one producer is a bounded
\* first-in first-out channel of irb_qlength entries.
THEOREM SoleProducerFifo ==
  ASSUME SoleProducer
  PROVE  RingSpec => ImplementsFifo
  <1>1. RingInit => Channel!Init
    BY DEF RingInit, Channel!Init
  <1>2. RingInv /\ RingInv' /\ SoleInv /\ [RingNext]_ringVars => [Channel!Next]_<<reserved, Handed>>
    BY ChannelStep
  <1>3. RingInit => SoleInv
    BY SoleInit
  <1>4. RingInv /\ RingInv' /\ SoleInv /\ [RingNext]_ringVars => SoleInv'
    BY SoleStep
  <1> QED
    BY <1>1, <1>2, <1>3, <1>4, RingCorrect, PTL DEF RingSpec, ImplementsFifo, Channel!Spec, Handed

-----------------------------------------------------------------------------
(* The service and its workers                                             *)

\* A thread that is not free serves one of its requests, and a worker that is not idle
\* has the frame of one.
Begun ==
    /\ \A t \in Threads : pc[t] # "free" => served[t] \in 1..MaxServed
    /\ \A w \in Workers : wpc[w] # "idle" => frame[w] \in Frame

\* Where a gated request stands decides whether its gate is shut: until its verdict
\* has come nothing of its body is out, and after it the verdict decides.
GateShut(t) ==
    /\ pc[t] \in {"free", "preview"} => att[t] = "no_att" /\ body[t].out = 0
    /\ att[t] # "no_att" =>
        /\ pc[t] \in {"io", "put", "wait", "release"} => body[t].out = 0
        /\ pc[t] \in {"io", "put", "wait"} => blocked[t] = "WRITE_BLOCKED"
        /\ pc[t] = "send" => \/ blocked[t] = "NOT_BLOCKED" /\ answer[t].msg = "y"
                             \/ blocked[t] = "BLOCKED" /\ body[t].out = 0

\* What is in the body file of a previewed request, and what an end of it means.
BodyFollows(t) ==
    Previewed(t) =>
        /\ pc[t] = "preview" => ~ended[t]
        /\ pc[t] \in {"io", "put", "wait", "send"} =>
              body[t].open /\ body[t].in = fed[t] /\ body[t].out <= body[t].in
        /\ pc[t] \in {"preview", "io"} /\ eof[t] = 1 => unset[t]
        /\ pc[t] \in {"put", "wait", "send"} => fed[t] = request[t].size
        /\ pc[t] = "send" => blocked[t] # "WRITE_BLOCKED"
        /\ ended[t] /\ ~unset[t] =>
              /\ pc[t] = "send"
              /\ blocked[t] # "BLOCKED" => body[t].out = fed[t]

Threadwise(t) == GateShut(t) /\ BodyFollows(t)

PipeInv == TypeOK /\ Begun /\ \A t \in Threads : Threadwise(t)

-----------------------------------------------------------------------------
(* Types *)

Body == [open : BOOLEAN, in : Nat, out : Nat]

\* A counter of a body file may be set to any number.
LEMMA BodyExcept ==
  ASSUME NEW b \in Body, NEW n \in Nat
  PROVE  /\ [b EXCEPT !.in = n] \in Body
         /\ [b EXCEPT !.out = n] \in Body
  BY Zenon DEF Body

\* The sizes of a request are numbers, those of no request too.
LEMMA RequestTyped ==
  ASSUME NEW r \in Requests \cup {NoRequest}
  PROVE  r.size \in Nat /\ r.preview \in Nat
  <1>1. CASE r = NoRequest
    BY <1>1 DEF NoRequest
  <1>2. CASE r \in Request
    BY <1>2 DEF Request
  <1> QED
    BY <1>1, <1>2, RequestsAssumption

\* The server starts in a typed state.
LEMMA InitTyped == Init => TypeOK
  <1> SUFFICES ASSUME Init PROVE TypeOK
    OBVIOUS
  <1>1. /\ pc \in [Threads -> {"free", "preview", "io", "put", "wait", "send", "release"}]
        /\ blocked \in [Threads -> {"WRITE_BLOCKED", "NOT_BLOCKED", "BLOCKED"}]
        /\ att \in [Threads -> {"no_att", "normal_att", "mime_att", "upload_test"}]
        /\ reply \in [Threads -> {"none", "CI_ERROR", "CI_MOD_ALLOW204", "CI_MOD_DONE"}]
    BY DEF Init, ServiceInit
  <1>2. /\ served \in [Threads -> 0..MaxServed]
        /\ eof \in [Threads -> {0, 1}] /\ unset \in [Threads -> BOOLEAN]
        /\ fed \in [Threads -> Nat]
        /\ ended \in [Threads -> BOOLEAN]
    BY ServiceAssumption DEF Init, ServiceInit
  <1>3. /\ request \in [Threads -> Requests \cup {NoRequest}]
        /\ answer \in [Threads -> Verdict \cup {NoAnswer}]
    BY DEF Init, ServiceInit
  <1>4. body \in [Threads -> [open : BOOLEAN, in : Nat, out : Nat]]
    BY DEF Init, ServiceInit, NoBody
  <1>5. ring \in Seq(Frame) /\ verdicts \in [Threads -> Seq(Verdict)] /\ toPolicy \in Seq(Frame)
    BY DEF Init, ServiceInit
  <1>6. /\ wpc \in [Workers -> {"idle", "parse", "extract", "check", "msgsnd", "touch"}]
        /\ frame \in [Workers -> Frame \cup {NoFrame}]
        /\ outlogLock \in SUBSET Workers
        /\ restarts \in 0..MaxRestarts
    BY PipelineAssumption DEF Init
  <1> QED
    BY <1>1, <1>2, <1>3, <1>4, <1>5, <1>6 DEF TypeOK, ServiceTypeOK

\* A new request, and what malloc leaves in it.
LEMMA StartTyped ==
  ASSUME TypeOK, NEW t \in Threads, InitRequestData(t), UNCHANGED pipeVars
  PROVE  TypeOK'
  <1> USE DEF TypeOK, ServiceTypeOK, pipeVars
  <1>1. NoBody \in Body
    BY DEF NoBody, Body
  <1>2. PICK r \in Requests : request' = [request EXCEPT ![t] = r]
    BY DEF InitRequestData
  <1>3. /\ request' \in [Threads -> Requests \cup {NoRequest}]
        /\ answer' \in [Threads -> Verdict \cup {NoAnswer}]
    BY <1>2 DEF InitRequestData
  <1>4. served' \in [Threads -> 0..MaxServed]
    BY ServiceAssumption DEF InitRequestData
  <1>5. eof' \in [Threads -> {0, 1}] /\ unset' \in [Threads -> BOOLEAN]
    BY ServiceAssumption DEF InitRequestData
  <1>6. body' \in [Threads -> Body]
    BY <1>1 DEF InitRequestData, Body
  <1> QED
    BY <1>3, <1>4, <1>5, <1>6 DEF InitRequestData, Goto, Body

\* What the URL of a mail makes of its request.
LEMMA AttIs ==
  ASSUME NEW url, JdmailMy(url) # "NOT_MAIL"
  PROVE  AttOf[JdmailMy(url)] \in {"no_att", "normal_att", "mime_att", "upload_test"}
  <1>1. JdmailMy(url) \in {"IS_MAIL", "MAIL_HAS_ATT", "MAIL_HAS_MIME_ATT", "UPLOAD_TEST"}
    BY DEF JdmailMy
  <1>2. PICK m : m = JdmailMy(url)
    OBVIOUS
  <1>3. /\ m = "IS_MAIL" => AttOf[m] = "no_att"
        /\ m = "MAIL_HAS_ATT" => AttOf[m] = "normal_att"
        /\ m = "MAIL_HAS_MIME_ATT" => AttOf[m] = "mime_att"
        /\ m = "UPLOAD_TEST" => AttOf[m] = "upload_test"
    BY DEF AttOf
  <1> QED
    BY <1>1, <1>2, <1>3

\* Every outcome of the preview handler.
LEMMA PreviewTyped ==
  ASSUME TypeOK, NEW t \in Threads, CheckPreview(t), UNCHANGED pipeVars
  PROVE  TypeOK'
  <1>1. request[t].preview \in Nat
    BY RequestTyped DEF TypeOK, ServiceTypeOK
  <1> USE DEF TypeOK, ServiceTypeOK, pipeVars, dataVars, Goto
  <1>2. CASE NoHeaders(t)
    BY <1>2 DEF NoHeaders, Refuse
  <1>3. CASE Allow204(t)
    BY <1>3 DEF Allow204, Refuse
  <1>4. CASE ContinueWithoutPreview(t)
    BY <1>4 DEF ContinueWithoutPreview
  <1>5. CASE Gate(t) /\ (Continue(t) \/ NoBodyFile(t))
    <2>1. AttOf[JdmailMy(request[t].url)] \in {"no_att", "normal_att", "mime_att", "upload_test"}
      <3> HIDE DEF TypeOK, ServiceTypeOK, pipeVars, dataVars
      <3>1. JdmailMy(request[t].url) # "NOT_MAIL"
        BY <1>5, ZenonT(60) DEF Gate, Interesting
      <3> QED
        BY <3>1, AttIs
    <2>2. /\ att' \in [Threads -> {"no_att", "normal_att", "mime_att", "upload_test"}]
          /\ blocked' \in [Threads -> {"WRITE_BLOCKED", "NOT_BLOCKED", "BLOCKED"}]
      BY <1>5, <2>1 DEF Gate
    <2>3. CASE Continue(t)
      <3>1. [open |-> TRUE, in |-> request[t].preview, out |-> 0] \in Body
        BY <1>1 DEF Body
      <3>2. body' \in [Threads -> Body] /\ fed' \in [Threads -> Nat]
        BY <1>1, <2>3, <3>1 DEF Continue, Body
      <3> QED
        BY <2>2, <2>3, <3>2 DEF Continue, Body
    <2>4. CASE NoBodyFile(t)
      BY <2>2, <2>4 DEF NoBodyFile, Refuse
    <2> QED
      BY <1>5, <2>3, <2>4
  <1> QED
    BY <1>2, <1>3, <1>4, <1>5 DEF CheckPreview, Continue, NoBodyFile

\* Every way through the io handler.
LEMMA IoTyped ==
  ASSUME TypeOK, NEW t \in Threads, Io(t) \/ IoBlocked(t) \/ IoError(t), UNCHANGED pipeVars
  PROVE  TypeOK'
  <1> USE DEF TypeOK, ServiceTypeOK, pipeVars, dataVars, Goto
  <1>1. CASE Io(t)
    <2>1. PICK units \in {0, 1}, room \in BOOLEAN :
              /\ fed' = [fed EXCEPT ![t] = @ + units]
              /\ body' = [body EXCEPT ![t] = [ReadFromNet(body[t], units) EXCEPT !.out = @ +
                               IF room THEN WriteToNet(t, ReadFromNet(body[t], units)) ELSE 0]]
              /\ ended' = [ended EXCEPT ![t] = @ \/
                               ((IF room THEN WriteToNet(t, ReadFromNet(body[t], units)) ELSE 0) = 0
                                /\ eof[t] = 1)]
      BY <1>1 DEF Io
    <2> DEFINE b == ReadFromNet(body[t], units)
               n == IF room THEN WriteToNet(t, b) ELSE 0
    <2>2. b \in Body
      <3>1. body[t] \in Body /\ body[t].in + units \in Nat
        BY DEF Body
      <3> QED
        BY <3>1, BodyExcept DEF ReadFromNet
    <2>3. n \in {0, 1}
      BY DEF WriteToNet
    <2>4. body' = [body EXCEPT ![t] = [b EXCEPT !.out = @ + n]]
      BY <2>1
    <2> HIDE DEF b, n
    <2>5. [b EXCEPT !.out = @ + n] \in Body
      <3>1. b.out + n \in Nat
        BY <2>2, <2>3 DEF Body
      <3> QED
        BY <2>2, <3>1, BodyExcept
    <2>6. body' \in [Threads -> Body]
      BY <2>4, <2>5 DEF Body
    <2>7. fed' \in [Threads -> Nat] /\ ended' \in [Threads -> BOOLEAN]
      BY <2>1
    <2> QED
      BY <1>1, <2>6, <2>7 DEF Io, Body
  <1>2. CASE IoBlocked(t)
    BY <1>2 DEF IoBlocked
  <1>3. CASE IoError(t)
    BY <1>3 DEF IoError, Refuse
  <1> QED
    BY <1>1, <1>2, <1>3

\* The end of the data, the question and its answer.
LEMMA AskTyped ==
  ASSUME TypeOK, Begun, NEW t \in Threads,
         EndOfData(t) \/ Put(t) \/ PutInterrupted(t) \/ Receive(t), UNCHANGED pipeVars
  PROVE  TypeOK'
  <1> USE DEF TypeOK, ServiceTypeOK, pipeVars, dataVars, Goto
  <1>1. CASE EndOfData(t)
    BY <1>1 DEF EndOfData
  <1>2. CASE Put(t)
    BY <1>2 DEF Put, Begun, Frame
  <1>3. CASE PutInterrupted(t)
    BY <1>3 DEF PutInterrupted
  <1>4. CASE Receive(t)
    <2>1. Head(verdicts[t]) \in Verdict /\ Tail(verdicts[t]) \in Seq(Verdict)
      BY <1>4 DEF Receive
    <2> QED
      BY <1>4, <2>1 DEF Receive
  <1> QED
    BY <1>1, <1>2, <1>3, <1>4

\* The thread is free again.
LEMMA ReleaseTyped ==
  ASSUME TypeOK, NEW t \in Threads, Release(t), UNCHANGED pipeVars
  PROVE  TypeOK'
  BY DEF TypeOK, ServiceTypeOK, pipeVars, Release, Forget, Reset, NoBody, NoRequest, NoAnswer

\* A restart clears all but the queues.
LEMMA RestartTyped ==
  ASSUME TypeOK, Restart
  PROVE  TypeOK'
  <1>1. /\ wpc' \in [Workers -> {"idle", "parse", "extract", "check", "msgsnd", "touch"}]
        /\ frame' \in [Workers -> Frame \cup {NoFrame}]
        /\ outlogLock' \in SUBSET Workers
        /\ toPolicy' \in Seq(Frame)
        /\ ring' \in Seq(Frame)
    BY DEF TypeOK, Restart
  <1>2. restarts' \in 0..MaxRestarts
    BY PipelineAssumption DEF TypeOK, Restart
  <1>3. NoBody \in Body
    BY DEF NoBody, Body
  <1>4. body' \in [Threads -> Body]
    BY <1>3 DEF Restart, Forget, Reset
  <1> QED
    BY <1>1, <1>2, <1>4 DEF TypeOK, ServiceTypeOK, Restart, Forget, Reset, Body

\* Every step of a worker.
LEMMA WorkTyped ==
  ASSUME TypeOK, Begun, NEW w \in Workers, Work(w)
  PROVE  TypeOK'
  <1> USE DEF TypeOK, ServiceTypeOK, serviceVars, WGoto
  <1>1. CASE Take(w)
    BY <1>1 DEF Take
  <1>2. CASE Parse(w)
    BY <1>2 DEF Parse
  <1>3. CASE LockOutlog(w)
    BY <1>3 DEF LockOutlog
  <1>4. CASE CheckQueue(w)
    BY <1>4 DEF CheckQueue, Unlock
  <1>5. CASE MsgSnd(w)
    <2>1. frame[w] \in Frame
      BY <1>5 DEF MsgSnd, Begun
    <2> QED
      BY <1>5, <2>1 DEF MsgSnd, Unlock
  <1>6. CASE FreeHttpSession(w)
    BY <1>6 DEF FreeHttpSession
  <1> QED
    BY <1>1, <1>2, <1>3, <1>4, <1>5, <1>6 DEF Work

\* The matcher moves a question to the verdicts.
LEMMA JudgeTyped ==
  ASSUME TypeOK, Judge
  PROVE  TypeOK'
  <1> DEFINE f == Head(toPolicy)
  <1>1. f \in Frame /\ Tail(toPolicy) \in Seq(Frame)
    BY DEF Judge, TypeOK
  <1>2. \A m \in {"y", "n"} : [about |-> f, msg |-> m] \in Verdict
    BY <1>1 DEF Verdict
  <1>3. f[1] \in Threads
    BY <1>1 DEF Frame
  <1>4. PICK m \in {"y", "n"} :
            verdicts' = [verdicts EXCEPT ![f[1]] = Append(@, [about |-> f, msg |-> m])]
    BY DEF Judge
  <1>5. Append(verdicts[f[1]], [about |-> f, msg |-> m]) \in Seq(Verdict)
    BY <1>2, <1>3 DEF TypeOK, ServiceTypeOK
  <1>6. verdicts' \in [Threads -> Seq(Verdict)]
    BY <1>3, <1>4, <1>5 DEF TypeOK, ServiceTypeOK
  <1>7. toPolicy' \in Seq(Frame)
    BY <1>1 DEF Judge
  <1> QED
    BY <1>6, <1>7 DEF Judge, TypeOK, ServiceTypeOK, serviceVars

-----------------------------------------------------------------------------
(* A thread's own steps *)

\* The request of thread t and all that the service keeps of it.
Of(t) == <<pc[t], served[t], request[t], blocked[t], att[t], eof[t], unset[t], body[t], fed[t],
           reply[t], ended[t], answer[t]>>

\* A thread whose request a step does not touch stays as it was.
LEMMA OthersKeep ==
  ASSUME TypeOK, NEW t \in Threads, InitRequestData(t) \/ Serve(t),
         NEW u \in Threads, u # t
  PROVE  Of(u)' = Of(u)
  <1> USE DEF TypeOK, ServiceTypeOK, dataVars, Goto, Of
  <1>1. CASE InitRequestData(t)
    BY <1>1 DEF InitRequestData
  <1>2. CASE CheckPreview(t)
    BY <1>2 DEF CheckPreview, NoHeaders, Allow204, ContinueWithoutPreview, Continue, NoBodyFile,
                Gate, Refuse
  <1>3. CASE Io(t)
    BY <1>3 DEF Io
  <1>4. CASE IoBlocked(t) \/ IoError(t)
    BY <1>4 DEF IoBlocked, IoError, Refuse
  <1>5. CASE EndOfData(t)
    BY <1>5 DEF EndOfData
  <1>6. CASE Put(t) \/ PutInterrupted(t) \/ Receive(t)
    BY <1>6 DEF Put, PutInterrupted, Receive
  <1>7. CASE Release(t)
    BY <1>7 DEF Release, Forget, Reset
  <1> QED
    BY <1>1, <1>2, <1>3, <1>4, <1>5, <1>6, <1>7 DEF Serve

\* A request starts with its gate shut or without an attachment, and with nothing out.
LEMMA StartOK ==
  ASSUME PipeInv, NEW t \in Threads, InitRequestData(t)
  PROVE  Threadwise(t)'
  <1>1. PICK e \in FreshEof : /\ eof' = [eof EXCEPT ![t] = e]
                             /\ unset' = [unset EXCEPT ![t] = e # 0]
    BY DEF InitRequestData
  <1>2. eof'[t] = 1 => unset'[t]
    <2>1. eof'[t] = e
      BY <1>1 DEF PipeInv, TypeOK, ServiceTypeOK
    <2>2. unset'[t] = (e # 0)
      BY <1>1, Zenon DEF PipeInv, TypeOK, ServiceTypeOK
    <2>3. e = 1 => (e # 0) = TRUE
      OBVIOUS
    <2>4. e = 1 => unset'[t] = TRUE
      BY <2>2, <2>3, Zenon
    <2> QED
      BY <2>1, <2>4
  <1>3. pc'[t] = "preview" /\ att'[t] = "no_att" /\ ended'[t] = FALSE
    BY DEF InitRequestData, Goto, PipeInv, TypeOK, ServiceTypeOK
  <1>4. body'[t].out = 0
    BY DEF InitRequestData, NoBody, PipeInv, TypeOK, ServiceTypeOK
  <1> QED
    BY <1>2, <1>3, <1>4 DEF Threadwise, GateShut, BodyFollows, Previewed

\* The preview handler shuts the gate of a request that is to be judged.
LEMMA PreviewOK ==
  ASSUME PipeInv, NEW t \in Threads, CheckPreview(t)
  PROVE  Threadwise(t)'
  <1> USE DEF PipeInv, TypeOK, ServiceTypeOK, dataVars, Goto, Threadwise, GateShut, BodyFollows,
              Previewed
  <1>1. CASE NoHeaders(t) \/ Allow204(t)
    BY <1>1 DEF NoHeaders, Allow204, Refuse
  <1>2. CASE ContinueWithoutPreview(t)
    BY <1>2 DEF ContinueWithoutPreview
  <1>3. CASE Continue(t)
    <2>1. /\ body'[t].open /\ body'[t].in = request[t].preview /\ body'[t].out = 0
          /\ fed'[t] = request[t].preview
          /\ pc'[t] = "io"
          /\ UNCHANGED <<request, eof, unset, ended>>
      BY <1>3 DEF Continue
    <2>2. request[t].preview \in Nat
      BY RequestTyped
    <2>3. att'[t] # "no_att" => blocked'[t] = "WRITE_BLOCKED"
      BY <1>3 DEF Continue, Gate
    <2>4. pc[t] = "preview" /\ request[t].preview > 0
      BY <1>3 DEF Continue, Gate
    <2> QED
      BY <2>1, <2>2, <2>3, <2>4
  <1>4. CASE NoBodyFile(t)
    BY <1>4 DEF NoBodyFile, Gate, Refuse
  <1> QED
    BY <1>1, <1>2, <1>3, <1>4 DEF CheckPreview

\* While the gate is shut io sends nothing on; what it reads goes into the body file.
LEMMA IoOK ==
  ASSUME PipeInv, NEW t \in Threads, Io(t)
  PROVE  Threadwise(t)'
  <1> USE DEF PipeInv, TypeOK, ServiceTypeOK
  <1>1. PICK units \in {0, 1}, room \in {FALSE, TRUE} :
            LET b == ReadFromNet(body[t], units)
                n == IF room THEN WriteToNet(t, b) ELSE 0
            IN  /\ units = 1 => pc[t] = "io" /\ fed[t] < request[t].size
                /\ units = 1 \/ room
                /\ room => ~ended[t]
                /\ fed' = [fed EXCEPT ![t] = @ + units]
                /\ body' = [body EXCEPT ![t] = [b EXCEPT !.out = @ + n]]
                /\ ended' = [ended EXCEPT ![t] = @ \/ (n = 0 /\ eof[t] = 1)]
    BY DEF Io
  <1> DEFINE b == ReadFromNet(body[t], units)
             n == IF room THEN WriteToNet(t, b) ELSE 0
  <1>2. /\ b.open = body[t].open /\ b.out = body[t].out
        /\ b.in = body[t].in + IF body[t].open THEN units ELSE 0
    BY DEF ReadFromNet
  <1>3. n = IF room /\ blocked[t] # "WRITE_BLOCKED" /\ b.open /\ b.out < b.in THEN 1 ELSE 0
    BY DEF WriteToNet
  <1>4. /\ body'[t].open = b.open /\ body'[t].in = b.in /\ body'[t].out = b.out + n
        /\ fed'[t] = fed[t] + units
        /\ ended'[t] = (ended[t] \/ (n = 0 /\ eof[t] = 1))
    BY <1>1 DEF ReadFromNet
  <1>5. /\ units = 1 => pc[t] = "io"
        /\ units = 1 \/ room
        /\ room => ~ended[t]
    BY <1>1
  <1>6. /\ pc[t] \in {"io", "send"} /\ blocked[t] # "BLOCKED"
        /\ UNCHANGED <<pc, request, blocked, att, eof, unset, answer>>
    BY DEF Io
  <1> HIDE DEF b, n
  <1>7. body[t].in \in Nat /\ body[t].out \in Nat /\ fed[t] \in Nat
    OBVIOUS
  <1>8. GateShut(t)'
    BY <1>2, <1>3, <1>4, <1>6, <1>7 DEF Threadwise, GateShut
  <1>9. BodyFollows(t)'
    BY <1>2, <1>3, <1>4, <1>5, <1>6, <1>7 DEF Threadwise, BodyFollows, Previewed
  <1> QED
    BY <1>8, <1>9 DEF Threadwise

\* The gate opens with the verdict "y" only, and only a whole body is asked about.
LEMMA TalkOK ==
  ASSUME PipeInv, NEW t \in Threads,
         IoBlocked(t) \/ IoError(t) \/ EndOfData(t) \/ Put(t) \/ PutInterrupted(t) \/ Receive(t)
         \/ Release(t)
  PROVE  Threadwise(t)'
  <1> USE DEF PipeInv, TypeOK, ServiceTypeOK, dataVars, Goto, Threadwise, GateShut, BodyFollows,
              Previewed
  <1>1. CASE IoBlocked(t) \/ IoError(t)
    BY <1>1 DEF IoBlocked, IoError, Refuse
  <1>2. CASE EndOfData(t)
    BY <1>2 DEF EndOfData
  <1>3. CASE Put(t) \/ PutInterrupted(t)
    BY <1>3 DEF Put, PutInterrupted
  <1>4. CASE Receive(t)
    <2>1. Head(verdicts[t]) \in Verdict
      BY <1>4 DEF Receive
    <2>2. /\ answer'[t].msg \in {"y", "n"}
          /\ blocked'[t] = IF answer'[t].msg = "n" THEN "BLOCKED" ELSE "NOT_BLOCKED"
      BY <1>4, <2>1 DEF Receive, Verdict
    <2>3. pc[t] = "wait" /\ pc'[t] = "send" /\ UNCHANGED <<dataVars, ended>>
      BY <1>4 DEF Receive
    <2> QED
      BY <2>2, <2>3
  <1>5. CASE Release(t)
    <2>1. /\ pc'[t] = "free" /\ att'[t] = "no_att"
          /\ request'[t] = NoRequest /\ body'[t] = NoBody
      BY <1>5 DEF Release, Forget, Reset
    <2>2. NoRequest.preview = 0 /\ NoBody.out = 0
      BY DEF NoRequest, NoBody
    <2> QED
      BY <2>1, <2>2
  <1> QED
    BY <1>1, <1>2, <1>3, <1>4, <1>5

-----------------------------------------------------------------------------
(* Everyone's steps *)

\* What a step does not touch keeps what it promised.
LEMMA ThreadwiseKept ==
  ASSUME NEW t \in Threads, Of(t)' = Of(t), Threadwise(t)
  PROVE  Threadwise(t)'
  BY DEF Of, Threadwise, GateShut, BodyFollows, Previewed

\* Requests are counted and frames are those of requests.
LEMMA BegunKept ==
  ASSUME PipeInv, NEW t \in Threads, InitRequestData(t) \/ Serve(t), UNCHANGED pipeVars
  PROVE  Begun'
  <1> USE DEF PipeInv, TypeOK, ServiceTypeOK
  <1>1. \A u \in Threads : u # t => pc'[u] = pc[u] /\ served'[u] = served[u]
    BY OthersKeep DEF Of
  <1>2. pc'[t] # "free" => served'[t] \in 1..MaxServed
    <2>1. CASE InitRequestData(t)
      BY <2>1, ServiceAssumption DEF InitRequestData
    <2>2. CASE Serve(t)
      <3>1. pc[t] # "free" /\ served' = served
        BY <2>2 DEF Serve, CheckPreview, NoHeaders, Allow204, ContinueWithoutPreview, Continue,
                    NoBodyFile, Gate, Refuse, Io, IoBlocked, IoError, EndOfData, Put,
                    PutInterrupted, Receive, Release, Forget
      <3> QED
        BY <3>1 DEF Begun
    <2> QED
      BY <2>1, <2>2
  <1> QED
    BY <1>1, <1>2 DEF Begun, pipeVars

\* A worker has the frame of a request whenever it is not idle.
LEMMA WorkerKeeps ==
  ASSUME PipeInv, NEW w \in Workers, Work(w)
  PROVE  Begun'
  <1> USE DEF PipeInv, TypeOK, ServiceTypeOK, WGoto, serviceVars, Begun
  <1>1. CASE Take(w)
    BY <1>1 DEF Take
  <1>2. CASE Parse(w) \/ LockOutlog(w) \/ CheckQueue(w) \/ MsgSnd(w)
    BY <1>2 DEF Parse, LockOutlog, CheckQueue, MsgSnd, Unlock
  <1>3. CASE FreeHttpSession(w)
    BY <1>3 DEF FreeHttpSession
  <1> QED
    BY <1>1, <1>2, <1>3 DEF Work

\* Workers and the matcher touch no request.
LEMMA ServiceKept ==
  ASSUME PipeInv, UNCHANGED serviceVars
  PROVE  \A t \in Threads : Threadwise(t)'
  <1>1. \A t \in Threads : Of(t)' = Of(t)
    BY DEF serviceVars, Of
  <1> QED
    BY <1>1, ThreadwiseKept DEF PipeInv

\* PipeInv is inductive.
THEOREM PipelineCorrect == Spec => []PipeInv
  <1>1. Init => PipeInv
    <2> SUFFICES ASSUME Init PROVE PipeInv
      OBVIOUS
    <2>1. Begun
      BY DEF Init, ServiceInit, Begun
    <2>2. \A t \in Threads : Threadwise(t)
      BY DEF Init, ServiceInit, NoBody, NoRequest, Threadwise, GateShut, BodyFollows, Previewed
    <2> QED
      BY <2>1, <2>2, InitTyped DEF PipeInv
  <1>2. PipeInv /\ [Next]_vars => PipeInv'
    <2> SUFFICES ASSUME PipeInv, [Next]_vars PROVE PipeInv'
      OBVIOUS
    <2> USE DEF PipeInv
    <2>1. ASSUME NEW t \in Threads, InitRequestData(t) \/ Serve(t), UNCHANGED pipeVars
          PROVE  PipeInv'
      <3>1. TypeOK'
        BY <2>1, StartTyped, PreviewTyped, IoTyped, AskTyped, ReleaseTyped DEF Serve
      <3>2. Begun'
        BY <2>1, BegunKept
      <3>3. Threadwise(t)'
        BY <2>1, StartOK, PreviewOK, IoOK, TalkOK DEF Serve
      <3>4. \A u \in Threads : u # t => Threadwise(u)'
        BY <2>1, OthersKeep, ThreadwiseKept
      <3> QED
        BY <3>1, <3>2, <3>3, <3>4
    <2>2. ASSUME NEW w \in Workers, Work(w)
          PROVE  PipeInv'
      <3>1. UNCHANGED serviceVars
        BY <2>2 DEF Work, Take, Parse, LockOutlog, CheckQueue, MsgSnd, FreeHttpSession
      <3> QED
        BY <2>2, <3>1, WorkTyped, WorkerKeeps, ServiceKept
    <2>3. CASE Judge
      <3>1. UNCHANGED serviceVars /\ Begun'
        BY <2>3 DEF Judge, Begun, serviceVars
      <3> QED
        BY <2>3, <3>1, JudgeTyped, ServiceKept
    <2>4. CASE Restart
      <3>1. Begun'
        BY <2>4 DEF Restart, Forget, Reset, Begun
      <3>2. NoRequest.preview = 0 /\ NoBody.out = 0
        BY DEF NoRequest, NoBody
      <3>3. \A t \in Threads : /\ pc'[t] = "free" /\ att'[t] = "no_att"
                              /\ request'[t] = NoRequest /\ body'[t] = NoBody
        BY <2>4 DEF Restart, Forget, Reset
      <3>4. \A t \in Threads : Threadwise(t)'
        BY <3>2, <3>3 DEF Threadwise, GateShut, BodyFollows, Previewed
      <3> QED
        BY <2>4, <3>1, <3>4, RestartTyped
    <2>5. CASE UNCHANGED vars
      <3>1. TypeOK' /\ Begun' /\ UNCHANGED serviceVars
        BY <2>5 DEF vars, serviceVars, pipeVars, TypeOK, ServiceTypeOK, Begun
      <3> QED
        BY <3>1, ServiceKept
    <2> QED
      BY <2>1, <2>2, <2>3, <2>4, <2>5 DEF Next
  <1> QED
    BY <1>1, <1>2, PTL DEF Spec

\* While a request that uploads a file has had no verdict, or a bad one, no unit of its
\* body is handed back (echo_write_to_net), whatever the server, the clients and the
\* workers do.
THEOREM GateAlwaysHolds == Spec => []GateHolds
  <1>1. PipeInv => GateHolds
    <2> SUFFICES ASSUME PipeInv, NEW t \in Threads, att[t] # "no_att", body[t].out > 0
        PROVE  answer[t].msg = "y"
      BY DEF GateHolds
    <2>1. pc[t] \in {"free", "preview", "io", "put", "wait", "send", "release"}
      BY DEF PipeInv, TypeOK, ServiceTypeOK
    <2>2. GateShut(t) /\ body[t].out # 0
      BY DEF PipeInv, Threadwise
    <2> QED
      BY <2>1, <2>2 DEF GateShut
  <1> QED
    BY <1>1, PipelineCorrect, PTL

\* What a client has sent is what the service holds, and the end of a request that was let
\* through means that all of it has been handed back (echo_io).
THEOREM RequestsEndWhole == Spec => []EndsWhole
  <1>1. PipeInv => EndsWhole
    <2> SUFFICES ASSUME PipeInv, NEW t \in Threads, Previewed(t)
        PROVE  /\ pc[t] \in {"io", "put", "wait", "send"} => body[t].in = fed[t]
               /\ ended[t] /\ ~unset[t] =>
                     /\ fed[t] = request[t].size
                     /\ blocked[t] # "BLOCKED" => body[t].out = fed[t]
      BY DEF EndsWhole
    <2> QED
      BY DEF PipeInv, Threadwise, BodyFollows
  <1> QED
    BY <1>1, PipelineCorrect, PTL

(***************************************************************************)
(* A verdict reaches the request it is about, for any threads and workers, *)
(* until the server is restarted.                                          *)
(***************************************************************************)

\* The handler whose frame f is waits in it.
Live(f) == pc[f[1]] = "wait" /\ served[f[1]] = f[2]

\* Wherever a question is, the handler that asked it waits.
AskersWait ==
    /\ \A i \in DOMAIN ring : Live(ring[i])
    /\ \A w \in Workers : Asking(w) => Live(frame[w])
    /\ \A i \in DOMAIN toPolicy : Live(toPolicy[i])
    /\ \A t \in Threads : \A i \in DOMAIN verdicts[t] :
           pc[t] = "wait" /\ verdicts[t][i].about = <<t, served[t]>>

\* No place has two questions of one thread.
Alone ==
    /\ \A i, j \in DOMAIN ring : ring[i][1] = ring[j][1] => i = j
    /\ \A v, w \in Workers : Asking(v) /\ Asking(w) /\ frame[v][1] = frame[w][1] => v = w
    /\ \A i, j \in DOMAIN toPolicy : toPolicy[i][1] = toPolicy[j][1] => i = j
    /\ \A t \in Threads : Len(verdicts[t]) <= 1

\* No two places have questions of one thread.
Apart ==
    /\ \A i \in DOMAIN ring, w \in Workers : Asking(w) => ring[i][1] # frame[w][1]
    /\ \A i \in DOMAIN ring, j \in DOMAIN toPolicy : ring[i][1] # toPolicy[j][1]
    /\ \A i \in DOMAIN ring : verdicts[ring[i][1]] = <<>>
    /\ \A w \in Workers, j \in DOMAIN toPolicy : Asking(w) => frame[w][1] # toPolicy[j][1]
    /\ \A w \in Workers : Asking(w) => verdicts[frame[w][1]] = <<>>
    /\ \A j \in DOMAIN toPolicy : verdicts[toPolicy[j][1]] = <<>>

OwnAnswer == \A t \in Threads : answer[t] # NoAnswer => answer[t].about = <<t, served[t]>>

Questions == AskersWait /\ Alone /\ Apart /\ OwnAnswer

QuestionInv == restarts = 0 => Questions

-----------------------------------------------------------------------------
(* Steps of a thread that asks nothing and gets nothing *)

\* Types of the places where a question may be.
LEMMA Typed ==
  ASSUME PipeInv
  PROVE  /\ ring \in Seq(Frame) /\ \A i \in DOMAIN ring : ring[i] \in Frame
         /\ toPolicy \in Seq(Frame) /\ \A i \in DOMAIN toPolicy : toPolicy[i] \in Frame
         /\ \A w \in Workers : Asking(w) => frame[w] \in Frame
         /\ \A f \in Frame : f[1] \in Threads /\ f = <<f[1], f[2]>>
         /\ \A t \in Threads : verdicts[t] \in Seq(Verdict)
  BY DEF PipeInv, TypeOK, ServiceTypeOK, Begun, Asking, Frame

\* A thread's steps leave the frames of the others live.
LEMMA LiveKept ==
  ASSUME PipeInv, NEW t \in Threads, InitRequestData(t) \/ Serve(t),
         NEW f \in Frame, Live(f), f[1] # t
  PROVE  Live(f)'
  <1>1. f[1] \in Threads
    BY Typed
  <1>2. Of(f[1])' = Of(f[1])
    BY <1>1, OthersKeep DEF PipeInv
  <1> QED
    BY <1>2 DEF Of, Live

\* The actions of a thread but for those on the queues.
Aside(t) ==
    \/ InitRequestData(t) \/ CheckPreview(t) \/ Io(t) \/ IoBlocked(t) \/ IoError(t)
    \/ EndOfData(t) \/ PutInterrupted(t) \/ Release(t)

\* A thread that asks nothing is not waiting, and touches neither ring nor verdicts.
LEMMA AsideKeeps ==
  ASSUME PipeInv, NEW t \in Threads, Aside(t)
  PROVE  /\ pc[t] # "wait" /\ UNCHANGED <<ring, verdicts>>
         /\ answer'[t] = NoAnswer \/ (answer'[t] = answer[t] /\ served'[t] = served[t])
  <1> USE DEF PipeInv, TypeOK, ServiceTypeOK
  <1>1. CASE InitRequestData(t)
    BY <1>1 DEF InitRequestData
  <1>2. CASE CheckPreview(t)
    BY <1>2 DEF CheckPreview, NoHeaders, Allow204, ContinueWithoutPreview, Continue, NoBodyFile,
                Gate, Refuse
  <1>3. CASE Io(t) \/ IoBlocked(t) \/ IoError(t) \/ EndOfData(t) \/ PutInterrupted(t)
    BY <1>3 DEF Io, IoBlocked, IoError, Refuse, EndOfData, PutInterrupted
  <1>4. CASE Release(t)
    BY <1>4 DEF Release, Forget, Reset
  <1> QED
    BY <1>1, <1>2, <1>3, <1>4 DEF Aside

\* So it disturbs no question.
LEMMA AsideOK ==
  ASSUME PipeInv, Questions, NEW t \in Threads, Aside(t), UNCHANGED pipeVars
  PROVE  Questions'
  <1>1. /\ pc[t] # "wait" /\ UNCHANGED <<ring, verdicts>>
        /\ answer'[t] = NoAnswer \/ (answer'[t] = answer[t] /\ served'[t] = served[t])
    BY AsideKeeps
  <1>2. InitRequestData(t) \/ Serve(t)
    BY DEF Aside, Serve
  <1>3. UNCHANGED <<wpc, frame, toPolicy>>
    BY DEF pipeVars
  <1>4. \A f \in Frame : Live(f) => Live(f)'
    BY <1>1, <1>2, LiveKept DEF Live
  <1>5. \A u \in Threads : u # t =>
            pc'[u] = pc[u] /\ served'[u] = served[u] /\ answer'[u] = answer[u]
    BY <1>2, OthersKeep DEF Of, PipeInv
  <1>6. AskersWait'
    <2>1. \A i \in DOMAIN ring : Live(ring[i])'
      BY <1>1, <1>3, <1>4, Typed DEF Questions, AskersWait, Live
    <2>2. \A w \in Workers : Asking(w) => Live(frame[w])'
      BY <1>1, <1>3, <1>4, Typed DEF Questions, AskersWait, Live
    <2>3. \A i \in DOMAIN toPolicy : Live(toPolicy[i])'
      BY <1>1, <1>3, <1>4, Typed DEF Questions, AskersWait, Live
    <2>4. \A u \in Threads : \A i \in DOMAIN verdicts[u] :
              pc'[u] = "wait" /\ verdicts[u][i].about = <<u, served'[u]>>
      BY <1>1, <1>5 DEF Questions, AskersWait
    <2> QED
      BY <1>1, <1>3, <2>1, <2>2, <2>3, <2>4 DEF AskersWait, Asking, Live
  <1>7. Alone'
    BY <1>1, <1>3 DEF Questions, Alone, Asking
  <1>8. Apart'
    BY <1>1, <1>3 DEF Questions, Apart, Asking
  <1>9. OwnAnswer'
    BY <1>1, <1>5 DEF Questions, OwnAnswer
  <1> QED
    BY <1>6, <1>7, <1>8, <1>9 DEF Questions

-----------------------------------------------------------------------------
(* A thread asks and is answered *)

\* Of a thread that does not wait there is no question anywhere.
LEMMA NothingOf ==
  ASSUME PipeInv, Questions, NEW t \in Threads, pc[t] # "wait"
  PROVE  /\ \A i \in DOMAIN ring : ring[i][1] # t
         /\ \A w \in Workers : Asking(w) => frame[w][1] # t
         /\ \A i \in DOMAIN toPolicy : toPolicy[i][1] # t
         /\ verdicts[t] = <<>>
  <1>1. /\ \A i \in DOMAIN ring : ring[i][1] # t
        /\ \A w \in Workers : Asking(w) => frame[w][1] # t
        /\ \A i \in DOMAIN toPolicy : toPolicy[i][1] # t
    BY DEF Questions, AskersWait, Live
  <1>2. verdicts[t] \in Seq(Verdict) /\ \A i \in DOMAIN verdicts[t] : FALSE
    BY Typed DEF Questions, AskersWait
  <1>3. Len(verdicts[t]) \in Nat /\ DOMAIN verdicts[t] = 1..Len(verdicts[t])
    BY <1>2
  <1>4. Len(verdicts[t]) = 0
    BY <1>2, <1>3
  <1>5. verdicts[t] = <<>>
    BY <1>2, <1>4, EmptySeq
  <1> QED
    BY <1>1, <1>5

\* A thread may ask, as no question of its own is left over.
LEMMA PutOK ==
  ASSUME PipeInv, Questions, NEW t \in Threads, Put(t), UNCHANGED pipeVars
  PROVE  Questions'
  <1> DEFINE f == <<t, served[t]>>
             n == Len(ring) + 1
  <1>1. /\ pc[t] = "put" /\ pc'[t] = "wait"
        /\ ring' = Append(ring, f)
        /\ UNCHANGED <<served, answer, verdicts, wpc, frame, toPolicy>>
    BY DEF Put, Goto, pipeVars, PipeInv, TypeOK, ServiceTypeOK
  <1>2. f \in Frame
    BY <1>1 DEF PipeInv, Begun, Frame
  <1>3. /\ n \in Nat /\ DOMAIN ring = 1..(n - 1) /\ DOMAIN ring' = 1..n
        /\ \A i \in 1..(n - 1) : ring'[i] = ring[i]
        /\ ring'[n] = f
    BY <1>1, <1>2, Typed, AppendProperties
  <1>4. /\ \A i \in DOMAIN ring : ring[i][1] # t
        /\ \A w \in Workers : Asking(w) => frame[w][1] # t
        /\ \A i \in DOMAIN toPolicy : toPolicy[i][1] # t
        /\ verdicts[t] = <<>>
    BY <1>1, NothingOf
  <1>5. \A u \in Threads : u # t => pc'[u] = pc[u]
    BY DEF Put, Goto, PipeInv, TypeOK, ServiceTypeOK
  <1>6. \A g \in Frame : Live(g) => Live(g)'
    BY <1>1, <1>5, Typed DEF Live
  <1>7. pc'[f[1]] = "wait" /\ served'[f[1]] = f[2] /\ f[1] = t
    BY <1>1
  <1> HIDE DEF f, n
  <1>8. AskersWait'
    <2>1. \A i \in DOMAIN ring' : Live(ring[i])'
      BY <1>3, <1>6, <1>7, Typed DEF Questions, AskersWait, Live
    <2>2. \A w \in Workers : Asking(w)' => Live(frame[w])'
      BY <1>1, <1>6, Typed DEF Questions, AskersWait, Live, Asking
    <2>3. \A i \in DOMAIN toPolicy : Live(toPolicy[i])'
      BY <1>1, <1>6, Typed DEF Questions, AskersWait, Live
    <2>4. \A u \in Threads : \A i \in DOMAIN verdicts[u] :
              pc'[u] = "wait" /\ verdicts[u][i].about = <<u, served[u]>>
      BY <1>4, <1>5 DEF Questions, AskersWait
    <2> QED
      BY <1>1, <2>1, <2>2, <2>3, <2>4 DEF AskersWait
  <1>9. Alone'
    BY <1>1, <1>3, <1>4, <1>7 DEF Questions, Alone, Asking
  <1>10. Apart'
    BY <1>1, <1>3, <1>4, <1>7 DEF Questions, Apart, Asking
  <1>11. OwnAnswer'
    BY <1>1 DEF Questions, OwnAnswer
  <1> QED
    BY <1>8, <1>9, <1>10, <1>11 DEF Questions

\* The answer taken is the only one there, and about the request that waits.
LEMMA ReceiveOK ==
  ASSUME PipeInv, Questions, NEW t \in Threads, Receive(t), UNCHANGED pipeVars
  PROVE  Questions'
  <1>1. /\ verdicts[t] # <<>> /\ answer'[t] = Head(verdicts[t])
        /\ verdicts'[t] = Tail(verdicts[t])
        /\ UNCHANGED <<served, ring, wpc, frame, toPolicy>>
        /\ \A u \in Threads : u # t =>
               pc'[u] = pc[u] /\ answer'[u] = answer[u] /\ verdicts'[u] = verdicts[u]
    BY DEF Receive, Goto, pipeVars, dataVars, PipeInv, TypeOK, ServiceTypeOK
  <1>2. /\ verdicts'[t] = <<>>
        /\ answer'[t].about = <<t, served[t]>>
    <2>1. verdicts[t] \in Seq(Verdict)
      BY Typed
    <2>2. Len(verdicts[t]) \in Nat /\ DOMAIN verdicts[t] = 1..Len(verdicts[t])
      BY <2>1
    <2>3. Len(verdicts[t]) <= 1
      BY DEF Questions, Alone
    <2>4. Len(verdicts[t]) # 0
      BY <1>1, <2>1, EmptySeq
    <2>5. Len(verdicts[t]) = 1
      <3>1. \A m \in Nat : m <= 1 /\ m # 0 => m = 1
        OBVIOUS
      <3> QED
        BY <2>2, <2>3, <2>4, <3>1
    <2>6. Head(verdicts[t]) = verdicts[t][1]
      BY <2>1, <2>5
    <2>7. Tail(verdicts[t]) \in Seq(Verdict) /\ Len(Tail(verdicts[t])) = 0
      BY <1>1, <2>1, <2>5, HeadTailProperties
    <2>8. Tail(verdicts[t]) = <<>>
      BY <2>7, EmptySeq
    <2>9. 1 \in DOMAIN verdicts[t]
      BY <2>2, <2>5
    <2> QED
      BY <1>1, <2>6, <2>8, <2>9 DEF Questions, AskersWait
  <1>3. /\ \A i \in DOMAIN ring : ring[i][1] # t
        /\ \A w \in Workers : Asking(w) => frame[w][1] # t
        /\ \A i \in DOMAIN toPolicy : toPolicy[i][1] # t
    BY <1>1 DEF Questions, Apart
  <1>4. \A f \in Frame : Live(f) /\ f[1] # t => Live(f)'
    BY <1>1, Typed DEF Live
  <1>5. AskersWait'
    <2>1. \A i \in DOMAIN ring : Live(ring[i])'
      BY <1>1, <1>3, <1>4, Typed DEF Questions, AskersWait, Live
    <2>2. \A w \in Workers : Asking(w) => Live(frame[w])'
      BY <1>1, <1>3, <1>4, Typed DEF Questions, AskersWait, Live
    <2>3. \A i \in DOMAIN toPolicy : Live(toPolicy[i])'
      BY <1>1, <1>3, <1>4, Typed DEF Questions, AskersWait, Live
    <2>4. \A u \in Threads : \A i \in DOMAIN verdicts'[u] :
              pc'[u] = "wait" /\ verdicts'[u][i].about = <<u, served[u]>>
      BY <1>1, <1>2 DEF Questions, AskersWait
    <2> QED
      BY <1>1, <2>1, <2>2, <2>3, <2>4 DEF AskersWait, Asking
  <1>6. Alone'
    BY <1>1, <1>2 DEF Questions, Alone, Asking
  <1>7. Apart'
    <2>1. \A f \in Frame : verdicts[f[1]] = <<>> => verdicts'[f[1]] = <<>>
      BY <1>1, <1>2, Typed
    <2> QED
      BY <1>1, <2>1, Typed DEF Questions, Apart, Asking
  <1>8. OwnAnswer'
    BY <1>1, <1>2 DEF Questions, OwnAnswer
  <1> QED
    BY <1>5, <1>6, <1>7, <1>8 DEF Questions

-----------------------------------------------------------------------------
(* The workers and the matcher *)

\* A worker takes the question out of the ring.
LEMMA TakeOK ==
  ASSUME PipeInv, Questions, NEW w \in Workers, Take(w)
  PROVE  Questions'
  <1> DEFINE n == Len(ring)
  <1>1. /\ ring # <<>> /\ ring' = Tail(ring)
        /\ ~Asking(w) /\ Asking(w)' /\ frame'[w] = Head(ring)
        /\ \A v \in Workers : v # w => (Asking(v)' <=> Asking(v)) /\ frame'[v] = frame[v]
        /\ UNCHANGED <<pc, served, answer, verdicts, toPolicy>>
    BY DEF Take, WGoto, Asking, serviceVars, PipeInv, TypeOK
  <1>2. /\ n \in Nat /\ n > 0 /\ DOMAIN ring = 1..n /\ DOMAIN ring' = 1..(n - 1)
        /\ \A i \in 1..(n - 1) : ring'[i] = ring[i + 1]
        /\ frame'[w] = ring[1]
    <2>1. ring \in Seq(Frame)
      BY Typed
    <2>2. n \in Nat /\ n # 0 /\ DOMAIN ring = 1..n
      BY <1>1, <2>1, EmptySeq
    <2>3. Tail(ring) \in Seq(Frame) /\ Len(Tail(ring)) = n - 1
          /\ \A i \in 1..Len(Tail(ring)) : Tail(ring)[i] = ring[i + 1]
      BY <1>1, <2>1, HeadTailProperties
    <2>4. DOMAIN Tail(ring) = 1..(n - 1)
      BY <2>3
    <2>5. Head(ring) = ring[1]
      BY <1>1, <2>1
    <2> QED
      BY <1>1, <2>2, <2>3, <2>4, <2>5
  <1> HIDE DEF n
  <1>3. /\ 1 \in DOMAIN ring
        /\ \A i \in 1..(n - 1) : i + 1 \in DOMAIN ring /\ i + 1 # 1
        /\ \A i, j \in 1..(n - 1) : i + 1 = j + 1 => i = j
    BY <1>2
  <1>4. AskersWait'
    BY <1>1, <1>2, <1>3 DEF Questions, AskersWait, Live
  <1>5. Alone'
    <2>1. \A i, j \in DOMAIN ring' : ring'[i][1] = ring'[j][1] => i = j
      BY <1>2, <1>3, SMTT(60) DEF Questions, Alone
    <2>2. \A v \in Workers : Asking(v) => frame[v][1] # ring[1][1]
      BY <1>3 DEF Questions, Apart
    <2>3. \A u, v \in Workers : Asking(u)' /\ Asking(v)' /\ frame'[u][1] = frame'[v][1] => u = v
      BY <1>1, <1>2, <2>2 DEF Questions, Alone
    <2> QED
      BY <1>1, <2>1, <2>3 DEF Questions, Alone
  <1>6. Apart'
    <2>1. \A i \in DOMAIN ring', v \in Workers : Asking(v)' => ring'[i][1] # frame'[v][1]
      BY <1>1, <1>2, <1>3 DEF Questions, Apart, Alone
    <2> QED
      BY <1>1, <1>2, <1>3, <2>1 DEF Questions, Apart
  <1>7. OwnAnswer'
    BY <1>1 DEF Questions, OwnAnswer
  <1> QED
    BY <1>4, <1>5, <1>6, <1>7 DEF Questions

\* A worker that keeps or drops its question brings none into being.
LEMMA WorkAsideOK ==
  ASSUME PipeInv, Questions, NEW w \in Workers,
         Parse(w) \/ LockOutlog(w) \/ CheckQueue(w) \/ FreeHttpSession(w)
  PROVE  Questions'
  <1>1. /\ UNCHANGED <<pc, served, answer, ring, verdicts, toPolicy>>
        /\ \A v \in Workers : Asking(v)' => Asking(v) /\ frame'[v] = frame[v]
    BY DEF Parse, LockOutlog, CheckQueue, FreeHttpSession, Unlock, WGoto, Asking, serviceVars,
           PipeInv, TypeOK
  <1> QED
    BY <1>1 DEF Questions, AskersWait, Live, Alone, Apart, OwnAnswer

\* The question moves from the worker to the queue.
LEMMA MsgSndOK ==
  ASSUME PipeInv, Questions, NEW w \in Workers, MsgSnd(w)
  PROVE  Questions'
  <1> DEFINE f == frame[w]
             n == Len(toPolicy) + 1
  <1>1. /\ Asking(w) /\ ~Asking(w)'
        /\ \A v \in Workers : Asking(v)' => Asking(v) /\ v # w
        /\ toPolicy' = Append(toPolicy, f)
        /\ UNCHANGED <<pc, served, answer, ring, verdicts, frame>>
    BY DEF MsgSnd, Unlock, WGoto, Asking, serviceVars, PipeInv, TypeOK
  <1>2. f \in Frame
    BY <1>1, Typed
  <1>3. /\ n \in Nat /\ DOMAIN toPolicy = 1..(n - 1) /\ DOMAIN toPolicy' = 1..n
        /\ \A i \in 1..(n - 1) : toPolicy'[i] = toPolicy[i]
        /\ toPolicy'[n] = f
    BY <1>1, <1>2, Typed, AppendProperties
  <1>4. /\ Live(f)
        /\ \A i \in DOMAIN ring : ring[i][1] # f[1]
        /\ \A v \in Workers : Asking(v) /\ v # w => frame[v][1] # f[1]
        /\ \A i \in DOMAIN toPolicy : toPolicy[i][1] # f[1]
        /\ verdicts[f[1]] = <<>>
    BY <1>1 DEF Questions, AskersWait, Alone, Apart
  <1> HIDE DEF f, n
  <1>5. AskersWait'
    BY <1>1, <1>3, <1>4 DEF Questions, AskersWait, Live
  <1>6. Alone'
    BY <1>1, <1>3, <1>4 DEF Questions, Alone
  <1>7. Apart'
    BY <1>1, <1>3, <1>4 DEF Questions, Apart
  <1>8. OwnAnswer'
    BY <1>1 DEF Questions, OwnAnswer
  <1> QED
    BY <1>5, <1>6, <1>7, <1>8 DEF Questions

\* The question moves from the queue to its thread's verdicts.
LEMMA JudgeOK ==
  ASSUME PipeInv, Questions, Judge
  PROVE  Questions'
  <1> DEFINE f == Head(toPolicy)
             n == Len(toPolicy)
  <1>1. /\ toPolicy # <<>> /\ toPolicy' = Tail(toPolicy)
        /\ UNCHANGED <<pc, served, answer, ring, wpc, frame>>
    BY DEF Judge, serviceVars
  <1>2. /\ n \in Nat /\ n > 0 /\ DOMAIN toPolicy = 1..n /\ DOMAIN toPolicy' = 1..(n - 1)
        /\ \A i \in 1..(n - 1) : toPolicy'[i] = toPolicy[i + 1]
        /\ f = toPolicy[1]
    <2>1. toPolicy \in Seq(Frame)
      BY Typed
    <2>2. n \in Nat /\ n # 0 /\ DOMAIN toPolicy = 1..n
      BY <1>1, <2>1, EmptySeq
    <2>3. Tail(toPolicy) \in Seq(Frame) /\ Len(Tail(toPolicy)) = n - 1
          /\ \A i \in 1..Len(Tail(toPolicy)) : Tail(toPolicy)[i] = toPolicy[i + 1]
      BY <1>1, <2>1, HeadTailProperties
    <2>4. DOMAIN Tail(toPolicy) = 1..(n - 1)
      BY <2>3
    <2>5. Head(toPolicy) = toPolicy[1]
      BY <1>1, <2>1
    <2> QED
      BY <1>1, <2>2, <2>3, <2>4, <2>5
  <1>3. PICK m \in {"y", "n"} :
            verdicts' = [verdicts EXCEPT ![f[1]] = Append(@, [about |-> f, msg |-> m])]
    BY DEF Judge
  <1> DEFINE v == [about |-> f, msg |-> m]
  <1> HIDE DEF f, n
  <1>4. /\ 1 \in DOMAIN toPolicy
        /\ \A i \in 1..(n - 1) : i + 1 \in DOMAIN toPolicy /\ i + 1 # 1
        /\ \A i, j \in 1..(n - 1) : i + 1 = j + 1 => i = j
    BY <1>2
  <1>5. f \in Frame /\ f[1] \in Threads /\ Live(f) /\ f = <<f[1], f[2]>>
    BY <1>2, <1>4, Typed DEF Questions, AskersWait
  <1>6. /\ verdicts'[f[1]] = <<v>> /\ v.about = f
        /\ \A t \in Threads : t # f[1] => verdicts'[t] = verdicts[t]
    <2>1. verdicts[f[1]] = <<>>
      BY <1>2, <1>4 DEF Questions, Apart
    <2>2. Append(<<>>, v) = <<v>>
      OBVIOUS
    <2> QED
      BY <1>3, <1>5, <2>1, <2>2 DEF PipeInv, TypeOK, ServiceTypeOK
  <1> HIDE DEF v
  <1>7. /\ \A i \in DOMAIN ring : ring[i][1] # f[1]
        /\ \A w \in Workers : Asking(w) => frame[w][1] # f[1]
        /\ \A i \in 1..(n - 1) : toPolicy[i + 1][1] # f[1]
    BY <1>2, <1>4 DEF Questions, Alone, Apart
  <1>8. \A g \in Frame : g[1] # f[1] => verdicts'[g[1]] = verdicts[g[1]]
    BY <1>6, Typed
  <1>9. DOMAIN <<v>> = {1} /\ <<v>>[1] = v /\ Len(<<v>>) = 1
    OBVIOUS
  <1>10. AskersWait'
    <2>1. \A i \in DOMAIN toPolicy' : Live(toPolicy[i])'
      BY <1>1, <1>2, <1>4 DEF Questions, AskersWait, Live
    <2>2. \A t \in Threads : \A i \in DOMAIN verdicts'[t] :
              pc[t] = "wait" /\ verdicts'[t][i].about = <<t, served[t]>>
      <3> SUFFICES ASSUME NEW t \in Threads, NEW i \in DOMAIN verdicts'[t]
          PROVE  pc[t] = "wait" /\ verdicts'[t][i].about = <<t, served[t]>>
        OBVIOUS
      <3>1. CASE t = f[1]
        <4>1. i = 1 /\ verdicts'[t][i] = v
          BY <1>6, <1>9, <3>1
        <4> QED
          BY <1>5, <1>6, <3>1, <4>1 DEF Live
      <3>2. CASE t # f[1]
        BY <1>6, <3>2 DEF Questions, AskersWait
      <3> QED
        BY <3>1, <3>2
    <2> QED
      BY <1>1, <2>1, <2>2 DEF Questions, AskersWait, Live, Asking
  <1>11. Alone'
    <2>1. \A t \in Threads : Len(verdicts'[t]) <= 1
      <3> SUFFICES ASSUME NEW t \in Threads PROVE Len(verdicts'[t]) <= 1
        OBVIOUS
      <3>1. CASE t = f[1]
        <4>1. Len(verdicts'[t]) = 1
          BY <1>6, <1>9, <3>1
        <4>2. 1 <= 1
          OBVIOUS
        <4> QED
          BY <4>1, <4>2
      <3>2. CASE t # f[1]
        <4>1. verdicts'[t] = verdicts[t]
          BY <1>6, <3>2
        <4> QED
          BY <4>1 DEF Questions, Alone
      <3> QED
        BY <3>1, <3>2
    <2> QED
      BY <1>1, <1>2, <1>4, <2>1 DEF Questions, Alone, Asking
  <1>12. Apart'
    <2>1. /\ \A i \in DOMAIN ring : verdicts'[ring[i][1]] = <<>>
          /\ \A w \in Workers : Asking(w) => verdicts'[frame[w][1]] = <<>>
      BY <1>7, <1>8, Typed DEF Questions, Apart
    <2>2. \A i \in 1..(n - 1) : verdicts'[toPolicy[i + 1][1]] = <<>>
      BY <1>4, <1>7, <1>8, Typed DEF Questions, Apart
    <2>3. /\ \A i \in DOMAIN ring, j \in 1..(n - 1) : ring[i][1] # toPolicy[j + 1][1]
          /\ \A w \in Workers, j \in 1..(n - 1) : Asking(w) => frame[w][1] # toPolicy[j + 1][1]
      BY <1>4 DEF Questions, Apart
    <2> QED
      BY <1>1, <1>2, <2>1, <2>2, <2>3 DEF Questions, Apart, Asking
  <1>13. OwnAnswer'
    BY <1>1 DEF Questions, OwnAnswer
  <1> QED
    BY <1>10, <1>11, <1>12, <1>13 DEF Questions

-----------------------------------------------------------------------------

\* Until the first restart every question is in one place, and its asker waits.
THEOREM QuestionsKept == Spec => [](PipeInv /\ QuestionInv)
  <1>1. Init => QuestionInv
    <2> SUFFICES ASSUME Init PROVE Questions
      BY DEF QuestionInv
    <2>1. ring = <<>> /\ toPolicy = <<>> /\ \A t \in Threads : verdicts[t] = <<>>
      BY DEF Init, ServiceInit
    <2>2. /\ \A w \in Workers : ~Asking(w)
          /\ \A t \in Threads : answer[t] = NoAnswer
      BY DEF Init, ServiceInit, Asking
    <2>3. AskersWait
      BY <2>1, <2>2 DEF AskersWait
    <2>4. Alone /\ Apart
      BY <2>1, <2>2 DEF Alone, Apart
    <2> QED
      BY <2>2, <2>3, <2>4 DEF Questions, OwnAnswer
  <1>2. PipeInv /\ QuestionInv /\ [Next]_vars => QuestionInv'
    <2> SUFFICES ASSUME PipeInv, QuestionInv, [Next]_vars, restarts' = 0 PROVE Questions'
      BY DEF QuestionInv
    <2>1. ASSUME NEW t \in Threads, InitRequestData(t) \/ Serve(t), UNCHANGED pipeVars
          PROVE  Questions'
      <3>1. Questions
        BY <2>1 DEF QuestionInv, pipeVars
      <3>2. Aside(t) \/ Put(t) \/ Receive(t)
        BY <2>1 DEF Serve, Aside
      <3> QED
        BY <2>1, <3>1, <3>2, AsideOK, PutOK, ReceiveOK
    <2>2. ASSUME NEW w \in Workers, Work(w)
          PROVE  Questions'
      <3>1. Questions
        BY <2>2 DEF QuestionInv, Work, Take, Parse, LockOutlog, CheckQueue, MsgSnd, FreeHttpSession
      <3> QED
        BY <2>2, <3>1, TakeOK, WorkAsideOK, MsgSndOK DEF Work
    <2>3. CASE Judge
      <3>1. Questions
        BY <2>3 DEF QuestionInv, Judge
      <3> QED
        BY <2>3, <3>1, JudgeOK
    <2>4. CASE Restart
      BY <2>4 DEF Restart, PipeInv, TypeOK
    <2>5. CASE UNCHANGED vars
      BY <2>5 DEF QuestionInv, vars, serviceVars, pipeVars, Questions, AskersWait, Live, Alone, Apart,
                  OwnAnswer, Asking
    <2> QED
      BY <2>1, <2>2, <2>3, <2>4, <2>5 DEF Next
  <1> QED
    BY <1>1, <1>2, PipelineCorrect, PTL DEF Spec

\* A set whose members are all equal has at most one.
LEMMA AloneSize ==
  ASSUME NEW S, \A x, y \in S : x = y
  PROVE  Cardinality(S) = IF S = {} THEN 0 ELSE 1
  <1>1. CASE S = {}
    BY <1>1, FS_EmptySet
  <1>2. CASE S # {}
    <2>1. PICK x \in S : S = {x}
      BY <1>2
    <2> QED
      BY <2>1, FS_Singleton
  <1> QED
    BY <1>1, <1>2

\* A thread that waits has one question under way at most, others have none.
LEMMA OnePlace ==
  ASSUME PipeInv, Questions
  PROVE  OneQuestion
  <1> SUFFICES ASSUME NEW t \in Threads
      PROVE  /\ Places(t) <= IF pc[t] = "wait" THEN 1 ELSE 0
             /\ \A i \in InRing(t) : ring[i] = <<t, served[t]>>
             /\ \A w \in InWork(t) : frame[w] = <<t, served[t]>>
             /\ \A i \in InPolicy(t) : toPolicy[i] = <<t, served[t]>>
             /\ \A i \in InVerdicts(t) : verdicts[t][i].about = <<t, served[t]>>
    BY DEF OneQuestion
  <1>1. \A f \in Frame : Live(f) /\ f[1] = t => f = <<t, served[t]>> /\ pc[t] = "wait"
    BY Typed DEF Live
  <1>2. /\ \A i \in InRing(t) : ring[i] = <<t, served[t]>>
        /\ \A w \in InWork(t) : frame[w] = <<t, served[t]>>
        /\ \A i \in InPolicy(t) : toPolicy[i] = <<t, served[t]>>
        /\ \A i \in InVerdicts(t) : verdicts[t][i].about = <<t, served[t]>>
    BY <1>1, Typed DEF Questions, AskersWait, InRing, InWork, InPolicy, InVerdicts
  <1>3. pc[t] # "wait" => InRing(t) = {} /\ InWork(t) = {} /\ InPolicy(t) = {} /\ InVerdicts(t) = {}
    BY <1>1, Typed DEF Questions, AskersWait, InRing, InWork, InPolicy, InVerdicts
  <1>4. \A i, j \in InVerdicts(t) : i = j
    <2>1. Len(verdicts[t]) \in Nat /\ DOMAIN verdicts[t] = 1..Len(verdicts[t])
      BY Typed
    <2>2. Len(verdicts[t]) <= 1
      BY DEF Questions, Alone
    <2> QED
      BY <2>1, <2>2 DEF InVerdicts
  <1>5. /\ \A i, j \in InRing(t) : i = j
        /\ \A v, w \in InWork(t) : v = w
        /\ \A i, j \in InPolicy(t) : i = j
    BY DEF Questions, Alone, InRing, InWork, InPolicy
  <1>6. /\ InRing(t) # {} => InWork(t) = {} /\ InPolicy(t) = {} /\ verdicts[t] = <<>>
        /\ InWork(t) # {} => InPolicy(t) = {} /\ verdicts[t] = <<>>
        /\ InPolicy(t) # {} => verdicts[t] = <<>>
    BY DEF Questions, Apart, InRing, InWork, InPolicy
  <1>7. verdicts[t] = <<>> => InVerdicts(t) = {}
    BY DEF InVerdicts
  <1>8. /\ Cardinality(InRing(t)) = IF InRing(t) = {} THEN 0 ELSE 1
        /\ Cardinality(InWork(t)) = IF InWork(t) = {} THEN 0 ELSE 1
        /\ Cardinality(InPolicy(t)) = IF InPolicy(t) = {} THEN 0 ELSE 1
        /\ Cardinality(InVerdicts(t)) = IF InVerdicts(t) = {} THEN 0 ELSE 1
    BY <1>4, <1>5, AloneSize
  <1>9. Places(t) <= IF pc[t] = "wait" THEN 1 ELSE 0
    BY <1>3, <1>6, <1>7, <1>8 DEF Places
  <1> QED
    BY <1>2, <1>9

\* The verdict a handler takes is the one on the request it serves, as no thread has two
\* questions under way (echo_end_of_data_handler waits; recv_msg_from_policy).
THEOREM VerdictIsOwn == Spec => []OwnVerdict
  <1>1. PipeInv /\ QuestionInv => OwnVerdict
    BY OnePlace DEF PipeInv, QuestionInv, Questions, OwnAnswer, OwnVerdict
  <1> QED
    BY <1>1, QuestionsKept, PTL

\* The frame a worker reads is that of a handler that waits in it (webmail_mail follows the
\* node into the stack of echo_end_of_data_handler).
THEOREM FrameIsLive == Spec => []ReadsLiveFrame
  <1>1. QuestionInv => ReadsLiveFrame
    BY DEF QuestionInv, Questions, AskersWait, Live, ReadsLiveFrame
  <1> QED
    BY <1>1, QuestionsKept, PTL

-----------------------------------------------------------------------------
(***************************************************************************)
(* The packet ring, for any pool, any length, any packets and signals.     *)
(***************************************************************************)

PacketSlots == 0..(PacketQlength - 1)
Wrap(i) == IF i < PacketQlength THEN i ELSE i - PacketQlength

\* What is counted of the two threads.
PutBusy == IF putter.at = "idle" THEN 0 ELSE 1
PutDone == IF putter.at = "post" THEN 1 ELSE 0
GetBusy == IF getter = "idle" THEN 0 ELSE 1
GetDue  == IF getter = "take" THEN 1 ELSE 0

\* The types; between rbuff_destroy and rbuff_create no call is on its way.
QueueTypes ==
    /\ rbuff = [base |-> rbuff.base, head |-> rbuff.head, tail |-> rbuff.tail,
               empty |-> rbuff.empty, full |-> rbuff.full, lost |-> rbuff.lost]
    /\ putter \in [at : {"idle", "fill", "post"}, next : Nat, caplen : Nat]
    /\ getter \in {"idle", "take", "post"}
    /\ put \in Seq(Nat) /\ got \in Seq(Nat)
    /\ ~Made => putter.at = "idle" /\ getter = "idle"
    /\ Made => /\ rbuff.head \in PacketSlots /\ rbuff.tail \in PacketSlots
               /\ rbuff.empty \in Nat /\ rbuff.full \in Nat /\ rbuff.lost \in Nat
               /\ rbuff.base = [i \in PacketSlots |-> rbuff.base[i]]
               /\ \A i \in PacketSlots :
                     /\ rbuff.base[i] = [data |-> rbuff.base[i].data, caplen |-> rbuff.base[i].caplen,
                                        packet |-> rbuff.base[i].packet]
                     /\ rbuff.base[i].packet \in Nat

\* The packets in slots: those put and not taken, and the one that is not announced yet.
InSlots == Len(put) + PutDone - Len(got)
PacketAt(n) == IF n <= Len(put) THEN put[n] ELSE putter.next

\* A post of full_buffer stands for each packet put and not taken, and each slot is free,
\* announced, lost or in the hands of a call.
Tokens ==
    Made => /\ rbuff.full + GetDue = Len(put) - Len(got)
            /\ rbuff.empty + rbuff.full + rbuff.lost + PutBusy + GetBusy = PacketQlength

\* The packets in slots stand from the head on up to the tail, each in a block.
PacketsFromHead ==
    Made => /\ rbuff.tail = Wrap(rbuff.head + InSlots)
            /\ \A i \in 1..InSlots : /\ rbuff.base[Wrap(rbuff.head + (i - 1))].data # NoBlock
                                     /\ rbuff.base[Wrap(rbuff.head + (i - 1))].packet = PacketAt(Len(got) + i)

InTurns == Made => \A i \in 1..Len(got) : got[i] = put[i]

QueueInv == QueueTypes /\ Tokens /\ PacketsFromHead /\ InTurns

\* Places less than a ring apart are different slots, and the cursors go from one to the next.
LEMMA PacketWraps ==
    /\ \A x \in 0..(2 * PacketQlength - 1) : Wrap(x) \in PacketSlots
    /\ \A x \in 0..(2 * PacketQlength - 2) : After(Wrap(x)) = Wrap(x + 1)
    /\ \A x \in 0..(2 * PacketQlength - 1) : Wrap(x) = x % PacketQlength
    /\ \A h \in PacketSlots, i, j \in 0..(PacketQlength - 1) : i # j => Wrap(h + i) # Wrap(h + j)
    /\ \A h \in PacketSlots : Wrap(h) = h
  <1>0. PacketQlength \in Nat /\ PacketQlength > 0
    BY PacketQueueAssumption
  <1>1. \A x \in 0..(2 * PacketQlength - 1) : Wrap(x) \in PacketSlots
    BY <1>0 DEF Wrap, PacketSlots
  <1>2. \A x \in 0..(2 * PacketQlength - 2) : After(Wrap(x)) = Wrap(x + 1)
    BY <1>0 DEF Wrap, After
  <1>3. ASSUME NEW x \in 0..(2 * PacketQlength - 1) PROVE Wrap(x) = x % PacketQlength
    BY <1>0 DEF Wrap
  <1>4. \A h \in PacketSlots, i, j \in 0..(PacketQlength - 1) : i # j => Wrap(h + i) # Wrap(h + j)
    BY <1>0 DEF Wrap, PacketSlots
  <1>5. \A h \in PacketSlots : Wrap(h) = h
    BY <1>0 DEF Wrap, PacketSlots
  <1> QED
    BY <1>1, <1>2, <1>3, <1>4, <1>5

\* What the posts that are out say of the packets in slots: one is in the hands of whoever
\* took the post for it, and the ring has room for one more while a call fills a slot.
LEMMA InSlotsCounted ==
    ASSUME QueueTypes, Tokens, Made
    PROVE  /\ Len(put) \in Nat /\ Len(got) \in Nat /\ InSlots \in Nat /\ InSlots <= PacketQlength
           /\ InSlots = rbuff.full + GetDue + PutDone
           /\ putter.at # "post" => InSlots = Len(put) - Len(got)
           /\ putter.at = "fill" => InSlots < PacketQlength
           /\ getter = "take" => InSlots > 0 /\ Len(got) < Len(put)
           /\ Len(got) <= Len(put)
  <1>1. /\ Len(put) \in Nat /\ Len(got) \in Nat /\ PacketQlength \in Nat
        /\ rbuff.full \in Nat /\ rbuff.empty \in Nat /\ rbuff.lost \in Nat
        /\ putter.at \in {"idle", "fill", "post"} /\ getter \in {"idle", "take", "post"}
    BY PacketQueueAssumption DEF QueueTypes
  <1>2. /\ rbuff.full + GetDue = Len(put) - Len(got)
        /\ rbuff.empty + rbuff.full + rbuff.lost + PutBusy + GetBusy = PacketQlength
    BY DEF Tokens
  <1>3. GetDue \in {0, 1} /\ PutDone \in {0, 1} /\ GetBusy \in {0, 1} /\ PutBusy \in {0, 1}
        /\ GetDue <= GetBusy /\ PutDone <= PutBusy
        /\ (putter.at = "post" <=> PutDone = 1) /\ (putter.at = "fill" => PutBusy = 1 /\ PutDone = 0)
        /\ (getter = "take" => GetDue = 1)
    BY <1>1 DEF GetDue, PutDone, GetBusy, PutBusy
  <1>4. /\ InSlots = rbuff.full + GetDue + PutDone /\ InSlots \in Nat /\ Len(got) <= Len(put)
        /\ InSlots + PutBusy - PutDone <= PacketQlength
    <2>1. PICK pb \in {0, 1}, pd \in {0, 1}, gb \in {0, 1}, gd \in {0, 1} :
             pb = PutBusy /\ pd = PutDone /\ gb = GetBusy /\ gd = GetDue
      BY <1>3
    <2>2. PICK p \in Nat, g \in Nat, q \in Nat, e \in Nat, f \in Nat, l \in Nat :
             /\ p = Len(put) /\ g = Len(got) /\ q = PacketQlength
             /\ e = rbuff.empty /\ f = rbuff.full /\ l = rbuff.lost
      BY <1>1
    <2>3. f + gd = p - g /\ e + f + l + pb + gb = q /\ gd <= gb /\ pd <= pb
      BY <1>2, <1>3, <2>1, <2>2
    <2>4. /\ p + pd - g = f + gd + pd /\ p + pd - g \in Nat /\ g <= p
          /\ p + pd - g + pb - pd <= q
      BY <2>3
    <2> QED
      BY <2>1, <2>2, <2>4 DEF InSlots
  <1>5. InSlots \in Nat /\ Len(got) <= Len(put)
    BY <1>4
  <1>6. InSlots + PutBusy - PutDone <= PacketQlength
    BY <1>4
  <1>7. InSlots <= PacketQlength
    BY <1>1, <1>3, <1>5, <1>6
  <1>8. putter.at # "post" => InSlots = Len(put) - Len(got)
    BY <1>1, <1>3 DEF InSlots
  <1>9. putter.at = "fill" => InSlots < PacketQlength
    BY <1>1, <1>3, <1>5, <1>6
  <1>10. ASSUME getter = "take" PROVE InSlots > 0 /\ Len(got) < Len(put)
    <2>1. GetDue = 1 /\ (PutDone = 0 \/ PutDone = 1)
      BY <1>3, <1>10
    <2>2. rbuff.full + 1 = Len(put) - Len(got)
      BY <1>2, <2>1
    <2>3. InSlots = rbuff.full + 1 + PutDone
      BY <1>4, <2>1
    <2>4. InSlots > 0
      BY <1>1, <2>1, <2>3
    <2> QED
      BY <1>1, <2>2, <2>4
  <1> QED
    BY <1>1, <1>4, <1>5, <1>7, <1>8, <1>9, <1>10

\* No ring is made yet.
LEMMA QueueStarts == InitQueue => QueueInv
  <1> SUFFICES ASSUME InitQueue PROVE QueueInv
    OBVIOUS
  <1>1. ~Made
    BY DEF InitQueue, Made, NoRing
  <1>2. QueueTypes
    BY <1>1 DEF InitQueue, QueueTypes, NoRing
  <1> QED
    BY <1>1, <1>2 DEF QueueInv, Tokens, PacketsFromHead, InTurns

\* The steps, one by one.
LEMMA CreateKeeps == QueueInv /\ Create => QueueInv'
  <1> SUFFICES ASSUME QueueInv, Create PROVE QueueInv'
    OBVIOUS
  <1>0. PacketQlength \in Nat /\ PacketQlength > 0
    BY PacketQueueAssumption
  <1>1. /\ rbuff' = [base |-> [i \in PacketSlots |-> Slot], head |-> 0, tail |-> 0,
                    empty |-> PacketQlength, full |-> 0, lost |-> 0]
        /\ put' = <<>> /\ got' = <<>> /\ putter' = putter /\ getter' = getter
        /\ putter.at = "idle" /\ getter = "idle"
    BY DEF Create, NoRing, PacketSlots
  <1>2. Len(put') = 0 /\ Len(got') = 0
    BY <1>1
  <1>3. QueueTypes'
    <2>1. \A i \in PacketSlots : rbuff'.base[i] = Slot
      BY <1>1
    <2>2. rbuff'.base = [i \in PacketSlots |-> rbuff'.base[i]]
      BY <1>1
    <2>3. 0 \in PacketSlots
      BY <1>0 DEF PacketSlots
    <2> QED
      BY <1>0, <1>1, <2>1, <2>2, <2>3 DEF QueueInv, QueueTypes, Slot
  <1>4. Tokens'
    BY <1>0, <1>1, <1>2 DEF Tokens, GetDue, GetBusy, PutBusy
  <1>5. InSlots' = 0
    BY <1>1, <1>2 DEF InSlots, PutDone
  <1>6. PacketsFromHead'
    BY <1>0, <1>1, <1>5 DEF PacketsFromHead, Wrap
  <1>7. InTurns'
    BY <1>1, <1>2 DEF InTurns
  <1> QED
    BY <1>3, <1>4, <1>6, <1>7 DEF QueueInv

\* A call that waited for a slot has it.
LEMMA PutWaitKeeps == ASSUME NEW caplen \in Caplens, QueueInv, PutWait(caplen) PROVE QueueInv'
  <1>0. caplen \in Nat
    BY PacketQueueAssumption
  <1>1. /\ rbuff' = [rbuff EXCEPT !.empty = @ - 1] /\ rbuff.empty > 0
        /\ putter' = [putter EXCEPT !.at = "fill", !.caplen = caplen]
        /\ getter' = getter /\ put' = put /\ got' = got /\ putter.at = "idle" /\ Made
    BY DEF PutWait
  <1>2. /\ rbuff'.base = rbuff.base /\ rbuff'.head = rbuff.head /\ rbuff'.tail = rbuff.tail
        /\ rbuff'.empty = rbuff.empty - 1 /\ rbuff'.full = rbuff.full /\ rbuff'.lost = rbuff.lost
        /\ rbuff' = [base |-> rbuff'.base, head |-> rbuff'.head, tail |-> rbuff'.tail,
                    empty |-> rbuff'.empty, full |-> rbuff'.full, lost |-> rbuff'.lost]
        /\ rbuff.empty \in Nat
    BY <1>1 DEF QueueInv, QueueTypes
  <1>3. /\ putter' \in [at : {"idle", "fill", "post"}, next : Nat, caplen : Nat]
        /\ putter'.at = "fill" /\ putter'.next = putter.next
    BY <1>0, <1>1 DEF QueueInv, QueueTypes
  <1>4. Made'
    BY <1>1, <1>2 DEF Made
  <1>5. QueueTypes'
    <2>1. rbuff'.empty \in Nat
      BY <1>1, <1>2
    <2> QED
      BY <1>1, <1>2, <1>3, <1>4, <2>1 DEF QueueInv, QueueTypes
  <1>6. Tokens'
    <2>1. /\ rbuff.full \in Nat /\ rbuff.lost \in Nat /\ PacketQlength \in Nat
      BY <1>1, PacketQueueAssumption DEF QueueInv, QueueTypes
    <2>2. GetDue' = GetDue /\ GetBusy' = GetBusy /\ GetBusy \in {0, 1} /\ PutBusy' = 1 /\ PutBusy = 0
      BY <1>1, <1>3 DEF GetDue, GetBusy, PutBusy
    <2> QED
      BY <1>1, <1>2, <2>1, <2>2 DEF QueueInv, Tokens
  <1>7. InSlots' = InSlots /\ \A n : PacketAt(n)' = PacketAt(n)
    BY <1>1, <1>3 DEF InSlots, PutDone, PacketAt
  <1>8. PacketsFromHead'
    BY <1>1, <1>2, <1>7 DEF QueueInv, PacketsFromHead
  <1>9. InTurns'
    BY <1>1 DEF QueueInv, InTurns
  <1> QED
    BY <1>5, <1>6, <1>8, <1>9 DEF QueueInv

\* A packet that is dropped was nowhere.
LEMMA PutDroppedKeeps == ASSUME QueueInv, PutDropped PROVE QueueInv'
  <1>1. /\ putter' = [putter EXCEPT !.next = @ + 1] /\ putter.at = "idle" /\ Made
        /\ rbuff' = rbuff /\ getter' = getter /\ put' = put /\ got' = got
    BY DEF PutDropped
  <1>2. /\ putter' \in [at : {"idle", "fill", "post"}, next : Nat, caplen : Nat]
        /\ putter'.at = putter.at
    <2>1. putter \in [at : {"idle", "fill", "post"}, next : Nat, caplen : Nat]
      BY DEF QueueInv, QueueTypes
    <2>2. putter.next + 1 \in Nat
      BY <2>1
    <2> QED
      BY <1>1, <2>1, <2>2
  <1>3. Made'
    BY <1>1 DEF Made
  <1>4. QueueTypes'
    BY <1>1, <1>2, <1>3 DEF QueueInv, QueueTypes
  <1>5. Tokens'
    BY <1>1, <1>2 DEF QueueInv, Tokens, GetDue, GetBusy, PutBusy
  <1>6. InSlots' = InSlots
    BY <1>1, <1>2 DEF InSlots, PutDone
  <1>7. InSlots \in Nat /\ Len(got) \in Nat /\ Len(put) \in Nat /\ InSlots = Len(put) - Len(got)
    BY <1>1, InSlotsCounted DEF QueueInv
  <1>8. \A i \in 1..InSlots : PacketAt(Len(got) + i)' = PacketAt(Len(got) + i)
    BY <1>1, <1>7 DEF PacketAt
  <1>9. PacketsFromHead'
    BY <1>1, <1>6, <1>8 DEF QueueInv, PacketsFromHead
  <1>10. InTurns'
    BY <1>1 DEF QueueInv, InTurns
  <1> QED
    BY <1>4, <1>5, <1>9, <1>10 DEF QueueInv

\* A packet that is announced was in its slot before.
LEMMA PutPostKeeps == ASSUME QueueInv, PutPost PROVE QueueInv'
  <1>1. /\ rbuff' = [rbuff EXCEPT !.full = @ + 1] /\ put' = Append(put, putter.next)
        /\ putter' = [putter EXCEPT !.at = "idle", !.next = @ + 1]
        /\ getter' = getter /\ got' = got /\ putter.at = "post"
    BY DEF PutPost
  <1>2. Made
    BY <1>1 DEF QueueInv, QueueTypes
  <1>3. /\ rbuff'.base = rbuff.base /\ rbuff'.head = rbuff.head /\ rbuff'.tail = rbuff.tail
        /\ rbuff'.empty = rbuff.empty /\ rbuff'.full = rbuff.full + 1 /\ rbuff'.lost = rbuff.lost
        /\ rbuff' = [base |-> rbuff'.base, head |-> rbuff'.head, tail |-> rbuff'.tail,
                    empty |-> rbuff'.empty, full |-> rbuff'.full, lost |-> rbuff'.lost]
        /\ rbuff.full \in Nat
    BY <1>1, <1>2 DEF QueueInv, QueueTypes
  <1>4. /\ putter' \in [at : {"idle", "fill", "post"}, next : Nat, caplen : Nat]
        /\ putter'.at = "idle" /\ putter.next \in Nat
    <2>1. putter \in [at : {"idle", "fill", "post"}, next : Nat, caplen : Nat]
      BY DEF QueueInv, QueueTypes
    <2>2. putter.next \in Nat /\ putter.next + 1 \in Nat
      BY <2>1
    <2> QED
      BY <1>1, <2>1, <2>2
  <1>5. Made'
    BY <1>2, <1>3 DEF Made
  <1>6. /\ put \in Seq(Nat) /\ put' \in Seq(Nat) /\ Len(put') = Len(put) + 1 /\ Len(put) \in Nat
        /\ \A i \in 1..Len(put) : put'[i] = put[i]
        /\ put'[Len(put) + 1] = putter.next
    BY <1>1, <1>4 DEF QueueInv, QueueTypes
  <1>7. QueueTypes'
    <2>1. rbuff'.full \in Nat
      BY <1>3
    <2> QED
      BY <1>1, <1>2, <1>3, <1>4, <1>5, <1>6, <2>1 DEF QueueInv, QueueTypes
  <1>8. Tokens'
    <2>1. /\ rbuff.empty \in Nat /\ rbuff.lost \in Nat /\ PacketQlength \in Nat /\ Len(got) \in Nat
      BY <1>2, PacketQueueAssumption DEF QueueInv, QueueTypes
    <2>2. /\ GetDue' = GetDue /\ GetBusy' = GetBusy /\ GetBusy \in {0, 1} /\ PutBusy' = 0
          /\ PutBusy = 1 /\ GetDue \in {0, 1}
      BY <1>1, <1>4 DEF GetDue, GetBusy, PutBusy
    <2>3. rbuff.full + GetDue = Len(put) - Len(got)
      BY <1>2 DEF QueueInv, Tokens
    <2>4. rbuff.empty + rbuff.full + rbuff.lost + PutBusy + GetBusy = PacketQlength
      BY <1>2 DEF QueueInv, Tokens
    <2>5. rbuff'.full + GetDue' = Len(put') - Len(got')
      BY <1>1, <1>3, <1>6, <2>1, <2>2, <2>3
    <2>6. rbuff'.empty + rbuff'.full + rbuff'.lost + PutBusy' + GetBusy' = PacketQlength
      BY <1>1, <1>3, <2>1, <2>2, <2>4
    <2> QED
      BY <2>5, <2>6 DEF Tokens
  <1>9. Len(got) \in Nat /\ InSlots \in Nat /\ Len(got) <= Len(put)
    BY <1>2, InSlotsCounted DEF QueueInv
  <1>10. InSlots' = InSlots /\ InSlots = Len(put) + 1 - Len(got)
    BY <1>1, <1>4, <1>6, <1>9 DEF InSlots, PutDone
  <1>11. ASSUME NEW i \in 1..InSlots PROVE PacketAt(Len(got) + i)' = PacketAt(Len(got) + i)
    <2>1. Len(got) + i \in 1..(Len(put) + 1)
      BY <1>6, <1>9, <1>10
    <2> QED
      BY <1>1, <1>6, <2>1 DEF PacketAt
  <1>12. PacketsFromHead'
    BY <1>1, <1>2, <1>3, <1>10, <1>11 DEF QueueInv, PacketsFromHead
  <1>13. InTurns'
    BY <1>1, <1>2, <1>6, <1>9 DEF QueueInv, InTurns
  <1> QED
    BY <1>7, <1>8, <1>12, <1>13 DEF QueueInv

\* A call that waited for a packet has one of the posts.
LEMMA GetWaitKeeps == ASSUME QueueInv, GetWait PROVE QueueInv'
  <1>1. /\ rbuff' = [rbuff EXCEPT !.full = @ - 1] /\ rbuff.full > 0 /\ Made
        /\ getter' = "take" /\ getter = "idle"
        /\ putter' = putter /\ put' = put /\ got' = got
    BY DEF GetWait
  <1>2. /\ rbuff'.base = rbuff.base /\ rbuff'.head = rbuff.head /\ rbuff'.tail = rbuff.tail
        /\ rbuff'.empty = rbuff.empty /\ rbuff'.full = rbuff.full - 1 /\ rbuff'.lost = rbuff.lost
        /\ rbuff' = [base |-> rbuff'.base, head |-> rbuff'.head, tail |-> rbuff'.tail,
                    empty |-> rbuff'.empty, full |-> rbuff'.full, lost |-> rbuff'.lost]
        /\ rbuff.full \in Nat
    BY <1>1 DEF QueueInv, QueueTypes
  <1>3. Made' /\ rbuff'.full \in Nat
    BY <1>1, <1>2 DEF Made
  <1>4. QueueTypes'
    BY <1>1, <1>2, <1>3 DEF QueueInv, QueueTypes
  <1>5. Tokens'
    <2>1. /\ rbuff.empty \in Nat /\ rbuff.lost \in Nat /\ PacketQlength \in Nat
          /\ Len(got) \in Nat /\ Len(put) \in Nat
      BY <1>1, PacketQueueAssumption DEF QueueInv, QueueTypes
    <2>2. /\ PutBusy' = PutBusy /\ PutBusy \in {0, 1} /\ GetDue = 0 /\ GetBusy = 0
          /\ GetDue' = 1 /\ GetBusy' = 1
      BY <1>1 DEF GetDue, GetBusy, PutBusy
    <2> QED
      BY <1>1, <1>2, <2>1, <2>2 DEF QueueInv, Tokens
  <1>6. InSlots' = InSlots /\ \A n : PacketAt(n)' = PacketAt(n)
    BY <1>1 DEF InSlots, PutDone, PacketAt
  <1>7. PacketsFromHead' /\ InTurns'
    BY <1>1, <1>2, <1>6 DEF QueueInv, PacketsFromHead, InTurns
  <1> QED
    BY <1>4, <1>5, <1>7 DEF QueueInv

\* A slot that was taken from is free again.
LEMMA GetPostKeeps == ASSUME QueueInv, GetPost PROVE QueueInv'
  <1>1. /\ rbuff' = [rbuff EXCEPT !.empty = @ + 1]
        /\ getter' = "idle" /\ getter = "post"
        /\ putter' = putter /\ put' = put /\ got' = got
    BY DEF GetPost
  <1>2. Made
    BY <1>1 DEF QueueInv, QueueTypes
  <1>3. /\ rbuff'.base = rbuff.base /\ rbuff'.head = rbuff.head /\ rbuff'.tail = rbuff.tail
        /\ rbuff'.empty = rbuff.empty + 1 /\ rbuff'.full = rbuff.full /\ rbuff'.lost = rbuff.lost
        /\ rbuff' = [base |-> rbuff'.base, head |-> rbuff'.head, tail |-> rbuff'.tail,
                    empty |-> rbuff'.empty, full |-> rbuff'.full, lost |-> rbuff'.lost]
        /\ rbuff.empty \in Nat
    BY <1>1, <1>2 DEF QueueInv, QueueTypes
  <1>4. Made' /\ rbuff'.empty \in Nat
    BY <1>2, <1>3 DEF Made
  <1>5. QueueTypes'
    BY <1>1, <1>2, <1>3, <1>4 DEF QueueInv, QueueTypes
  <1>6. Tokens'
    <2>1. /\ rbuff.full \in Nat /\ rbuff.lost \in Nat /\ PacketQlength \in Nat
      BY <1>2, PacketQueueAssumption DEF QueueInv, QueueTypes
    <2>2. /\ PutBusy' = PutBusy /\ PutBusy \in {0, 1} /\ GetDue = 0 /\ GetBusy = 1
          /\ GetDue' = 0 /\ GetBusy' = 0
      BY <1>1 DEF GetDue, GetBusy, PutBusy
    <2> QED
      BY <1>1, <1>2, <1>3, <2>1, <2>2 DEF QueueInv, Tokens
  <1>7. InSlots' = InSlots /\ \A n : PacketAt(n)' = PacketAt(n)
    BY <1>1 DEF InSlots, PutDone, PacketAt
  <1>8. PacketsFromHead' /\ InTurns'
    BY <1>1, <1>2, <1>3, <1>7 DEF QueueInv, PacketsFromHead, InTurns
  <1> QED
    BY <1>5, <1>6, <1>8 DEF QueueInv

\* The ring goes with what is in it.
LEMMA DestroyKeeps == ASSUME QueueInv, Destroy PROVE QueueInv'
  <1>1. /\ rbuff' = NoRing /\ putter' = putter /\ getter' = getter /\ put' = put /\ got' = got
        /\ putter.at = "idle" /\ getter = "idle"
    BY DEF Destroy
  <1>2. ~Made'
    BY <1>1 DEF Made, NoRing
  <1>3. QueueTypes'
    BY <1>1, <1>2 DEF QueueInv, QueueTypes, NoRing
  <1> QED
    BY <1>2, <1>3 DEF QueueInv, Tokens, PacketsFromHead, InTurns

\* A step of something else, and the wait that is interrupted in rbuff_getdata.
LEMMA QueueRests ==
    ASSUME QueueInv, rbuff' = rbuff, putter' = putter, getter' = getter, put' = put, got' = got
    PROVE  QueueInv'
  BY DEF QueueInv, QueueTypes, Tokens, PacketsFromHead, InTurns, Made, InSlots, PacketAt, PutDone, PutBusy,
         GetDue, GetBusy

\* The slot at the tail holds none of the packets in slots while one is filled.
LEMMA TailIsFree ==
    ASSUME QueueInv, Made, putter.at = "fill"
    PROVE  /\ InSlots \in Nat /\ InSlots < PacketQlength /\ rbuff.tail = Wrap(rbuff.head + InSlots)
           /\ rbuff.tail \in PacketSlots /\ rbuff.head \in PacketSlots
           /\ \A i \in 1..InSlots : /\ Wrap(rbuff.head + (i - 1)) \in PacketSlots
                                    /\ Wrap(rbuff.head + (i - 1)) # rbuff.tail
           /\ After(rbuff.tail) = Wrap(rbuff.head + (InSlots + 1))
           /\ After(rbuff.tail) \in PacketSlots
  <1>1. InSlots \in Nat /\ InSlots < PacketQlength /\ PacketQlength \in Nat
    BY InSlotsCounted, PacketQueueAssumption DEF QueueInv
  <1>2. rbuff.tail \in PacketSlots /\ rbuff.head \in PacketSlots /\ rbuff.tail = Wrap(rbuff.head + InSlots)
    BY DEF QueueInv, QueueTypes, PacketsFromHead
  <1>3. rbuff.head \in 0..(PacketQlength - 1)
    BY <1>2 DEF PacketSlots
  <1>4. ASSUME NEW i \in 1..InSlots
        PROVE  Wrap(rbuff.head + (i - 1)) \in PacketSlots /\ Wrap(rbuff.head + (i - 1)) # rbuff.tail
    <2>1. /\ i - 1 \in 0..(PacketQlength - 1) /\ InSlots \in 0..(PacketQlength - 1) /\ i - 1 # InSlots
          /\ rbuff.head + (i - 1) \in 0..(2 * PacketQlength - 1)
      BY <1>1, <1>3
    <2> QED
      BY <1>2, <2>1, PacketWraps
  <1>5. /\ rbuff.head + InSlots \in 0..(2 * PacketQlength - 2)
        /\ rbuff.head + (InSlots + 1) \in 0..(2 * PacketQlength - 1)
        /\ rbuff.head + InSlots + 1 = rbuff.head + (InSlots + 1)
    BY <1>1, <1>3
  <1>6. After(rbuff.tail) = Wrap(rbuff.head + (InSlots + 1))
    BY <1>2, <1>5, PacketWraps
  <1>7. After(rbuff.tail) \in PacketSlots
    BY <1>5, <1>6, PacketWraps
  <1> QED
    BY <1>1, <1>2, <1>4, <1>6, <1>7

\* A packet goes to the slot at the tail, which is free, behind those in slots; a call that
\* fails there loses the slot and leaves the others as they are.
LEMMA PutFillKeeps == ASSUME NEW data, QueueInv, PutFill(data) PROVE QueueInv'
  <1>1. putter.at = "fill" /\ getter' = getter /\ put' = put /\ got' = got
    BY DEF PutFill
  <1>2. Made
    BY <1>1 DEF QueueInv, QueueTypes
  <1>3. /\ putter \in [at : {"idle", "fill", "post"}, next : Nat, caplen : Nat]
        /\ getter \in {"idle", "take", "post"} /\ put \in Seq(Nat) /\ got \in Seq(Nat)
        /\ rbuff.empty \in Nat /\ rbuff.full \in Nat /\ rbuff.lost \in Nat
        /\ rbuff.base = [i \in PacketSlots |-> rbuff.base[i]]
        /\ \A i \in PacketSlots :
              /\ rbuff.base[i] = [data |-> rbuff.base[i].data, caplen |-> rbuff.base[i].caplen,
                                 packet |-> rbuff.base[i].packet]
              /\ rbuff.base[i].packet \in Nat
        /\ rbuff = [base |-> rbuff.base, head |-> rbuff.head, tail |-> rbuff.tail,
                   empty |-> rbuff.empty, full |-> rbuff.full, lost |-> rbuff.lost]
    BY <1>2 DEF QueueInv, QueueTypes
  <1>4. /\ putter.next \in Nat /\ putter.next + 1 \in Nat /\ rbuff.lost + 1 \in Nat
        /\ PacketQlength \in Nat /\ PacketQlength > 0 /\ Len(put) \in Nat /\ Len(got) \in Nat
    BY <1>3, PacketQueueAssumption
  <1>5. /\ rbuff.full + GetDue = Len(put) - Len(got)
        /\ rbuff.empty + rbuff.full + rbuff.lost + 1 + GetBusy = PacketQlength
    <2>1. PutBusy = 1
      BY <1>1 DEF PutBusy
    <2> QED
      BY <1>2, <2>1 DEF QueueInv, Tokens
  <1>6. /\ InSlots \in Nat /\ rbuff.tail = Wrap(rbuff.head + InSlots)
        /\ rbuff.tail \in PacketSlots /\ rbuff.head \in PacketSlots
        /\ \A i \in 1..InSlots : /\ Wrap(rbuff.head + (i - 1)) \in PacketSlots
                                 /\ Wrap(rbuff.head + (i - 1)) # rbuff.tail
        /\ After(rbuff.tail) = Wrap(rbuff.head + (InSlots + 1))
        /\ After(rbuff.tail) \in PacketSlots
    BY <1>1, <1>2, TailIsFree
  <1>7. InSlots = Len(put) - Len(got)
    BY <1>1, <1>4 DEF InSlots, PutDone
  <1>8. GetDue' = GetDue /\ GetBusy' = GetBusy /\ GetBusy \in {0, 1}
    BY <1>1 DEF GetDue, GetBusy
  <1>9. \A i \in 1..InSlots : /\ rbuff.base[Wrap(rbuff.head + (i - 1))].data # NoBlock
                              /\ rbuff.base[Wrap(rbuff.head + (i - 1))].packet = put[Len(got) + i]
    BY <1>2, <1>4, <1>7 DEF QueueInv, PacketsFromHead, PacketAt
  <1>10. \A i \in 1..InSlots : Len(got) + i <= Len(put)
    BY <1>4, <1>7
  <1>11. InTurns'
    <2>1. \A i \in 1..Len(got) : got[i] = put[i]
      BY <1>2 DEF QueueInv, InTurns
    <2> QED
      BY <1>1, <2>1 DEF InTurns
  <1>12. CASE data # NoBlock
    <2> DEFINE filled == [data |-> data, caplen |-> putter.caplen, packet |-> putter.next]
    <2>1. /\ rbuff' = [rbuff EXCEPT !.base = [@ EXCEPT ![rbuff.tail] = filled], !.tail = After(@)]
          /\ putter' = [putter EXCEPT !.at = "post"]
      BY <1>12, <1>3 DEF PutFill
    <2>2. /\ rbuff'.base = [rbuff.base EXCEPT ![rbuff.tail] = filled]
          /\ rbuff'.head = rbuff.head /\ rbuff'.tail = After(rbuff.tail) /\ rbuff'.empty = rbuff.empty
          /\ rbuff'.full = rbuff.full /\ rbuff'.lost = rbuff.lost
          /\ rbuff' = [base |-> rbuff'.base, head |-> rbuff'.head, tail |-> rbuff'.tail,
                      empty |-> rbuff'.empty, full |-> rbuff'.full, lost |-> rbuff'.lost]
      BY <1>3, <2>1
    <2>3. /\ putter' \in [at : {"idle", "fill", "post"}, next : Nat, caplen : Nat]
          /\ putter'.at = "post" /\ putter'.next = putter.next
      BY <1>3, <2>1
    <2>4. /\ rbuff'.base = [i \in PacketSlots |-> rbuff'.base[i]]
          /\ rbuff'.base[rbuff.tail] = filled
          /\ \A i \in PacketSlots : i # rbuff.tail => rbuff'.base[i] = rbuff.base[i]
      BY <1>3, <1>6, <2>2
    <2>5. \A i \in PacketSlots :
              /\ rbuff'.base[i] = [data |-> rbuff'.base[i].data, caplen |-> rbuff'.base[i].caplen,
                                  packet |-> rbuff'.base[i].packet]
              /\ rbuff'.base[i].packet \in Nat
      BY <1>3, <1>4, <2>4
    <2> HIDE DEF filled
    <2>6. QueueTypes'
      <3>1. putter'.at # "idle" /\ (\A i \in PacketSlots : TRUE)
        BY <2>3
      <3>2. Made'
        <4>1. rbuff.tail \in DOMAIN rbuff'.base
          BY <1>6, <2>4
        <4> QED
          BY <4>1 DEF Made
      <3> QED
        BY <1>1, <1>3, <1>6, <2>2, <2>3, <2>4, <2>5, <3>1, <3>2 DEF QueueTypes
    <2>7. Tokens'
      <3>1. PutBusy' = 1
        BY <2>3 DEF PutBusy
      <3> QED
        BY <1>1, <1>5, <1>8, <2>2, <3>1 DEF Tokens
    <2>8. InSlots' = InSlots + 1
      BY <1>1, <1>4, <1>7, <2>3 DEF InSlots, PutDone
    <2>9. ASSUME NEW i \in 1..(InSlots + 1)
          PROVE  /\ rbuff'.base[Wrap(rbuff.head + (i - 1))].data # NoBlock
                 /\ rbuff'.base[Wrap(rbuff.head + (i - 1))].packet
                      = IF Len(got) + i <= Len(put) THEN put[Len(got) + i] ELSE putter'.next
      <3>1. CASE i \in 1..InSlots
        <4>1. rbuff'.base[Wrap(rbuff.head + (i - 1))] = rbuff.base[Wrap(rbuff.head + (i - 1))]
          BY <3>1, <1>6, <2>4
        <4>2. /\ rbuff.base[Wrap(rbuff.head + (i - 1))].data # NoBlock
              /\ rbuff.base[Wrap(rbuff.head + (i - 1))].packet = put[Len(got) + i]
          BY <3>1, <1>9
        <4> QED
          BY <3>1, <4>1, <4>2, <1>10
      <3>2. CASE i = InSlots + 1
        <4>1. Wrap(rbuff.head + (i - 1)) = rbuff.tail
          <5>1. i - 1 = InSlots
            BY <3>2, <1>6
          <5> QED
            BY <5>1, <1>6
        <4>2. ~(Len(got) + i <= Len(put))
          BY <3>2, <1>4, <1>7
        <4>3. rbuff'.base[rbuff.tail].data = data /\ rbuff'.base[rbuff.tail].packet = putter.next
          BY <2>4 DEF filled
        <4> QED
          BY <4>1, <4>2, <4>3, <1>12, <2>3
      <3> QED
        BY <3>1, <3>2, <1>6
    <2>10. PacketsFromHead'
      BY <1>1, <1>6, <2>2, <2>8, <2>9 DEF PacketsFromHead, PacketAt
    <2> QED
      BY <1>11, <2>6, <2>7, <2>10 DEF QueueInv
  <1>13. CASE data = NoBlock
    <2> DEFINE then == IF Valid THEN NoBlock ELSE rbuff.base[rbuff.tail].data
    <2> DEFINE emptied == [rbuff.base[rbuff.tail] EXCEPT !.data = then]
    <2>1. /\ rbuff' = [rbuff EXCEPT !.base = [@ EXCEPT ![rbuff.tail] = emptied], !.lost = @ + 1]
          /\ putter' = [putter EXCEPT !.at = "idle", !.next = @ + 1]
      BY <1>13, <1>3, <1>6 DEF PutFill
    <2>a. emptied = [data |-> then, caplen |-> rbuff.base[rbuff.tail].caplen, packet |-> rbuff.base[rbuff.tail].packet]
      <3>0. rbuff.base[rbuff.tail] = [data |-> rbuff.base[rbuff.tail].data, caplen |-> rbuff.base[rbuff.tail].caplen,
                                    packet |-> rbuff.base[rbuff.tail].packet]
        BY <1>3, <1>6
      <3>1. PICK d, c, p : rbuff.base[rbuff.tail] = [data |-> d, caplen |-> c, packet |-> p]
        BY <3>0, Zenon
      <3>2. /\ [rbuff.base[rbuff.tail] EXCEPT !.data = then] = [data |-> then, caplen |-> c, packet |-> p]
            /\ rbuff.base[rbuff.tail].caplen = c /\ rbuff.base[rbuff.tail].packet = p
        BY <3>1
      <3> QED
        BY <3>2
    <2> HIDE DEF then, emptied
    <2>2. /\ rbuff'.base = [rbuff.base EXCEPT ![rbuff.tail] = emptied]
          /\ rbuff'.head = rbuff.head /\ rbuff'.tail = rbuff.tail /\ rbuff'.empty = rbuff.empty
          /\ rbuff'.full = rbuff.full /\ rbuff'.lost = rbuff.lost + 1
          /\ rbuff' = [base |-> rbuff'.base, head |-> rbuff'.head, tail |-> rbuff'.tail,
                      empty |-> rbuff'.empty, full |-> rbuff'.full, lost |-> rbuff'.lost]
      BY <1>3, <1>6, <2>1
    <2>3. /\ putter' \in [at : {"idle", "fill", "post"}, next : Nat, caplen : Nat]
          /\ putter'.at = "idle"
      BY <1>3, <1>4, <2>1
    <2>4. /\ rbuff'.base = [i \in PacketSlots |-> rbuff'.base[i]]
          /\ rbuff'.base[rbuff.tail] = emptied
          /\ \A i \in PacketSlots : i # rbuff.tail => rbuff'.base[i] = rbuff.base[i]
      BY <1>3, <1>6, <2>2
    <2>5. \A i \in PacketSlots :
              /\ rbuff'.base[i] = [data |-> rbuff'.base[i].data, caplen |-> rbuff'.base[i].caplen,
                                  packet |-> rbuff'.base[i].packet]
              /\ rbuff'.base[i].packet \in Nat
      <3>1. /\ emptied = [data |-> emptied.data, caplen |-> emptied.caplen, packet |-> emptied.packet]
            /\ emptied.packet = rbuff.base[rbuff.tail].packet
        BY <2>a
      <3>2. emptied.packet \in Nat
        BY <1>3, <1>6, <3>1
      <3>3. \A i \in PacketSlots : rbuff'.base[i] = emptied \/ rbuff'.base[i] = rbuff.base[i]
        BY <2>4
      <3> QED
        BY <1>3, <3>1, <3>2, <3>3
    <2>6. QueueTypes'
      <3>1. Made'
        <4>1. rbuff.tail \in DOMAIN rbuff'.base
          BY <1>6, <2>4
        <4> QED
          BY <4>1 DEF Made
      <3> QED
        BY <1>1, <1>3, <1>4, <1>6, <2>2, <2>3, <2>4, <2>5, <3>1 DEF QueueTypes
    <2>7. Tokens'
      <3>1. PutBusy' = 0
        BY <2>3 DEF PutBusy
      <3>2. rbuff'.empty + rbuff'.full + rbuff'.lost + PutBusy' + GetBusy' = PacketQlength
        BY <1>3, <1>4, <1>5, <1>8, <2>2, <3>1
      <3> QED
        BY <1>1, <1>5, <1>8, <2>2, <3>2 DEF Tokens
    <2>8. InSlots' = InSlots
      BY <1>1, <1>4, <1>7, <2>3 DEF InSlots, PutDone
    <2>9. \A i \in 1..InSlots :
              /\ rbuff'.base[Wrap(rbuff.head + (i - 1))].data # NoBlock
              /\ rbuff'.base[Wrap(rbuff.head + (i - 1))].packet = put[Len(got) + i]
      BY <1>6, <1>9, <2>4
    <2>10. PacketsFromHead'
      BY <1>1, <1>6, <1>10, <2>2, <2>8, <2>9 DEF PacketsFromHead, PacketAt
    <2> QED
      BY <1>11, <2>6, <2>7, <2>10 DEF QueueInv
  <1> QED
    BY <1>12, <1>13

\* The call that took a post finds a packet at the head: the one put longest ago.
LEMMA GetTakeKeeps == ASSUME QueueInv, GetTake PROVE QueueInv'
  <1>1. getter = "take" /\ putter' = putter /\ put' = put
    BY DEF GetTake
  <1>2. Made
    BY <1>1 DEF QueueInv, QueueTypes
  <1>3. /\ putter \in [at : {"idle", "fill", "post"}, next : Nat, caplen : Nat]
        /\ put \in Seq(Nat) /\ got \in Seq(Nat)
        /\ rbuff.empty \in Nat /\ rbuff.full \in Nat /\ rbuff.lost \in Nat
        /\ rbuff.head \in PacketSlots /\ rbuff.tail \in PacketSlots
        /\ rbuff.base = [i \in PacketSlots |-> rbuff.base[i]]
        /\ \A i \in PacketSlots :
              /\ rbuff.base[i] = [data |-> rbuff.base[i].data, caplen |-> rbuff.base[i].caplen,
                                 packet |-> rbuff.base[i].packet]
              /\ rbuff.base[i].packet \in Nat
        /\ rbuff = [base |-> rbuff.base, head |-> rbuff.head, tail |-> rbuff.tail,
                   empty |-> rbuff.empty, full |-> rbuff.full, lost |-> rbuff.lost]
    BY <1>2 DEF QueueInv, QueueTypes
  <1>4. /\ PacketQlength \in Nat /\ PacketQlength > 0 /\ Len(put) \in Nat /\ Len(got) \in Nat
        /\ rbuff.head \in 0..(PacketQlength - 1)
    BY <1>3, PacketQueueAssumption DEF PacketSlots
  <1>5. /\ rbuff.full + 1 = Len(put) - Len(got)
        /\ rbuff.empty + rbuff.full + rbuff.lost + PutBusy + 1 = PacketQlength
    <2>1. GetDue = 1 /\ GetBusy = 1
      BY <1>1 DEF GetDue, GetBusy
    <2> QED
      BY <1>2, <2>1 DEF QueueInv, Tokens
  <1>6. InSlots \in Nat /\ InSlots > 0 /\ InSlots <= PacketQlength /\ Len(got) + 1 <= Len(put)
    BY <1>1, <1>2, <1>4, InSlotsCounted DEF QueueInv
  <1>7. \A i \in 1..InSlots : /\ rbuff.base[Wrap(rbuff.head + (i - 1))].data # NoBlock
                              /\ rbuff.base[Wrap(rbuff.head + (i - 1))].packet
                                   = IF Len(got) + i <= Len(put) THEN put[Len(got) + i] ELSE putter.next
    BY <1>2 DEF QueueInv, PacketsFromHead, PacketAt
  <1>8. Wrap(rbuff.head) = rbuff.head
    BY <1>3, PacketWraps
  <1>9. HeadData # NoBlock /\ rbuff.base[rbuff.head].packet = put[Len(got) + 1]
    <2>1. 1 \in 1..InSlots /\ rbuff.head + (1 - 1) = rbuff.head
      BY <1>4, <1>6
    <2> QED
      BY <1>6, <1>7, <1>8, <2>1 DEF HeadData
  <1>10. /\ Slot = [data |-> Slot.data, caplen |-> Slot.caplen, packet |-> Slot.packet]
         /\ Slot.packet \in Nat
    BY DEF Slot
  <1>11. /\ rbuff' = [rbuff EXCEPT !.base = [@ EXCEPT ![rbuff.head] = Slot], !.head = After(@)]
         /\ getter' = "post" /\ got' = Append(got, rbuff.base[rbuff.head].packet)
    BY <1>9 DEF GetTake
  <1>12. /\ rbuff'.base = [rbuff.base EXCEPT ![rbuff.head] = Slot]
         /\ rbuff'.head = After(rbuff.head) /\ rbuff'.tail = rbuff.tail /\ rbuff'.empty = rbuff.empty
         /\ rbuff'.full = rbuff.full /\ rbuff'.lost = rbuff.lost
         /\ rbuff' = [base |-> rbuff'.base, head |-> rbuff'.head, tail |-> rbuff'.tail,
                     empty |-> rbuff'.empty, full |-> rbuff'.full, lost |-> rbuff'.lost]
    BY <1>3, <1>11
  <1>13. /\ rbuff'.base = [i \in PacketSlots |-> rbuff'.base[i]]
         /\ rbuff'.base[rbuff.head] = Slot
         /\ \A i \in PacketSlots : i # rbuff.head => rbuff'.base[i] = rbuff.base[i]
    BY <1>3, <1>12
  <1>14. \A i \in PacketSlots :
             /\ rbuff'.base[i] = [data |-> rbuff'.base[i].data, caplen |-> rbuff'.base[i].caplen,
                                 packet |-> rbuff'.base[i].packet]
             /\ rbuff'.base[i].packet \in Nat
    <2>1. \A i \in PacketSlots : rbuff'.base[i] = Slot \/ rbuff'.base[i] = rbuff.base[i]
      BY <1>13
    <2> QED
      BY <1>3, <1>10, <2>1
  <1>15. /\ got' \in Seq(Nat) /\ Len(got') = Len(got) + 1
         /\ \A i \in 1..Len(got) : got'[i] = got[i]
         /\ got'[Len(got) + 1] = put[Len(got) + 1]
    <2>1. rbuff.base[rbuff.head].packet \in Nat
      BY <1>3
    <2> QED
      BY <1>3, <1>9, <1>11, <2>1
  <1>16. /\ rbuff.head \in 0..(2 * PacketQlength - 2) /\ rbuff.head + 1 \in 0..(2 * PacketQlength - 1)
    BY <1>4
  <1>17. After(rbuff.head) = Wrap(rbuff.head + 1) /\ After(rbuff.head) \in PacketSlots
    BY <1>8, <1>16, PacketWraps
  <1>18. QueueTypes'
    <2>1. Made'
      <3>1. rbuff.head \in DOMAIN rbuff'.base
        BY <1>3, <1>13
      <3> QED
        BY <3>1 DEF Made
    <2> QED
      BY <1>1, <1>3, <1>11, <1>12, <1>13, <1>14, <1>15, <1>17, <2>1 DEF QueueTypes
  <1>19. Tokens'
    <2>1. GetDue' = 0 /\ GetBusy' = 1 /\ PutBusy' = PutBusy
      BY <1>1, <1>11 DEF GetDue, GetBusy, PutBusy
    <2>2. Len(got') = Len(got) + 1 /\ Len(put') = Len(put) /\ rbuff'.full = rbuff.full
      BY <1>1, <1>12, <1>15
    <2>3. rbuff.full \in Nat
      BY <1>3
    <2>4. rbuff'.full + GetDue' = Len(put') - Len(got')
      BY <1>4, <1>5, <2>1, <2>2, <2>3
    <2> QED
      BY <1>5, <1>12, <2>1, <2>4 DEF Tokens
  <1>20. InSlots' = InSlots - 1
    <2>1. PutDone' = PutDone /\ PutDone \in {0, 1}
      BY <1>1 DEF PutDone
    <2> QED
      BY <1>1, <1>4, <1>15, <2>1 DEF InSlots
  \* A slot after the head is the same distance less one after the new head.
  <1>21. ASSUME NEW i \in 0..(PacketQlength - 1)
         PROVE  Wrap(Wrap(rbuff.head + 1) + i) = Wrap(rbuff.head + (i + 1))
    BY <1>4, SMTT(60) DEF Wrap
  <1>22. Wrap(Wrap(rbuff.head + 1) + (InSlots - 1)) = Wrap(rbuff.head + InSlots)
    <2>1. InSlots - 1 \in 0..(PacketQlength - 1) /\ (InSlots - 1) + 1 = InSlots
      BY <1>4, <1>6
    <2> QED
      BY <1>21, <2>1
  <1>23. ASSUME NEW i \in 1..(InSlots - 1)
         PROVE  /\ rbuff'.base[Wrap(rbuff'.head + (i - 1))].data # NoBlock
                /\ rbuff'.base[Wrap(rbuff'.head + (i - 1))].packet
                     = IF Len(got') + i <= Len(put) THEN put[Len(got') + i] ELSE putter.next
    <2>1. /\ i - 1 \in 0..(PacketQlength - 1) /\ i \in 0..(PacketQlength - 1) /\ i # 0
          /\ 0 \in 0..(PacketQlength - 1) /\ (i - 1) + 1 = i /\ i + 1 \in 1..InSlots
          /\ rbuff.head + i \in 0..(2 * PacketQlength - 1) /\ rbuff.head + 0 = rbuff.head
          /\ (i + 1) - 1 = i
      BY <1>4, <1>6
    <2>2. Wrap(rbuff'.head + (i - 1)) = Wrap(rbuff.head + i)
      BY <1>12, <1>17, <1>21, <2>1
    <2>3. Wrap(rbuff.head + i) # rbuff.head /\ Wrap(rbuff.head + i) \in PacketSlots
      <3>1. Wrap(rbuff.head + i) # Wrap(rbuff.head + 0)
        BY <1>3, <2>1, PacketWraps
      <3> QED
        BY <1>8, <2>1, <3>1, PacketWraps
    <2>4. rbuff'.base[Wrap(rbuff.head + i)] = rbuff.base[Wrap(rbuff.head + i)]
      BY <1>13, <2>3
    <2>5. /\ rbuff.base[Wrap(rbuff.head + i)].data # NoBlock
          /\ rbuff.base[Wrap(rbuff.head + i)].packet
               = IF Len(got) + (i + 1) <= Len(put) THEN put[Len(got) + (i + 1)] ELSE putter.next
      BY <1>7, <2>1
    <2>6. Len(got') + i = Len(got) + (i + 1)
      BY <1>4, <1>15, <2>1
    <2> QED
      BY <2>2, <2>4, <2>5, <2>6
  <1>24. PacketsFromHead'
    <2>1. rbuff'.tail = Wrap(rbuff'.head + InSlots')
      BY <1>2, <1>12, <1>17, <1>20, <1>22 DEF QueueInv, PacketsFromHead
    <2> QED
      BY <1>1, <1>20, <1>23, <2>1 DEF PacketsFromHead, PacketAt
  <1>25. InTurns'
    <2>1. \A i \in 1..Len(got) : got[i] = put[i]
      BY <1>2 DEF QueueInv, InTurns
    <2>2. ASSUME NEW i \in 1..Len(got') PROVE got'[i] = put[i]
      <3>1. CASE i \in 1..Len(got)
        BY <3>1, <1>15, <2>1
      <3>2. CASE i = Len(got) + 1
        BY <3>2, <1>15
      <3> QED
        BY <3>1, <3>2, <1>4, <1>15
    <2> QED
      BY <1>1, <2>2 DEF InTurns
  <1> QED
    BY <1>18, <1>19, <1>24, <1>25 DEF QueueInv

\* Every step keeps the invariant.
LEMMA QueueInvInductive ==
    ASSUME QueueInv, [NextQueue]_queueVars
    PROVE  QueueInv'
  <1>1. CASE Create
    BY <1>1, CreateKeeps
  <1>2. CASE \E caplen \in Caplens : PutWait(caplen)
    BY <1>2, PutWaitKeeps
  <1>3. CASE PutDropped
    BY <1>3, PutDroppedKeeps
  <1>4. CASE \E data : PutFill(data)
    BY <1>4, PutFillKeeps
  <1>5. CASE PutPost
    BY <1>5, PutPostKeeps
  <1>6. CASE GetWait
    BY <1>6, GetWaitKeeps
  <1>7. CASE GetInterrupted
    BY <1>7, QueueRests DEF GetInterrupted
  <1>8. CASE GetTake
    BY <1>8, GetTakeKeeps
  <1>9. CASE GetPost
    BY <1>9, GetPostKeeps
  <1>10. CASE Destroy
    BY <1>10, DestroyKeeps
  <1>11. CASE UNCHANGED queueVars
    BY <1>11, QueueRests DEF queueVars
  <1> QED
    BY <1>1, <1>2, <1>3, <1>4, <1>5, <1>6, <1>7, <1>8, <1>9, <1>10, <1>11 DEF NextQueue

\* It says that the packets are kept.
LEMMA QueueInvKept == QueueInv => PacketsKept
  <1> SUFFICES ASSUME QueueInv, Made PROVE PacketsKept
    BY DEF PacketsKept
  <1> DEFINE behind == SubSeq(put, Len(got) + 1, Len(put))
             Place(i) == (rbuff.head + i) % PacketQlength
  <1>1. /\ Len(put) \in Nat /\ Len(got) \in Nat /\ InSlots \in Nat /\ InSlots <= PacketQlength
        /\ InSlots = rbuff.full + GetDue + PutDone /\ Len(got) <= Len(put)
        /\ PacketQlength \in Nat /\ rbuff.full \in Nat
    BY InSlotsCounted, PacketQueueAssumption DEF QueueInv, QueueTypes
  <1>2. put \in Seq(Nat) /\ rbuff.head \in PacketSlots
    BY DEF QueueInv, QueueTypes
  <1>3. Len(behind) = Len(put) - Len(got) /\ \A i \in 1..Len(behind) : behind[i] = put[Len(got) + i]
    <2>1. Len(got) + 1 \in 1..(Len(put) + 1)
      BY <1>1
    <2>2. /\ Len(behind) = IF Len(got) + 1 <= Len(put) THEN Len(put) - (Len(got) + 1) + 1 ELSE 0
          /\ \A i \in 1..Len(behind) : behind[i] = put[(Len(got) + 1) + i - 1]
      BY <1>1, <1>2, <2>1
    <2>3. Len(behind) = Len(put) - Len(got)
      BY <1>1, <2>2
    <2>4. \A i \in 1..Len(behind) : (Len(got) + 1) + i - 1 = Len(got) + i
      BY <1>1, <2>3
    <2> QED
      BY <2>2, <2>3, <2>4
  <1>4. Len(put) - Len(got) <= InSlots
    <2>1. PutDone \in {0, 1}
      BY DEF PutDone
    <2> QED
      BY <1>1, <2>1 DEF InSlots
  <1> HIDE DEF behind
  <1>5. ASSUME NEW i \in 1..Len(behind)
        PROVE  rbuff.base[Place(i - 1)].packet = behind[i] /\ rbuff.base[Place(i - 1)].data # NoBlock
    <2>1. /\ i \in 1..InSlots /\ Len(got) + i <= Len(put)
          /\ rbuff.head + (i - 1) \in 0..(2 * PacketQlength - 1)
      <3>1. rbuff.head \in 0..(PacketQlength - 1)
        BY <1>2 DEF PacketSlots
      <3>2. i \in 1..(Len(put) - Len(got))
        BY <1>3
      <3> QED
        BY <1>1, <1>4, <3>1, <3>2, SMTT(60)
    <2>2. Place(i - 1) = Wrap(rbuff.head + (i - 1))
      BY <2>1, PacketWraps
    <2>3. /\ rbuff.base[Wrap(rbuff.head + (i - 1))].data # NoBlock
          /\ rbuff.base[Wrap(rbuff.head + (i - 1))].packet = put[Len(got) + i]
      BY <2>1 DEF QueueInv, PacketsFromHead, PacketAt
    <2> QED
      BY <1>3, <2>2, <2>3
  <1>6. \A i \in 1..Len(got) : got[i] = put[i]
    BY DEF QueueInv, InTurns
  <1>7. rbuff.empty + rbuff.full + rbuff.lost + (IF putter.at = "idle" THEN 0 ELSE 1)
           + (IF getter = "idle" THEN 0 ELSE 1) = PacketQlength
    BY DEF QueueInv, Tokens, PutBusy, GetBusy
  <1> QED
    BY <1>1, <1>5, <1>6, <1>7 DEF PacketsKept, behind

\* PacketsKept: until a signal makes rbuff_getdata free a block early, the packets taken from
\* the ring are those put, in their order; those put and not taken stand from the head on,
\* each in a block; and no slot is lost but to a call that failed. Whatever pool the blocks
\* are from, whenever it has none, and however the two threads interleave.
THEOREM PacketsAlwaysKept == QueueSpec => []PacketsKept
  <1>1. InitQueue => QueueInv
    BY QueueStarts
  <1>2. QueueInv /\ [NextQueue]_queueVars => QueueInv'
    BY QueueInvInductive
  <1>3. QueueInv => PacketsKept
    BY QueueInvKept
  <1> QED
    BY <1>1, <1>2, <1>3, PTL DEF QueueSpec
=============================================================================
