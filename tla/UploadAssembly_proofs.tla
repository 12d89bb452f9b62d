----------------------- MODULE UploadAssembly_proofs -----------------------
(***************************************************************************)
(* The ways that trust the length of the file: what they announce holds    *)
(* every byte of the attachment once - for any number of workers and of    *)
(* uploads, any sizes and cuts, whichever parts are lost or given up.      *)
(***************************************************************************)
EXTENDS UploadAssembly, FiniteSetTheorems, SequenceTheorems, TLAPS

(***************************************************************************)
(* The inductive invariant                                                 *)
(***************************************************************************)

Posted(q) == q[1] \in Ids /\ q[2] \in posted[q[1]]

\* Every part is in one place: not sent, in the ring, held by a worker, or done with.
PlacesInv ==
    /\ uploads \in Plans
    /\ posted \in [Ids -> SUBSET Nat] /\ \A u \in Ids : posted[u] \subseteq 1..Count(u)
    /\ pc \in [Workers -> {"idle", "look", "create", "open", "small", "write",
                           "measure", "recheck", "rename"}]
    /\ part \in [Workers -> (Ids \X Nat) \cup {<<0, 0>>}]
    /\ ring \in Seq(Ids \X Nat)
    /\ \A k \in 1..Len(ring) : Posted(ring[k])
    /\ \A j, k \in 1..Len(ring) : ring[j] = ring[k] => j = k
    /\ \A w \in Workers : Busy(w) =>
          part[w] \in Ids \X Nat /\ Posted(part[w]) /\ \A k \in 1..Len(ring) : ring[k] # part[w]
    /\ \A v, w \in Workers : Busy(v) /\ Busy(w) /\ part[v] = part[w] => v = w

Unit == (Ids \cup {0}) \X Nat

FilesInv ==
    /\ fp \in [Workers -> Nat] /\ now_length \in [Workers -> Nat]
    /\ name \in [Names -> Nat] /\ \A f \in Names : name[f] <= Len(data)
    /\ data \in Seq(Seq(Unit))
    /\ announced \in Seq([upload : Ids, file : Nat])
    /\ \A k \in 1..Len(announced) : announced[k].file <= Len(data)
    /\ \A w \in Workers : pc[w] = "write" => fp[w] \in 1..Len(data)

\* A worker that has not written its part yet.
Early(w) == pc[w] \in {"look", "create", "open", "small", "write"}

\* The parts of u that may still be written.
Coming(u) ==
    {i \in 1..Count(u) :
        \/ i \notin posted[u]
        \/ \E k \in 1..Len(ring) : ring[k] = <<u, i>>
        \/ \E w \in Workers : Early(w) /\ part[w] = <<u, i>>}

\* The bytes of part i, numbered from 1 in the attachment.
Bytes(u, i) == (Offset(u, i) + 1)..uploads[u].ends[i]

\* s holds bytes of the parts in P, each once at most.
Collected(u, s, P) ==
    /\ \A k \in 1..Len(s) : \E i \in P : \E b \in Bytes(u, i) : s[k] = <<u, b>>
    /\ \A j, k \in 1..Len(s) : s[j] = s[k] => j = k

\* The files of u: the one its name leads to, the one announced.
Belongs(u) == ({name[uploads[u].file]} \cup {announced[k].file : k \in About(u)}) \ {0}

\* Nobody else has a file of u, and it holds what has come.
OwnFile(u) ==
    \A f \in Belongs(u) :
        /\ f \in 1..Len(data)
        /\ \A m \in Names : m # uploads[u].file => name[m] # f
        /\ \A w \in Workers : pc[w] = "write" /\ Upload(w) # u => fp[w] # f
        /\ Collected(u, data[f], 1..Count(u) \ Coming(u))

\* The workers of u: all write into the file its name leads to; one that found the file
\* long enough for its part to complete it found all other parts there.
OwnWorkers(u) ==
    \A w \in Workers : Busy(w) /\ Upload(w) = u =>
        /\ pc[w] \in {"look", "create", "open", "write", "rename"}
        /\ pc[w] \in {"write", "rename"} => name[uploads[u].file] # 0
        /\ pc[w] = "write" => fp[w] = name[uploads[u].file]
        /\ pc[w] = "write" /\ now_length[w] + Length(w) = Size(u) =>
              Coming(u) \subseteq {Number(w)} /\ Len(data[fp[w]]) = now_length[w]
        /\ pc[w] = "rename" =>
              /\ Coming(u) = {} /\ Len(data[name[uploads[u].file]]) = Size(u)
              /\ \A v \in Workers : Busy(v) /\ Upload(v) = u => v = w

\* Once u is announced all is over.
Over(u) ==
    \A k \in About(u) :
        /\ Coming(u) = {} /\ name[uploads[u].file] = 0
        /\ \A w \in Workers : Busy(w) => Upload(w) # u
        /\ \A j \in About(u) : j = k
        /\ announced[k].file # 0 /\ Len(data[announced[k].file]) = Size(u)

\* An attachment of the ways that trust the length, under a name of its own.
Alone(u) == u \in Ids /\ uploads[u].kind = "append" /\ SameFile(u) = {u}

UploadInv(u) == OwnFile(u) /\ OwnWorkers(u) /\ Over(u)

AssemblyInv == PlacesInv /\ FilesInv /\ \A u \in Ids : Alone(u) => UploadInv(u)

(***************************************************************************)
(* Parts, bytes and what is collected                                      *)
(***************************************************************************)

\* The parts of an upload lie one behind the other between 0 and its size.
LEMMA PartsInOrder ==
  ASSUME PlacesInv, NEW u \in Ids
  PROVE  /\ Count(u) \in Nat \ {0} /\ Size(u) \in Nat
         /\ \A i \in 1..Count(u) :
               /\ Offset(u, i) \in Nat /\ uploads[u].ends[i] \in Nat
               /\ Offset(u, i) < uploads[u].ends[i] /\ uploads[u].ends[i] <= Size(u)
               /\ Extent(u, i) \in Nat \ {0}
         /\ \A i, j \in 1..Count(u) : i < j => uploads[u].ends[i] <= Offset(u, j)
  <1> DEFINE ends == uploads[u].ends
  <1>1. /\ ends \in Seq(Nat \ {0}) /\ ends # <<>>
        /\ \A i, j \in DOMAIN ends : i < j => ends[i] < ends[j]
    BY UploadAssemblyAssumption DEF PlacesInv, UploadAssemblyAssumption, Ids
  <1>2. Len(ends) \in Nat \ {0} /\ DOMAIN ends = 1..Len(ends)
    BY <1>1, LenProperties, EmptySeq
  <1>3. \A i \in 1..Len(ends) : ends[i] \in Nat \ {0}
    BY <1>1, ElementOfSeq
  <1> HIDE DEF ends
  <1>4. Count(u) = Len(ends) /\ Size(u) = ends[Len(ends)]
    BY DEF Count, Size, ends
  <1>5. \A i \in 1..Len(ends) : Offset(u, i) = IF i = 1 THEN 0 ELSE ends[i - 1]
    BY DEF Offset, ends
  <1>6. \A i \in 1..Len(ends) : i # 1 => i - 1 \in 1..Len(ends)
    BY <1>2
  <1>7. \A i \in 1..Len(ends) :
           Offset(u, i) \in Nat /\ Offset(u, i) < ends[i] /\ ends[i] <= ends[Len(ends)]
    <2> TAKE i \in 1..Len(ends)
    <2>1. ends[i] <= ends[Len(ends)]
      BY <1>1, <1>2, <1>3
    <2>2. CASE i = 1
      BY <1>3, <1>5, <2>1, <2>2
    <2>3. CASE i # 1
      <3>1. i - 1 \in 1..Len(ends) /\ i - 1 < i
        BY <1>2, <2>3
      <3> QED
        BY <1>1, <1>2, <1>3, <1>5, <2>1, <2>3, <3>1
    <2> QED
      BY <2>2, <2>3
  <1>8. \A i \in 1..Len(ends) : Extent(u, i) = ends[i] - Offset(u, i)
    BY DEF Extent, ends
  <1>9. \A i, j \in 1..Len(ends) : i < j => ends[i] <= Offset(u, j)
    <2> TAKE i, j \in 1..Len(ends)
    <2> HAVE i < j
    <2>1. j # 1 /\ j - 1 \in 1..Len(ends) /\ (i = j - 1 \/ i < j - 1)
      BY <1>2
    <2>2. Offset(u, j) = ends[j - 1] /\ ends[i] \in Nat /\ ends[j - 1] \in Nat
      BY <1>3, <1>5, <2>1
    <2>3. i < j - 1 => ends[i] < ends[j - 1]
      BY <1>1, <1>2, <2>1
    <2> QED
      BY <2>1, <2>2, <2>3
  <1>10. Size(u) \in Nat
    BY <1>2, <1>3, <1>4
  <1>11. \A i \in 1..Count(u) :
            /\ Offset(u, i) \in Nat /\ ends[i] \in Nat
            /\ Offset(u, i) < ends[i] /\ ends[i] <= Size(u)
            /\ Extent(u, i) \in Nat \ {0}
    BY <1>3, <1>4, <1>7, <1>8
  <1> QED
    BY <1>2, <1>4, <1>9, <1>10, <1>11 DEF ends

\* The bytes of two parts are different, and they are bytes of the attachment.
LEMMA BytesApart ==
  ASSUME PlacesInv, NEW u \in Ids
  PROVE  /\ \A i \in 1..Count(u) :
               /\ Bytes(u, i) \subseteq 1..Size(u) /\ Bytes(u, i) # {}
               /\ IsFiniteSet(Bytes(u, i)) /\ Cardinality(Bytes(u, i)) = Extent(u, i)
         /\ \A i, j \in 1..Count(u) : Bytes(u, i) \cap Bytes(u, j) # {} => i = j
  <1>1. ASSUME NEW i \in 1..Count(u)
        PROVE  /\ Bytes(u, i) \subseteq 1..Size(u) /\ Bytes(u, i) # {}
               /\ IsFiniteSet(Bytes(u, i)) /\ Cardinality(Bytes(u, i)) = Extent(u, i)
    <2> PICK a, b : a = Offset(u, i) /\ b = uploads[u].ends[i]
      OBVIOUS
    <2>1. a \in Nat /\ b \in Nat /\ a < b /\ b <= Size(u) /\ Size(u) \in Nat
      BY PartsInOrder
    <2>2. Bytes(u, i) = (a + 1)..b /\ Extent(u, i) = b - a
      BY DEF Bytes, Extent
    <2>3. IsFiniteSet((a + 1)..b) /\ Cardinality((a + 1)..b) = b - a
      <3>1. a + 1 \in Int /\ b \in Int /\ ~(a + 1 > b) /\ b - (a + 1) + 1 = b - a
        BY <2>1
      <3> QED
        BY <3>1, FS_Interval
    <2>4. (a + 1)..b \subseteq 1..Size(u) /\ b \in (a + 1)..b
      BY <2>1
    <2> QED
      BY <2>2, <2>3, <2>4
  <1>2. ASSUME NEW i \in 1..Count(u), NEW j \in 1..Count(u), i < j
        PROVE  Bytes(u, i) \cap Bytes(u, j) = {}
    <2> PICK b, c, a, d : /\ a = Offset(u, i) /\ b = uploads[u].ends[i]
                          /\ c = Offset(u, j) /\ d = uploads[u].ends[j]
      OBVIOUS
    <2>1. a \in Nat /\ b \in Nat /\ c \in Nat /\ d \in Nat /\ b <= c
      BY <1>2, PartsInOrder
    <2>2. (a + 1)..b \cap (c + 1)..d = {}
      BY <2>1
    <2> QED
      BY <2>2 DEF Bytes
  <1>3. ASSUME NEW i \in 1..Count(u), NEW j \in 1..Count(u), Bytes(u, i) \cap Bytes(u, j) # {}
        PROVE  i = j
    <2>1. i \in Int /\ j \in Int
      BY PartsInOrder
    <2>2. ~(i < j) /\ ~(j < i)
      BY <1>2, <1>3
    <2> QED
      BY <2>1, <2>2
  <1> QED
    BY <1>1, <1>3

\* What a sequence has collected, as a one-to-one function from its places to bytes.
LEMMA CollectedBytes ==
  ASSUME PlacesInv, NEW u \in Ids, NEW s, Len(s) \in Nat,
         NEW P \in SUBSET (1..Count(u)), Collected(u, s, P),
         NEW T, \A i \in P : Bytes(u, i) \subseteq T, IsFiniteSet(T)
  PROVE  /\ Len(s) <= Cardinality(T)
         /\ Len(s) = Cardinality(T) =>
               \A b \in T : \E k \in 1..Len(s) : s[k] = <<u, b>>
  <1>1. PICK f : f = [k \in 1..Len(s) |-> s[k][2]]
    OBVIOUS
  <1>2. ASSUME NEW k \in 1..Len(s)
        PROVE  s[k] = <<u, f[k]>> /\ f[k] \in T
    <2>1. PICK i \in P : \E b \in Bytes(u, i) : s[k] = <<u, b>>
      BY DEF Collected
    <2>2. PICK b \in Bytes(u, i) : s[k] = <<u, b>>
      BY <2>1
    <2> QED
      BY <1>1, <2>2
  <1>3. f \in Injection(1..Len(s), T)
    <2>1. f \in [1..Len(s) -> T]
      BY <1>1, <1>2
    <2>2. \A j, k \in 1..Len(s) : f[j] = f[k] => j = k
      BY <1>2 DEF Collected
    <2> QED
      BY <2>1, <2>2 DEF Injection, IsInjective
  <1>4. IsFiniteSet(1..Len(s)) /\ Cardinality(1..Len(s)) = Len(s)
    <2>1. 1 \in Int /\ Len(s) \in Int /\ (1 > Len(s) => Len(s) = 0) /\ Len(s) - 1 + 1 = Len(s)
      OBVIOUS
    <2> QED
      BY <2>1, FS_Interval
  <1>5. /\ Cardinality(1..Len(s)) <= Cardinality(T)
        /\ Cardinality(1..Len(s)) = Cardinality(T) <=> f \in Surjection(1..Len(s), T)
    BY <1>3, FS_Injection
  <1>6. f \in Surjection(1..Len(s), T) => \A b \in T : \E k \in 1..Len(s) : f[k] = b
    BY DEF Surjection
  <1> QED
    BY <1>2, <1>4, <1>5, <1>6

\* The numbers of all bytes.
LEMMA AllBytes ==
  ASSUME PlacesInv, NEW u \in Ids
  PROVE  IsFiniteSet(1..Size(u)) /\ Cardinality(1..Size(u)) = Size(u) /\ Size(u) \in Nat
  <1>1. Size(u) \in Nat
    BY PartsInOrder
  <1>2. 1 \in Int /\ Size(u) \in Int /\ (1 > Size(u) => Size(u) = 0) /\ Size(u) - 1 + 1 = Size(u)
    BY <1>1
  <1> QED
    BY <1>1, <1>2, FS_Interval

\* What is as long as the attachment has all its bytes.
LEMMA AllCollected ==
  ASSUME PlacesInv, NEW u \in Ids, NEW s, Len(s) = Size(u), DOMAIN s = 1..Len(s),
         NEW P \in SUBSET (1..Count(u)), Collected(u, s, P)
  PROVE  ToSet(s) = ToSet(Whole(u))
  <1>1. \A i \in P : Bytes(u, i) \subseteq 1..Size(u)
    BY BytesApart
  <1>2. IsFiniteSet(1..Size(u)) /\ Cardinality(1..Size(u)) = Size(u) /\ Size(u) \in Nat
    BY AllBytes
  <1>3. \A b \in 1..Size(u) : \E k \in 1..Len(s) : s[k] = <<u, b>>
    BY <1>1, <1>2, CollectedBytes
  <1>4. \A k \in 1..Len(s) : \E b \in 1..Size(u) : s[k] = <<u, b>>
    BY <1>1 DEF Collected
  <1>5. ToSet(Whole(u)) = {<<u, b>> : b \in 1..Size(u)}
    BY DEF ToSet, Whole
  <1>6. ToSet(s) = {<<u, b>> : b \in 1..Size(u)}
    BY <1>3, <1>4 DEF ToSet
  <1> QED
    BY <1>5, <1>6

\* What lacks no more than part i has collected all others.
LEMMA OthersCollected ==
  ASSUME PlacesInv, NEW u \in Ids, NEW s, Len(s) \in Nat,
         NEW P \in SUBSET (1..Count(u)), Collected(u, s, P),
         NEW i \in (1..Count(u)) \ P, Len(s) + Extent(u, i) = Size(u)
  PROVE  (1..Count(u)) \ P \subseteq {i}
  <1> DEFINE T == (1..Size(u)) \ Bytes(u, i)
  <1>1. /\ IsFiniteSet(1..Size(u)) /\ Cardinality(1..Size(u)) = Size(u) /\ Size(u) \in Nat
        /\ Bytes(u, i) \subseteq 1..Size(u) /\ Cardinality(Bytes(u, i)) = Extent(u, i)
        /\ IsFiniteSet(Bytes(u, i)) /\ Extent(u, i) \in Nat
    BY AllBytes, BytesApart, PartsInOrder
  <1>2. IsFiniteSet(T) /\ Cardinality(T) = Size(u) - Extent(u, i)
    <2>1. (1..Size(u)) \cap Bytes(u, i) = Bytes(u, i)
      BY <1>1
    <2>2. /\ IsFiniteSet(T)
          /\ Cardinality(T) = Cardinality(1..Size(u)) - Cardinality((1..Size(u)) \cap Bytes(u, i))
      BY <1>1, FS_Difference
    <2> QED
      BY <1>1, <2>1, <2>2
  <1>3. \A j \in P : Bytes(u, j) \subseteq T
    BY BytesApart
  <1>4. Len(s) = Cardinality(T)
    BY <1>1, <1>2
  <1>5. \A b \in T : \E k \in 1..Len(s) : s[k] = <<u, b>>
    <2> HIDE DEF T
    <2> QED
      BY <1>2, <1>3, <1>4, CollectedBytes
  <1>6. ASSUME NEW j \in (1..Count(u)) \ P, j # i PROVE FALSE
    <2>1. PICK b \in Bytes(u, j) : b \in T
      BY <1>6, BytesApart
    <2>2. PICK k \in 1..Len(s) : s[k] = <<u, b>>
      BY <1>5, <2>1
    <2>3. PICK l \in P : \E c \in Bytes(u, l) : s[k] = <<u, c>>
      BY <2>2 DEF Collected
    <2>4. b \in Bytes(u, l)
      BY <2>2, <2>3
    <2>5. l = j
      BY <2>1, <2>4, BytesApart
    <2> QED
      BY <1>6, <2>1, <2>4, <2>5
  <1> QED
    BY <1>6

\* A part that is put behind what was collected without it.
LEMMA PartCollected ==
  ASSUME PlacesInv, NEW u \in Ids, NEW s, Len(s) \in Nat,
         NEW P \in SUBSET (1..Count(u)), Collected(u, s, P),
         NEW i \in (1..Count(u)) \ P
  PROVE  /\ Collected(u, At(s, Len(s), Units(u, i)), P \cup {i})
         /\ Len(At(s, Len(s), Units(u, i))) = Len(s) + Extent(u, i)
  <1> PICK m, n, e : m = Len(s) /\ n = Offset(u, i) /\ e = Extent(u, i)
    OBVIOUS
  <1>1. m \in Nat /\ n \in Nat /\ e \in Nat \ {0}
    BY PartsInOrder
  <1>2. Units(u, i) = [k \in 1..e |-> <<u, n + k>>] /\ Len(Units(u, i)) = e
    BY <1>1 DEF Units
  <1>3. Bytes(u, i) = (n + 1)..(n + e)
    BY PartsInOrder, SMTT(60) DEF Bytes, Extent
  <1> DEFINE t == At(s, Len(s), Units(u, i))
  <1>4. /\ Len(t) = m + e
        /\ \A k \in 1..m : t[k] = s[k]
        /\ \A k \in (m + 1)..(m + e) : t[k] = <<u, n + (k - m)>>
    <2>1. m + e > m /\ 1..m \subseteq 1..(m + e) /\ (m + 1)..(m + e) \subseteq 1..(m + e)
      BY <1>1
    <2>2. t = [k \in 1..(m + e) |->
                 CASE k \in (m + 1)..(m + e)                   -> Units(u, i)[k - m]
                   [] k \notin (m + 1)..(m + e) /\ k \in 1..m  -> s[k]
                   [] OTHER                                    -> Hole]
      BY <1>1, <1>2, <2>1 DEF At
    <2>3. \A k \in 1..m : k \notin (m + 1)..(m + e)
      BY <1>1
    <2>4. \A k \in (m + 1)..(m + e) : k - m \in 1..e
      BY <1>1
    <2>5. Len(t) = m + e
      BY <1>1, <2>2
    <2> HIDE DEF t
    <2>6. \A k \in 1..m : t[k] = s[k]
      BY <2>1, <2>2, <2>3
    <2>7. \A k \in (m + 1)..(m + e) : t[k] = Units(u, i)[k - m]
      BY <2>1, <2>2
    <2> QED
      BY <1>2, <2>4, <2>5, <2>6, <2>7
  <1> HIDE DEF t
  <1>5. \A k \in 1..(m + e) : k \in 1..m \/ k \in (m + 1)..(m + e)
    BY <1>1
  <1>6. ASSUME NEW k \in (m + 1)..(m + e)
        PROVE  n + (k - m) \in Bytes(u, i)
    BY <1>1, <1>3
  <1>7. ASSUME NEW k \in 1..m
        PROVE  \E j \in P : \E b \in Bytes(u, j) : t[k] = <<u, b>>
    BY <1>4 DEF Collected
  <1>8. \A k \in 1..Len(t) : \E j \in P \cup {i} : \E b \in Bytes(u, j) : t[k] = <<u, b>>
    BY <1>4, <1>5, <1>6, <1>7
  <1>9. ASSUME NEW j \in 1..m, NEW k \in (m + 1)..(m + e) PROVE t[j] # t[k]
    <2>1. PICK l \in P : \E b \in Bytes(u, l) : t[j] = <<u, b>>
      BY <1>7
    <2>2. t[k] = <<u, n + (k - m)>> /\ n + (k - m) \in Bytes(u, i)
      BY <1>4, <1>6
    <2>3. ASSUME t[j] = t[k] PROVE l = i
      <3>1. n + (k - m) \in Bytes(u, l)
        BY <2>1, <2>2, <2>3
      <3> QED
        BY <2>2, <3>1, BytesApart
    <2> QED
      BY <2>3
  <1>10. ASSUME NEW j \in 1..Len(t), NEW k \in 1..Len(t), t[j] = t[k] PROVE j = k
    <2>1. CASE j \in 1..m /\ k \in 1..m
      BY <1>4, <1>10, <2>1 DEF Collected
    <2>2. CASE j \in (m + 1)..(m + e) /\ k \in (m + 1)..(m + e)
      <3>1. <<u, n + (j - m)>> = <<u, n + (k - m)>>
        BY <1>4, <1>10, <2>2
      <3>2. n + (j - m) = n + (k - m)
        BY <3>1
      <3> QED
        BY <1>1, <2>2, <3>2
    <2> QED
      BY <1>4, <1>5, <1>9, <1>10, <2>1, <2>2
  <1>11. Collected(u, t, P \cup {i})
    BY <1>8, <1>10 DEF Collected
  <1> QED
    BY <1>4, <1>11 DEF t

(***************************************************************************)
(* Every part in one place                                                 *)
(***************************************************************************)

\* The places after a step, and the parts that may still be written: never a new one.
PlacesKept == PlacesInv' /\ \A u \in Ids : Coming(u)' \subseteq Coming(u)

\* Sending takes a part from the browser.
LEMMA PostPlaces ==
  ASSUME PlacesInv, NEW v \in Ids, Post(v)
  PROVE  PlacesKept
  <1> USE DEF PlacesInv
  <1> PICK i \in NextParts(v) :
        /\ posted' = [posted EXCEPT ![v] = @ \cup {i}]
        /\ ring' = Append(ring, <<v, i>>) \/ ring' = ring
    BY DEF Post
  <1>1. UNCHANGED <<uploads, pc, part>>
    BY DEF Post, workVars
  <1>2. i \in 1..Count(v) /\ i \notin posted[v]
    BY DEF NextParts
  <1>3. Ids' = Ids /\ Count(v) \in Nat /\ \A u : Count(u)' = Count(u)
    BY <1>1, PartsInOrder DEF Ids, Count
  <1>4. i \in Nat
    BY <1>2, <1>3
  <1>5. /\ posted'[v] = posted[v] \cup {i} /\ \A u \in Ids \ {v} : posted'[u] = posted[u]
        /\ posted' \in [Ids -> SUBSET Nat]
    BY <1>4
  <1> DEFINE Sent(q) == q[1] \in Ids /\ q[2] \in posted'[q[1]]
  <1>6. \A q : Posted(q) => Sent(q) /\ q # <<v, i>>
    BY <1>2, <1>5 DEF Posted
  <1>7. /\ ring' \in Seq(Ids \X Nat)
        /\ \A k \in 1..Len(ring') :
              \/ k \in 1..Len(ring) /\ ring'[k] = ring[k]
              \/ k = Len(ring) + 1 /\ ring'[k] = <<v, i>>
    <2>1. CASE ring' = ring
      BY <2>1
    <2>2. CASE ring' = Append(ring, <<v, i>>)
      <3>1. <<v, i>> \in Ids \X Nat
        BY <1>4
      <3> QED
        BY <2>2, <3>1, AppendProperties
    <2> QED
      BY <2>1, <2>2
  <1>8. Sent(<<v, i>>)
    BY <1>5
  <1> HIDE DEF Sent
  <1>9. \A k \in 1..Len(ring') : Sent(ring'[k])
    <2>1. \A k \in 1..Len(ring) : Sent(ring[k])
      BY <1>6
    <2> QED
      BY <1>7, <1>8, <2>1
  <1>10. \A j, k \in 1..Len(ring') : ring'[j] = ring'[k] => j = k
    BY <1>6, <1>7
  <1>11. \A w \in Workers : Busy(w)' =>
            /\ part'[w] \in Ids \X Nat /\ Sent(part'[w])
            /\ \A k \in 1..Len(ring') : ring'[k] # part'[w]
    <2> SUFFICES ASSUME NEW w \in Workers, Busy(w)
                 PROVE  /\ part[w] \in Ids \X Nat /\ Sent(part[w])
                        /\ \A k \in 1..Len(ring') : ring'[k] # part[w]
      BY <1>1 DEF Busy
    <2>1. part[w] \in Ids \X Nat /\ Posted(part[w]) /\ \A k \in 1..Len(ring) : ring[k] # part[w]
      OBVIOUS
    <2>2. Sent(part[w]) /\ part[w] # <<v, i>>
      BY <1>6, <2>1
    <2> QED
      BY <1>7, <2>1, <2>2
  <1>12. PlacesInv'
    <2>1. posted' \in [Ids' -> SUBSET Nat] /\ \A u \in Ids' : posted'[u] \subseteq 1..Count(u)'
      BY <1>2, <1>3, <1>5
    <2>2. ring' \in Seq(Ids' \X Nat) /\ part' \in [Workers -> (Ids' \X Nat) \cup {<<0, 0>>}]
      BY <1>1, <1>3, <1>7
    <2>3. \A x, w \in Workers : Busy(x)' /\ Busy(w)' /\ part'[x] = part'[w] => x = w
      BY <1>1 DEF Busy
    <2>4. \A k \in 1..Len(ring') : Posted(ring[k])'
      BY <1>3, <1>9 DEF Sent, Posted
    <2>5. \A w \in Workers : Busy(w)' =>
            /\ part'[w] \in Ids' \X Nat /\ Posted(part[w])'
            /\ \A k \in 1..Len(ring') : ring'[k] # part'[w]
      BY <1>3, <1>11 DEF Sent, Posted
    <2> QED
      BY <1>1, <1>10, <2>1, <2>2, <2>3, <2>4, <2>5
  <1>13. ASSUME NEW u \in Ids PROVE Coming(u)' \subseteq Coming(u)
    <2> SUFFICES ASSUME NEW j \in Coming(u)' PROVE j \in Coming(u)
      OBVIOUS
    <2>1. /\ j \in 1..Count(u)
          /\ \/ j \notin posted'[u]
             \/ \E k \in 1..Len(ring') : ring'[k] = <<u, j>>
             \/ \E w \in Workers : Early(w) /\ part[w] = <<u, j>>
      BY <1>1, <1>3 DEF Coming, Early
    <2>2. j \notin posted'[u] => j \notin posted[u]
      BY <1>5
    <2>3. ASSUME NEW k \in 1..Len(ring'), ring'[k] = <<u, j>>
          PROVE  j \notin posted[u] \/ \E l \in 1..Len(ring) : ring[l] = <<u, j>>
      BY <1>2, <1>7, <2>3
    <2> QED
      BY <2>1, <2>2, <2>3 DEF Coming
  <1> QED
    BY <1>12, <1>13 DEF PlacesKept

\* Taking moves a part from the ring to a worker, who is the only one to hold it.
LEMMA TakePlaces ==
  ASSUME PlacesInv, NEW w \in Workers, Take(w)
  PROVE  /\ PlacesKept
         /\ Busy(w)' /\ pc'[w] = "look" /\ \A v \in Workers \ {w} : pc'[v] = pc[v] /\ part'[v] = part[v]
         /\ Upload(w)' \in Ids /\ Number(w)' \in Coming(Upload(w)')
  <1> USE DEF PlacesInv
  <1>1. /\ ~Busy(w) /\ ring # <<>> /\ ring' = Tail(ring)
        /\ part' = [part EXCEPT ![w] = <<Head(ring)[1], Head(ring)[2]>>]
        /\ pc' = [pc EXCEPT ![w] = "look"] /\ UNCHANGED <<uploads, posted>>
    BY DEF Take
  <1> PICK q : q = ring[1]
    OBVIOUS
  <1>2. /\ Head(ring) = q /\ Len(ring) \in Nat \ {0} /\ 1 \in 1..Len(ring)
        /\ q \in Ids \X Nat /\ <<q[1], q[2]>> = q
    <2>1. Len(ring) \in Nat \ {0}
      BY <1>1, EmptySeq, LenProperties
    <2>2. ring[1] \in Ids \X Nat
      BY <2>1, ElementOfSeq
    <2> QED
      BY <2>1, <2>2
  <1>3. /\ ring' \in Seq(Ids \X Nat) /\ Len(ring') = Len(ring) - 1
        /\ \A k \in 1..Len(ring') : k + 1 \in 1..Len(ring) /\ ring'[k] = ring[k + 1]
    BY <1>1, <1>2, HeadTailProperties
  <1>4. /\ part' \in [Workers -> (Ids \X Nat) \cup {<<0, 0>>}]
        /\ part'[w] = q /\ pc'[w] = "look"
        /\ \A v \in Workers \ {w} : pc'[v] = pc[v] /\ part'[v] = part[v]
    BY <1>1, <1>2
  <1>5. pc' \in [Workers -> {"idle", "look", "create", "open", "small", "write",
                             "measure", "recheck", "rename"}]
    BY <1>1
  <1>6. Ids' = Ids /\ (\A u : Count(u)' = Count(u)) /\ \A x : Posted(x)' <=> Posted(x)
    BY <1>1 DEF Ids, Count, Posted
  <1>7. \A k \in 1..Len(ring') : Posted(ring'[k]) /\ ring'[k] # q
    <2> TAKE k \in 1..Len(ring')
    <2>1. k + 1 \in 1..Len(ring) /\ ring'[k] = ring[k + 1] /\ k + 1 # 1
      BY <1>2, <1>3
    <2> QED
      BY <1>2, <2>1
  <1>8. \A j, k \in 1..Len(ring') : ring'[j] = ring'[k] => j = k
    <2> TAKE j, k \in 1..Len(ring')
    <2> HAVE ring'[j] = ring'[k]
    <2>1. /\ j + 1 \in 1..Len(ring) /\ ring'[j] = ring[j + 1]
          /\ k + 1 \in 1..Len(ring) /\ ring'[k] = ring[k + 1]
      BY <1>3
    <2>2. j + 1 = k + 1
      BY <2>1
    <2>3. Len(ring') \in Nat
      BY <1>2, <1>3
    <2> QED
      BY <2>2, <2>3
  <1>9. \A v \in Workers \ {w} : Busy(v) => part[v] # q
    BY <1>2
  <1>10. \A v \in Workers : Busy(v)' =>
            /\ part'[v] \in Ids \X Nat /\ Posted(part'[v])
            /\ \A k \in 1..Len(ring') : ring'[k] # part'[v]
    <2> TAKE v \in Workers
    <2>1. CASE v = w
      BY <1>2, <1>4, <1>7, <2>1
    <2>2. CASE v # w
      <3>1. Busy(v)' <=> Busy(v)
        BY <1>4, <2>2 DEF Busy
      <3> QED
        BY <1>3, <1>4, <2>2, <3>1
    <2> QED
      BY <2>1, <2>2
  <1>11. \A v, x \in Workers : Busy(v)' /\ Busy(x)' /\ part'[v] = part'[x] => v = x
    <2>1. \A v \in Workers \ {w} : Busy(v)' <=> Busy(v)
      BY <1>4 DEF Busy
    <2> QED
      BY <1>4, <1>9, <2>1
  <1>12. PlacesInv'
    BY <1>1, <1>3, <1>4, <1>5, <1>6, <1>7, <1>8, <1>10, <1>11
  <1>13. ASSUME NEW u \in Ids PROVE Coming(u)' \subseteq Coming(u)
    <2> SUFFICES ASSUME NEW j \in Coming(u)' PROVE j \in Coming(u)
      OBVIOUS
    <2>1. /\ j \in 1..Count(u)
          /\ \/ j \notin posted[u]
             \/ \E k \in 1..Len(ring') : ring'[k] = <<u, j>>
             \/ \E v \in Workers : Early(v)' /\ part'[v] = <<u, j>>
      BY <1>1, <1>6 DEF Coming
    <2>2. ASSUME NEW k \in 1..Len(ring'), ring'[k] = <<u, j>>
          PROVE  \E l \in 1..Len(ring) : ring[l] = <<u, j>>
      <3>1. k + 1 \in 1..Len(ring) /\ ring[k + 1] = <<u, j>>
        BY <1>3, <2>2
      <3> QED
        BY <3>1
    <2>3. ASSUME NEW v \in Workers, Early(v)', part'[v] = <<u, j>>
          PROVE  \/ \E l \in 1..Len(ring) : ring[l] = <<u, j>>
                 \/ \E x \in Workers : Early(x) /\ part[x] = <<u, j>>
      <3>1. CASE v = w
        BY <1>2, <1>4, <2>3, <3>1
      <3>2. CASE v # w
        BY <1>4, <2>3, <3>2 DEF Early
      <3> QED
        BY <3>1, <3>2
    <2> QED
      BY <2>1, <2>2, <2>3 DEF Coming
  <1>14. q[1] \in Ids /\ q[2] \in Coming(q[1])
    <2>1. q[1] \in Ids /\ q[2] \in 1..Count(q[1]) /\ ring[1] = <<q[1], q[2]>>
      BY <1>2 DEF Posted
    <2> QED
      BY <1>2, <2>1 DEF Coming
  <1>15. Upload(w)' = q[1] /\ Number(w)' = q[2]
    BY <1>4 DEF Upload, Number
  <1> QED
    BY <1>4, <1>12, <1>13, <1>14, <1>15 DEF PlacesKept, Busy

\* A worker that goes on with its part, or is done with it.
LEMMA GotoPlaces ==
  ASSUME PlacesInv, NEW w \in Workers, Busy(w),
         NEW x \in {"idle", "create", "open", "small", "write", "measure", "recheck", "rename"},
         pc' = [pc EXCEPT ![w] = x], UNCHANGED <<uploads, posted, ring, part>>,
         x \in {"create", "open", "small", "write"} => Early(w)
  PROVE  /\ PlacesKept
         /\ pc'[w] = x /\ \A v \in Workers \ {w} : pc'[v] = pc[v]
         /\ x \notin {"create", "open", "small", "write"} => Number(w) \notin Coming(Upload(w))'
  <1> USE DEF PlacesInv
  <1>1. /\ pc'[w] = x /\ \A v \in Workers \ {w} : pc'[v] = pc[v]
        /\ pc' \in [Workers -> {"idle", "look", "create", "open", "small", "write",
                                "measure", "recheck", "rename"}]
    OBVIOUS
  <1>2. Ids' = Ids /\ (\A u : Count(u)' = Count(u)) /\ \A q : Posted(q)' <=> Posted(q)
    BY DEF Ids, Count, Posted
  <1>3. \A v \in Workers : Busy(v)' => Busy(v)
    BY <1>1 DEF Busy
  <1>4. \A v \in Workers : Early(v)' => Early(v)
    BY <1>1 DEF Early
  <1>5. PlacesInv'
    BY <1>1, <1>2, <1>3
  <1>6. \A u \in Ids : Coming(u)' \subseteq Coming(u)
    BY <1>2, <1>4 DEF Coming
  <1>7. ASSUME x \notin {"create", "open", "small", "write"} PROVE Number(w) \notin Coming(Upload(w))'
    <2> PICK u, i : u = Upload(w) /\ i = Number(w)
      OBVIOUS
    <2>1. part[w] = <<u, i>> /\ Posted(part[w]) /\ \A k \in 1..Len(ring) : ring[k] # part[w]
      BY DEF Upload, Number
    <2>2. i \in posted[u]
      BY <2>1 DEF Posted
    <2>3. \A v \in Workers : Early(v)' => v # w
      BY <1>1, <1>7 DEF Early
    <2>4. \A v \in Workers : Early(v)' /\ part[v] = <<u, i>> => FALSE
      BY <1>4, <2>1, <2>3 DEF Early, Busy
    <2>5. i \notin Coming(u)'
      BY <2>1, <2>2, <2>4 DEF Coming
    <2>6. Upload(w)' = u /\ Number(w) = i
      BY DEF Upload
    <2> QED
      BY <2>5, <2>6
  <1> QED
    BY <1>1, <1>5, <1>6, <1>7 DEF PlacesKept

\* Where a worker goes when it has written.
LEMMA WriteGoesOn ==
  ASSUME PlacesInv, NEW w \in Workers, Busy(w)
  PROVE  AfterWrite(w) \in {"idle", "rename", "recheck", "measure"}
  <1>1. Kind(w) \in Appending \cup Positioned
    <2>1. Upload(w) \in Ids
      BY DEF PlacesInv, Upload
    <2> QED
      BY <2>1, UploadAssemblyAssumption DEF PlacesInv, Kind, Ids, UploadAssemblyAssumption
  <1> QED
    BY <1>1 DEF AfterWrite, Appending, Positioned

\* Every step keeps every part in one place.
LEMMA PlacesNext == PlacesInv /\ [Next]_vars => PlacesKept
  <1> SUFFICES ASSUME PlacesInv, [Next]_vars PROVE PlacesKept
    OBVIOUS
  <1>1. ASSUME NEW v \in Ids, Post(v) PROVE PlacesKept
    BY <1>1, PostPlaces
  <1>2. ASSUME NEW w \in Workers, Work(w) PROVE PlacesKept
    <2>1. CASE Take(w)
      BY <2>1, TakePlaces
    <2>2. CASE ~Take(w)
      <3>1. /\ Busy(w) /\ UNCHANGED <<uploads, posted, ring, part>>
            /\ \E x \in {"idle", "create", "open", "small", "write", "measure", "recheck", "rename"} :
                  /\ pc' = [pc EXCEPT ![w] = x]
                  /\ x \in {"create", "open", "small", "write"} => Early(w)
        <4>1. CASE Look(w)
          BY <4>1 DEF Look, Goto, Busy, Early, Kind, Appending, Positioned
        <4>2. CASE Create(w) \/ Open(w) \/ GiveUp(w)
          BY <4>2 DEF Create, Open, GiveUp, Goto, Busy, Early
        <4>3. CASE Write(w)
          <5>1. AfterWrite(w) \in {"idle", "rename", "recheck", "measure"}
            <6>1. Busy(w)
              BY <4>3 DEF Write, Busy
            <6> QED
              BY <6>1, WriteGoesOn
          <5> QED
            BY <4>3, <5>1 DEF Write, Goto, Busy, Early
        <4>4. CASE Measure(w) \/ Recheck(w) \/ Rename(w) \/ Small(w)
          BY <4>4 DEF Measure, Recheck, Rename, Small, Goto, Busy
        <4> QED
          BY <1>2, <2>2, <4>1, <4>2, <4>3, <4>4 DEF Work
      <3> QED
        BY <3>1, GotoPlaces
    <2> QED
      BY <2>1, <2>2
  <1>3. CASE UNCHANGED vars
    <2>1. UNCHANGED <<uploads, posted, ring, pc, part>>
      BY <1>3 DEF vars, workVars
    <2> QED
      BY <2>1 DEF PlacesKept, PlacesInv, Coming, Ids, Count, Posted, Busy, Early
  <1> QED
    BY <1>1, <1>2, <1>3 DEF Next

(***************************************************************************)
(* Names and files                                                         *)
(***************************************************************************)

\* What a busy worker works on.
LEMMA Held ==
  ASSUME PlacesInv, NEW w \in Workers, Busy(w)
  PROVE  /\ Upload(w) \in Ids /\ Number(w) \in 1..Count(Upload(w)) /\ File(w) \in Names
         /\ part[w] = <<Upload(w), Number(w)>>
  <1>1. part[w] \in Ids \X Nat /\ Posted(part[w])
    BY DEF PlacesInv
  <1>2. Upload(w) \in Ids /\ Number(w) \in posted[Upload(w)] /\ part[w] = <<Upload(w), Number(w)>>
    BY <1>1 DEF Posted, Upload, Number
  <1>3. Number(w) \in 1..Count(Upload(w))
    BY <1>2 DEF PlacesInv
  <1> QED
    BY <1>2, <1>3 DEF File, Names

\* A part is a sequence of bytes, and so is a file it is written into.
LEMMA WrittenTyped ==
  ASSUME PlacesInv, FilesInv, NEW w \in Workers, Busy(w), NEW s \in Seq(Unit), NEW n \in Nat
  PROVE  /\ Units(Upload(w), Number(w)) \in Seq(Unit)
         /\ At(s, n, Units(Upload(w), Number(w))) \in Seq(Unit)
  <1> PICK u, i : u = Upload(w) /\ i = Number(w)
    OBVIOUS
  <1> PICK e, o : e = Extent(u, i) /\ o = Offset(u, i)
    OBVIOUS
  <1>1. u \in Ids /\ e \in Nat /\ o \in Nat
    BY Held, PartsInOrder
  <1> DEFINE t == Units(u, i)
  <1>2. t = [k \in 1..e |-> <<u, o + k>>]
    BY DEF Units
  <1>3. \A k \in 1..e : <<u, o + k>> \in Unit
    BY <1>1 DEF Unit
  <1>4. t \in Seq(Unit) /\ Len(t) = e
    BY <1>1, <1>2, <1>3
  <1> HIDE DEF t
  <1>5. At(s, n, t) \in Seq(Unit)
    <2> PICK m : m = IF n + Len(t) > Len(s) THEN n + Len(t) ELSE Len(s)
      OBVIOUS
    <2>1. m \in Nat /\ Len(s) \in Nat
      BY <1>1, <1>4, LenProperties
    <2> DEFINE v(k) == CASE k \in (n + 1)..(n + Len(t))                          -> t[k - n]
                         [] k \notin (n + 1)..(n + Len(t)) /\ k \in 1..Len(s)    -> s[k]
                         [] OTHER                                                -> Hole
    <2>2. ASSUME NEW k \in 1..m PROVE v(k) \in Unit
      <3>1. CASE k \in (n + 1)..(n + Len(t))
        <4>1. k - n \in 1..Len(t)
          BY <1>1, <1>4, <3>1
        <4>2. v(k) = t[k - n]
          BY <3>1
        <4> HIDE DEF v
        <4> QED
          BY <1>4, <4>1, <4>2, ElementOfSeq
      <3>2. CASE k \notin (n + 1)..(n + Len(t)) /\ k \in 1..Len(s)
        <4>1. v(k) = s[k]
          BY <3>2
        <4> HIDE DEF v
        <4> QED
          BY <3>2, <4>1, ElementOfSeq
      <3>3. CASE k \notin (n + 1)..(n + Len(t)) /\ k \notin 1..Len(s)
        <4>1. v(k) = Hole
          BY <3>3
        <4>2. Hole \in Unit
          BY DEF Hole, Unit
        <4> HIDE DEF v
        <4> QED
          BY <4>1, <4>2
      <3> QED
        BY <3>1, <3>2, <3>3
    <2>3. At(s, n, t) = [k \in 1..m |-> v(k)]
      BY DEF At
    <2> HIDE DEF v
    <2> QED
      BY <2>1, <2>2, <2>3
  <1> QED
    BY <1>4, <1>5 DEF t

\* The empty file, one more file, and one file replaced.
LEMMA FileLists ==
  ASSUME FilesInv, NEW t \in Seq(Unit)
  PROVE  /\ <<>> \in Seq(Unit)
         /\ Append(data, t) \in Seq(Seq(Unit)) /\ Len(Append(data, t)) = Len(data) + 1
         /\ Append(data, t)[Len(data) + 1] = t
         /\ \A f \in 1..Len(data) : Append(data, t)[f] = data[f]
         /\ \A f \in 1..Len(data) :
               LET d == [data EXCEPT ![f] = t]
               IN  /\ d \in Seq(Seq(Unit)) /\ Len(d) = Len(data) /\ d[f] = t
                   /\ \A g \in (1..Len(data)) \ {f} : d[g] = data[g]
         /\ Len(data) \in Nat
  <1>1. data \in Seq(Seq(Unit)) /\ <<>> \in Seq(Unit) /\ Len(data) \in Nat
    BY EmptySeq, LenProperties DEF FilesInv
  <1>2. /\ Append(data, t) \in Seq(Seq(Unit)) /\ Len(Append(data, t)) = Len(data) + 1
        /\ Append(data, t)[Len(data) + 1] = t
        /\ \A f \in 1..Len(data) : Append(data, t)[f] = data[f]
    BY <1>1, AppendProperties
  <1>3. ASSUME NEW f \in 1..Len(data)
        PROVE  LET d == [data EXCEPT ![f] = t]
               IN  /\ d \in Seq(Seq(Unit)) /\ Len(d) = Len(data) /\ d[f] = t
                   /\ \A g \in (1..Len(data)) \ {f} : d[g] = data[g]
    <2>1. DOMAIN data = 1..Len(data)
      BY <1>1, LenProperties
    <2> QED
      BY <1>1, <2>1, ExceptSeq
  <1> QED
    BY <1>1, <1>2, <1>3

\* What opening for writing does to the files: the name leads to a file, which is empty if
\* it is new or if it was emptied, and no other file changes.
LEMMA OpenedFiles ==
  ASSUME FilesInv, NEW f \in Names
  PROVE  /\ Opened(f) \in 1..Len(Kept(f)) /\ Opened(f) \in 1..Len(Emptied(f))
         /\ Kept(f) \in Seq(Seq(Unit)) /\ Emptied(f) \in Seq(Seq(Unit))
         /\ Len(data) <= Len(Kept(f)) /\ Len(data) <= Len(Emptied(f))
         /\ Len(Kept(f)) \in Nat /\ Len(Emptied(f)) \in Nat /\ Len(data) \in Nat
         /\ \A g \in 1..Len(data) : Kept(f)[g] = data[g]
         /\ \A g \in 1..Len(data) : g # name[f] => Emptied(f)[g] = data[g]
         /\ Emptied(f)[Opened(f)] = <<>>
         /\ name[f] = 0 => Opened(f) = Len(data) + 1 /\ Kept(f)[Opened(f)] = <<>>
         /\ name[f] # 0 => Opened(f) = name[f] /\ Kept(f) = data /\ Len(Emptied(f)) = Len(data)
  <1>1. name[f] \in Nat /\ name[f] <= Len(data)
    BY DEF FilesInv
  <1>2. /\ <<>> \in Seq(Unit) /\ Len(data) \in Nat
        /\ Append(data, <<>>) \in Seq(Seq(Unit)) /\ Len(Append(data, <<>>)) = Len(data) + 1
        /\ Append(data, <<>>)[Len(data) + 1] = <<>>
        /\ \A g \in 1..Len(data) : Append(data, <<>>)[g] = data[g]
        /\ data \in Seq(Seq(Unit))
    BY FileLists, EmptySeq DEF FilesInv
  <1>3. CASE name[f] = 0
    <2>1. /\ Opened(f) = Len(data) + 1
          /\ Kept(f) = Append(data, <<>>) /\ Emptied(f) = Append(data, <<>>)
      BY <1>3 DEF Opened, Kept, Emptied
    <2>2. Len(data) + 1 \in 1..(Len(data) + 1) /\ Len(data) <= Len(data) + 1 /\ Len(data) + 1 \in Nat
      BY <1>2
    <2> QED
      BY <1>2, <1>3, <2>1, <2>2
  <1>4. CASE name[f] # 0
    <2>1. /\ Opened(f) = name[f] /\ name[f] \in 1..Len(data)
          /\ Kept(f) = data /\ Emptied(f) = [data EXCEPT ![name[f]] = <<>>]
      BY <1>1, <1>2, <1>4 DEF Opened, Kept, Emptied
    <2> PICK d : d = Emptied(f)
      OBVIOUS
    <2>2. /\ d \in Seq(Seq(Unit)) /\ Len(d) = Len(data) /\ d[name[f]] = <<>>
          /\ \A g \in (1..Len(data)) \ {name[f]} : d[g] = data[g]
      BY <1>2, <2>1, FileLists
    <2> QED
      BY <1>2, <1>4, <2>1, <2>2
  <1> QED
    BY <1>3, <1>4

\* The uploads, their names and their parts do not change.
LEMMA PlanKept ==
  ASSUME [Next]_vars
  PROVE  /\ uploads' = uploads /\ Ids' = Ids /\ Names' = Names /\ Unit' = Unit
         /\ \A u, i : Count(u)' = Count(u) /\ Size(u)' = Size(u) /\ Offset(u, i)' = Offset(u, i)
                      /\ Extent(u, i)' = Extent(u, i)
  <1>1. uploads' = uploads
    BY DEF Next, Work, Post, Take, Look, Create, Open, GiveUp, Write, Measure, Recheck, Rename,
           Small, vars
  <1> QED
    BY <1>1 DEF Ids, Names, Unit, Count, Size, Offset, Extent

\* A step keeps the invariant of the files.
LEMMA FilesNext == PlacesInv /\ FilesInv /\ [Next]_vars => FilesInv'
  <1> SUFFICES ASSUME PlacesInv, FilesInv, [Next]_vars PROVE FilesInv'
    OBVIOUS
  <1>1. Ids' = Ids /\ Names' = Names /\ Unit' = Unit
    BY PlanKept
  <1>2. /\ fp \in [Workers -> Nat] /\ now_length \in [Workers -> Nat]
        /\ name \in [Names -> Nat] /\ (\A f \in Names : name[f] <= Len(data))
        /\ data \in Seq(Seq(Unit)) /\ Len(data) \in Nat
        /\ announced \in Seq([upload : Ids, file : Nat])
        /\ \A k \in 1..Len(announced) : announced[k].file <= Len(data)
        /\ \A w \in Workers : pc[w] = "write" => fp[w] \in 1..Len(data)
        /\ pc \in [Workers -> {"idle", "look", "create", "open", "small", "write",
                               "measure", "recheck", "rename"}]
    BY LenProperties DEF FilesInv, PlacesInv
  <1>3. CASE UNCHANGED fileVars /\ UNCHANGED <<fp, now_length, announced>>
             /\ \A w \in Workers : pc'[w] = "write" => pc[w] = "write"
    BY <1>1, <1>2, <1>3 DEF FilesInv, fileVars
  <1>4. ASSUME NEW v \in Ids, Post(v) PROVE FilesInv'
    BY <1>3, <1>4 DEF Post, workVars
  <1>5. ASSUME NEW w \in Workers, Work(w) PROVE FilesInv'
    <2>1. CASE Take(w)
      BY <1>2, <1>3, <2>1 DEF Take
    <2>2. CASE GiveUp(w)
      BY <1>2, <1>3, <2>2 DEF GiveUp, Goto
    <2>3. CASE Measure(w) \/ Recheck(w)
      BY <1>2, <1>3, <2>3 DEF Measure, Recheck, Goto
    <2>4. CASE Look(w)
      <3>1. Busy(w)
        BY <2>4 DEF Look, Busy
      <3>2. name[File(w)] \in 0..Len(data)
        BY <1>2, <3>1, Held
      <3>3. fp' \in [Workers -> Nat] /\ UNCHANGED <<now_length, announced, name, data>>
        BY <1>2, <2>4, <3>2 DEF Look, fileVars
      <3>4. \A v \in Workers : pc'[v] = "write" => fp'[v] \in 1..Len(data)
        <4> SUFFICES ASSUME NEW v \in Workers, pc'[v] = "write" PROVE fp'[v] \in 1..Len(data)
          OBVIOUS
        <4>1. CASE v # w
          BY <1>2, <2>4, <4>1 DEF Look, Goto
        <4>2. CASE v = w
          <5>1. pc'[w] = "write" => Exists(w)
            BY <1>2, <2>4 DEF Look, Goto
          <5> QED
            BY <1>2, <2>4, <3>2, <4>2, <5>1 DEF Look, Exists
        <4> QED
          BY <4>1, <4>2
      <3> QED
        BY <1>1, <1>2, <3>3, <3>4 DEF FilesInv
    <2>5. CASE Create(w) \/ Open(w)
      <3>1. Busy(w)
        BY <2>5 DEF Create, Open, Busy
      <3> PICK n : n = File(w)
        OBVIOUS
      <3>2. n \in Names
        BY <3>1, Held
      <3>3. /\ fp' = [fp EXCEPT ![w] = Opened(n)] /\ name' = [name EXCEPT ![n] = Opened(n)]
            /\ data' = Kept(n) \/ data' = Emptied(n)
            /\ UNCHANGED announced
            /\ \A v \in Workers \ {w} : pc'[v] = pc[v]
        BY <1>2, <2>5 DEF Create, Open, Goto
      <3>4. /\ data' \in Seq(Seq(Unit)) /\ Len(data) <= Len(data') /\ Len(data') \in Nat
            /\ Opened(n) \in 1..Len(data')
        BY <3>2, <3>3, OpenedFiles
      <3>5. now_length' \in [Workers -> Nat]
        <4>1. CASE Create(w)
          BY <1>2, <4>1 DEF Create
        <4>2. CASE Open(w)
          <5>1. fp'[w] = Opened(n) /\ now_length' = [now_length EXCEPT ![w] = Len(data'[fp'[w]])]
            BY <1>2, <3>3, <4>2 DEF Open
          <5>2. data'[Opened(n)] \in Seq(Unit)
            BY <3>4, ElementOfSeq
          <5>3. Len(data'[fp'[w]]) \in Nat
            BY <5>1, <5>2, LenProperties
          <5> QED
            BY <1>2, <5>1, <5>3
        <4> QED
          BY <2>5, <4>1, <4>2
      <3>6. fp' \in [Workers -> Nat] /\ name' \in [Names -> Nat]
        <4>1. Opened(n) \in Nat /\ fp \in [Workers -> Nat] /\ name \in [Names -> Nat]
          BY <1>2, <3>4
        <4> QED
          BY <3>2, <3>3, <4>1
      <3>7. \A f \in Names : name'[f] <= Len(data')
        BY <1>2, <3>3, <3>4
      <3>8. \A k \in 1..Len(announced) : announced[k].file <= Len(data')
        <4> TAKE k \in 1..Len(announced)
        <4>1. announced[k] \in [upload : Ids, file : Nat] /\ announced[k].file <= Len(data)
          BY <1>2, ElementOfSeq
        <4> QED
          BY <1>2, <3>4, <4>1
      <3>9. \A v \in Workers : pc'[v] = "write" => fp'[v] \in 1..Len(data')
        <4>1. fp'[w] \in 1..Len(data')
          BY <1>2, <3>3, <3>4
        <4>2. \A v \in Workers \ {w} : pc'[v] = "write" => fp'[v] \in 1..Len(data')
          BY <1>2, <3>3, <3>4
        <4> QED
          BY <4>1, <4>2
      <3> QED
        BY <1>1, <1>2, <3>3, <3>4, <3>5, <3>6, <3>7, <3>8, <3>9 DEF FilesInv
    <2>6. CASE Write(w)
      <3>1. Busy(w) /\ pc[w] = "write" /\ fp[w] \in 1..Len(data)
        BY <1>2, <2>6 DEF Write, Busy
      <3>2. Written(w) \in Seq(Unit)
        <4>1. data[fp[w]] \in Seq(Unit) /\ Len(data[fp[w]]) \in Nat
          BY <1>2, <3>1, ElementOfSeq, LenProperties
        <4>2. Offset(Upload(w), Number(w)) \in Nat
          BY <3>1, Held, PartsInOrder
        <4> QED
          BY <3>1, <4>1, <4>2, WrittenTyped DEF Written
      <3>3. data' \in Seq(Seq(Unit)) /\ Len(data') = Len(data)
        BY <2>6, <3>1, <3>2, FileLists DEF Write
      <3>4. \A v \in Workers : pc'[v] = "write" => pc[v] = "write"
        <4>1. \A v \in Workers \ {w} : pc'[v] = pc[v]
          BY <2>6 DEF Write, Goto
        <4> QED
          BY <3>1, <4>1
      <3> QED
        BY <1>1, <1>2, <2>6, <3>3, <3>4 DEF FilesInv, Write
    <2>7. CASE Rename(w)
      <3>1. Busy(w)
        BY <2>7 DEF Rename, Busy
      <3> PICK n : n = File(w)
        OBVIOUS
      <3>2. n \in Names /\ Upload(w) \in Ids /\ name[n] \in 0..Len(data)
        BY <1>2, <3>1, Held
      <3>3. /\ announced' = Append(announced, [upload |-> Upload(w), file |-> name[n]])
            /\ name' = [name EXCEPT ![n] = 0] /\ UNCHANGED <<data, fp, now_length>>
        BY <2>7 DEF Rename
      <3>4. /\ announced' \in Seq([upload : Ids, file : Nat])
            /\ \A k \in 1..Len(announced') : announced'[k].file <= Len(data)
        <4> PICK a : a = [upload |-> Upload(w), file |-> name[n]]
          OBVIOUS
        <4>1. a \in [upload : Ids, file : Nat] /\ a.file <= Len(data)
          BY <1>2, <3>2
        <4>2. /\ announced' = Append(announced, a) /\ Len(announced') = Len(announced) + 1
              /\ announced' \in Seq([upload : Ids, file : Nat]) /\ Len(announced) \in Nat
              /\ announced'[Len(announced) + 1] = a
              /\ \A k \in 1..Len(announced) : announced'[k] = announced[k]
          BY <1>2, <3>3, <4>1, AppendProperties, LenProperties
        <4>3. \A k \in 1..Len(announced') : k \in 1..Len(announced) \/ k = Len(announced) + 1
          BY <4>2
        <4>4. \A k \in 1..Len(announced) : announced[k].file <= Len(data)
          BY <1>2
        <4> QED
          BY <4>1, <4>2, <4>3, <4>4
      <3>5. name' \in [Names -> Nat] /\ \A f \in Names : name'[f] <= Len(data)
        <4>1. /\ name \in [Names -> Nat] /\ \A f \in Names : name[f] <= Len(data)
              /\ 0 \in Nat /\ 0 <= Len(data)
          BY <1>2
        <4> QED
          BY <3>2, <3>3, <4>1
      <3>6. \A v \in Workers : pc'[v] = "write" => pc[v] = "write"
        BY <1>2, <2>7 DEF Rename, Goto
      <3> QED
        BY <1>1, <1>2, <3>3, <3>4, <3>5, <3>6 DEF FilesInv
    <2>8. CASE Small(w)
      <3>1. Busy(w)
        BY <2>8 DEF Small, Busy
      <3>2. Upload(w) \in Ids /\ Units(Upload(w), Number(w)) \in Seq(Unit)
        BY <3>1, Held, WrittenTyped, EmptySeq
      <3>3. data' \in Seq(Seq(Unit)) /\ Len(data') = Len(data) + 1
        BY <2>8, <3>2, FileLists DEF Small
      <3>4. /\ announced' = Append(announced, [upload |-> Upload(w), file |-> Len(data')])
            /\ UNCHANGED <<name, fp, now_length>>
        BY <2>8 DEF Small
      <3>5. /\ announced' \in Seq([upload : Ids, file : Nat])
            /\ \A k \in 1..Len(announced') : announced'[k].file <= Len(data')
        <4>1. [upload |-> Upload(w), file |-> Len(data')] \in [upload : Ids, file : Nat]
          BY <1>2, <3>2, <3>3
        <4>2. \A k \in 1..Len(announced) : announced[k].file <= Len(data')
          <5> TAKE k \in 1..Len(announced)
          <5>1. announced[k] \in [upload : Ids, file : Nat] /\ announced[k].file <= Len(data)
            BY <1>2, ElementOfSeq
          <5> QED
            BY <1>2, <3>3, <5>1
        <4> QED
          BY <1>2, <3>3, <3>4, <4>1, <4>2, AppendProperties
      <3>6. \A f \in Names : name[f] <= Len(data')
        BY <1>2, <3>3
      <3>7. \A v \in Workers : pc'[v] = "write" => pc[v] = "write"
        BY <1>2, <2>8 DEF Small, Goto
      <3>8. \A v \in Workers : pc'[v] = "write" => fp[v] \in 1..Len(data')
        BY <1>2, <3>3, <3>7
      <3> QED
        BY <1>1, <1>2, <3>3, <3>4, <3>5, <3>6, <3>8 DEF FilesInv
    <2> QED
      BY <1>5, <2>1, <2>2, <2>3, <2>4, <2>5, <2>6, <2>7, <2>8 DEF Work
  <1>6. CASE UNCHANGED vars
    BY <1>3, <1>6 DEF vars, workVars
  <1> QED
    BY <1>4, <1>5, <1>6 DEF Next

(***************************************************************************)
(* Steps that leave the files of u alone                                   *)
(***************************************************************************)

\* The files of u and their names stay, and a worker of u at most sets out for them.
Quiet(u) ==
    /\ name'[uploads[u].file] = name[uploads[u].file] /\ About(u)' = About(u)
    /\ \A k \in About(u) : announced'[k].file = announced[k].file
    /\ \A f \in Belongs(u) :
          /\ f \in 1..Len(data') /\ data'[f] = data[f]
          /\ \A m \in Names : m # uploads[u].file => name'[m] # f
          /\ \A w \in Workers : pc'[w] = "write" /\ part'[w][1] # u => fp'[w] # f
    /\ \A w \in Workers : pc'[w] # "idle" /\ part'[w][1] = u =>
          \/ /\ pc'[w] = pc[w] /\ part'[w] = part[w]
             /\ fp'[w] = fp[w] /\ now_length'[w] = now_length[w]
          \/ pc'[w] \in {"look", "create", "open"} /\ Coming(u) # {}

\* What has been collected stays so when fewer parts may come.
LEMMA CollectedMore ==
  ASSUME NEW u, NEW s, NEW P, NEW Q, P \subseteq Q, Collected(u, s, P)
  PROVE  Collected(u, s, Q)
  BY DEF Collected

\* Quiet steps keep the invariant of u.
LEMMA QuietOK ==
  ASSUME PlacesInv, PlacesKept, [Next]_vars, NEW u \in Ids, UploadInv(u), Quiet(u)
  PROVE  UploadInv(u)'
  <1> PICK n : n = uploads[u].file
    OBVIOUS
  <1>1. /\ uploads' = uploads /\ Names' = Names /\ Count(u)' = Count(u) /\ Size(u)' = Size(u)
        /\ \A w : Extent(u, w)' = Extent(u, w)
    BY PlanKept
  <1>2. Coming(u)' \subseteq Coming(u)
    BY DEF PlacesKept
  <1>3. Belongs(u)' = Belongs(u)
    BY <1>1 DEF Quiet, Belongs
  <1>4. ASSUME NEW f \in Belongs(u)
        PROVE  /\ f \in 1..Len(data') /\ data'[f] = data[f]
               /\ \A m \in Names : m # n => name'[m] # f
               /\ \A w \in Workers : pc'[w] = "write" /\ part'[w][1] # u => fp'[w] # f
    BY DEF Quiet
  <1>5. \A f \in Belongs(u) : Collected(u, data[f], 1..Count(u) \ Coming(u)')
    <2> TAKE f \in Belongs(u)
    <2>1. Collected(u, data[f], 1..Count(u) \ Coming(u))
      BY DEF UploadInv, OwnFile
    <2>2. 1..Count(u) \ Coming(u) \subseteq 1..Count(u) \ Coming(u)'
      BY <1>2
    <2> QED
      BY <2>1, <2>2, CollectedMore
  <1>6. OwnFile(u)'
    <2>1. \A f \in Belongs(u) : Collected(u, data[f], 1..Count(u) \ Coming(u))'
      <3>1. \A t, Q : Collected(u, t, Q) => Collected(u, t, Q)'
        BY <1>1 DEF Collected, Bytes, Offset
      <3>2. \A f \in Belongs(u) : Collected(u, data'[f], (1..Count(u))' \ Coming(u)')
        BY <1>1, <1>4, <1>5
      <3> QED
        BY <3>1, <3>2
    <2> QED
      BY <1>1, <1>3, <1>4, <2>1 DEF OwnFile, Upload
  <1>7. ASSUME NEW w \in Workers, pc'[w] # "idle", part'[w][1] = u
        PROVE  \/ /\ pc'[w] = pc[w] /\ part'[w] = part[w] /\ Busy(w) /\ Upload(w) = u
                  /\ fp'[w] = fp[w] /\ now_length'[w] = now_length[w]
               \/ pc'[w] \in {"look", "create", "open"} /\ Coming(u) # {} /\ About(u) = {}
    <2>1. Coming(u) # {} => About(u) = {}
      BY DEF UploadInv, Over
    <2> QED
      BY <1>7, <2>1 DEF Quiet, Busy, Upload
  <1>8. name'[n] # 0 => name[n] = name'[n] /\ n = n /\ data'[name[n]] = data[name[n]]
    <2>1. name'[n] = name[n]
      BY DEF Quiet
    <2>2. name[n] # 0 => name[n] \in Belongs(u)
      BY DEF Belongs
    <2> QED
      BY <1>4, <2>1, <2>2
  <1>9. name'[n] = name[n]
    BY DEF Quiet
  <1>10. ASSUME NEW w \in Workers, pc'[w] # "idle", part'[w][1] = u
         PROVE  /\ pc'[w] \in {"look", "create", "open", "write", "rename"}
                /\ pc'[w] \in {"write", "rename"} => name'[n] # 0
                /\ pc'[w] = "write" => fp'[w] = name'[n]
                /\ pc'[w] = "write" /\ now_length'[w] + Extent(u, part'[w][2]) = Size(u) =>
                     Coming(u)' \subseteq {part'[w][2]} /\ Len(data'[fp'[w]]) = now_length'[w]
                /\ pc'[w] = "rename" =>
                     /\ Coming(u)' = {} /\ Len(data'[name'[n]]) = Size(u)
                     /\ \A v \in Workers : pc'[v] # "idle" /\ part'[v][1] = u => v = w
    <2>1. CASE pc'[w] \in {"look", "create", "open"}
      BY <2>1
    <2>2. CASE /\ pc'[w] = pc[w] /\ part'[w] = part[w] /\ Busy(w) /\ Upload(w) = u
               /\ fp'[w] = fp[w] /\ now_length'[w] = now_length[w]
      <3>1. /\ pc[w] \in {"look", "create", "open", "write", "rename"}
            /\ pc[w] \in {"write", "rename"} => name[n] # 0
            /\ pc[w] = "write" => fp[w] = name[n]
            /\ pc[w] = "write" /\ now_length[w] + Extent(u, part[w][2]) = Size(u) =>
                  Coming(u) \subseteq {part[w][2]} /\ Len(data[fp[w]]) = now_length[w]
            /\ pc[w] = "rename" =>
                  /\ Coming(u) = {} /\ Len(data[name[n]]) = Size(u)
                  /\ \A v \in Workers : Busy(v) /\ Upload(v) = u => v = w
        BY <2>2 DEF UploadInv, OwnWorkers, Length, Number
      <3>2. pc[w] = "write" /\ now_length[w] + Extent(u, part[w][2]) = Size(u) =>
              Coming(u)' \subseteq {part[w][2]} /\ Len(data'[fp[w]]) = now_length[w]
        BY <1>2, <1>8, <1>9, <3>1
      <3>3. pc[w] = "rename" =>
              /\ Coming(u)' = {} /\ Len(data'[name[n]]) = Size(u)
              /\ \A v \in Workers : pc'[v] # "idle" /\ part'[v][1] = u => v = w
        BY <1>2, <1>7, <1>8, <1>9, <3>1
      <3> QED
        BY <1>9, <2>2, <3>1, <3>2, <3>3
    <2> QED
      BY <1>7, <1>10, <2>1, <2>2
  <1>11. OwnWorkers(u)'
    BY <1>1, <1>10 DEF OwnWorkers, Busy, Upload, Number, Length
  <1>12. Over(u)'
    <2> SUFFICES ASSUME NEW k \in About(u)
                 PROVE  /\ Coming(u)' = {} /\ name'[n] = 0
                        /\ \A w \in Workers : pc'[w] # "idle" => part'[w][1] # u
                        /\ \A j \in About(u) : j = k
                        /\ announced'[k].file # 0 /\ Len(data'[announced'[k].file]) = Size(u)
      BY <1>1 DEF Over, Quiet, Busy, Upload
    <2>1. /\ Coming(u) = {} /\ name[n] = 0
          /\ \A w \in Workers : Busy(w) => Upload(w) # u
          /\ \A j \in About(u) : j = k
          /\ announced[k].file # 0 /\ Len(data[announced[k].file]) = Size(u)
      BY DEF UploadInv, Over
    <2>2. announced'[k].file = announced[k].file /\ announced[k].file \in Belongs(u)
      BY <2>1 DEF Quiet, Belongs
    <2> QED
      BY <1>2, <1>4, <1>7, <1>9, <2>1, <2>2
  <1> QED
    BY <1>6, <1>11, <1>12 DEF UploadInv

\* The files of u are files, and not those of other names.
LEMMA FilesOf ==
  ASSUME FilesInv, NEW u \in Ids, UploadInv(u)
  PROVE  \A f \in Belongs(u) :
            /\ f \in 1..Len(data) /\ f # 0 /\ f # Len(data) + 1
            /\ \A m \in Names : m # uploads[u].file => name[m] # f
            /\ \A w \in Workers : pc[w] = "write" /\ part[w][1] # u => fp[w] # f
  <1>1. Len(data) \in Nat
    BY LenProperties DEF FilesInv
  <1> QED
    BY <1>1 DEF UploadInv, OwnFile, Upload

\* What is sent or taken changes no file.
LEMMA ComeQuiet ==
  ASSUME PlacesInv, FilesInv, NEW u \in Ids, UploadInv(u),
         \/ \E v \in Ids : Post(v)
         \/ \E w \in Workers : Take(w)
         \/ UNCHANGED vars
  PROVE  Quiet(u)
  <1>1. UNCHANGED <<name, data, announced, fp, now_length>>
    BY DEF Post, Take, vars, workVars, fileVars
  <1>2. About(u)' = About(u)
    BY <1>1 DEF About
  <1>3. CASE UNCHANGED <<pc, part>>
    BY <1>1, <1>2, <1>3, FilesOf DEF Quiet
  <1>4. ASSUME NEW w \in Workers, Take(w) PROVE Quiet(u)
    <2>1. /\ pc'[w] = "look" /\ \A v \in Workers \ {w} : pc'[v] = pc[v] /\ part'[v] = part[v]
          /\ Number(w)' \in Coming(Upload(w)')
      BY <1>4, TakePlaces
    <2>2. part'[w][1] = u => Coming(u) # {}
      BY <2>1 DEF Upload
    <2>3. \A v \in Workers : pc'[v] = "write" => pc[v] = "write" /\ part'[v] = part[v]
      BY <2>1
    <2>4. \A f \in Belongs(u) : \A v \in Workers : pc'[v] = "write" /\ part'[v][1] # u => fp'[v] # f
      BY <1>1, <2>3, FilesOf
    <2>5. \A v \in Workers : pc'[v] # "idle" /\ part'[v][1] = u =>
            \/ /\ pc'[v] = pc[v] /\ part'[v] = part[v]
               /\ fp'[v] = fp[v] /\ now_length'[v] = now_length[v]
            \/ pc'[v] \in {"look", "create", "open"} /\ Coming(u) # {}
      BY <1>1, <2>1, <2>2
    <2> QED
      BY <1>1, <1>2, <2>4, <2>5, FilesOf DEF Quiet
  <1> QED
    BY <1>3, <1>4 DEF Post, vars, workVars

\* A worker of another name, and one of u that looks or gives up, leaves the files alone.
LEMMA WorkQuiet ==
  ASSUME PlacesInv, FilesInv, NEW u \in Ids, Alone(u), UploadInv(u),
         NEW w \in Workers, Work(w), ~Take(w),
         Upload(w) = u => Look(w) \/ GiveUp(w)
  PROVE  Quiet(u)
  <1> PICK n : n = uploads[u].file
    OBVIOUS
  <1>1. /\ Busy(w) /\ part' = part
        /\ \A v \in Workers \ {w} : /\ pc'[v] = pc[v] /\ fp'[v] = fp[v]
                                    /\ now_length'[v] = now_length[v]
    <2>1. pc \in [Workers -> {"idle", "look", "create", "open", "small", "write",
                              "measure", "recheck", "rename"}]
          /\ fp \in [Workers -> Nat] /\ now_length \in [Workers -> Nat]
      BY DEF PlacesInv, FilesInv
    <2> QED
      BY <2>1 DEF Work, Look, Create, Open, GiveUp, Write, Measure, Recheck, Rename, Small,
                  Goto, Busy
  <1> PICK m : m = File(w)
    OBVIOUS
  <1>2. m \in Names /\ (Upload(w) # u => m # n)
    <2>1. Upload(w) \in Ids /\ File(w) \in Names
      BY <1>1, Held
    <2> QED
      BY <2>1 DEF Alone, SameFile, File
  <1>3. /\ Len(data) \in Nat
        /\ name \in [Names -> Nat] /\ pc \in [Workers -> {"idle", "look", "create", "open", "small",
                                                 "write", "measure", "recheck", "rename"}]
        /\ fp \in [Workers -> Nat] /\ now_length \in [Workers -> Nat]
        /\ data \in Seq(Seq(Unit)) /\ announced \in Seq([upload : Ids, file : Nat])
    BY LenProperties DEF FilesInv, PlacesInv
  \* what the step does to names, files and announcements
  <1>4. CASE Look(w) \/ GiveUp(w) \/ Measure(w) \/ Recheck(w)
    <2>1. UNCHANGED <<name, data, announced, now_length>>
      BY <1>4 DEF Look, GiveUp, Measure, Recheck, fileVars
    <2>2. About(u)' = About(u)
      BY <2>1 DEF About
    <2>3. ~Look(w) => UNCHANGED fp /\ pc'[w] # "write"
      BY <1>3, <1>4 DEF GiveUp, Measure, Recheck, Goto
    <2>4. Look(w) => fp'[w] = name[m] /\ (pc'[w] = "write" => Upload(w) # u)
      <3>1. ASSUME Look(w) PROVE fp'[w] = name[m]
        BY <1>3, <3>1 DEF Look
      <3>2. ASSUME Look(w), Upload(w) = u PROVE pc'[w] # "write"
        <4>1. Kind(w) \in Appending
          BY <3>2 DEF Alone, Kind, Appending
        <4> QED
          BY <1>3, <3>2, <4>1 DEF Look, Goto, Appending, Positioned
      <3> QED
        BY <3>1, <3>2
    <2>5. \A f \in Belongs(u) : \A v \in Workers : pc'[v] = "write" /\ part'[v][1] # u => fp'[v] # f
      <3>1. \A f \in Belongs(u) : pc'[w] = "write" /\ part[w][1] # u => fp'[w] # f
        <4>1. \A f \in Belongs(u) : m # n => name[m] # f
          BY <1>2, FilesOf
        <4> QED
          BY <1>2, <2>3, <2>4, <4>1 DEF Upload
      <3>2. \A f \in Belongs(u) : \A v \in Workers \ {w} : pc[v] = "write" /\ part[v][1] # u => fp[v] # f
        BY FilesOf
      <3> QED
        BY <1>1, <3>1, <3>2
    <2>6. ASSUME pc'[w] # "idle", part[w][1] = u
          PROVE  pc'[w] \in {"look", "create", "open"} /\ Coming(u) # {}
      <3>1. Upload(w) = u /\ Look(w)
        <4>1. GiveUp(w) => pc'[w] = "idle"
          BY <1>3 DEF GiveUp, Goto
        <4> QED
          BY <2>6, <4>1 DEF Upload
      <3>2. Kind(w) \in Appending /\ Kind(w) # "flag"
        BY <3>1 DEF Alone, Kind, Appending
      <3>3. pc'[w] \in {"create", "open"}
        BY <1>3, <3>1, <3>2 DEF Look, Goto, Appending, Positioned
      <3>4. Early(w) /\ part[w] = <<u, Number(w)>> /\ Number(w) \in 1..Count(u)
        BY <1>1, <3>1, Held DEF Look, Early
      <3>5. Number(w) \in Coming(u)
        BY <3>4 DEF Coming
      <3> QED
        BY <3>3, <3>5
    <2>7. \A v \in Workers : pc'[v] # "idle" /\ part'[v][1] = u =>
            \/ /\ pc'[v] = pc[v] /\ part'[v] = part[v]
               /\ fp'[v] = fp[v] /\ now_length'[v] = now_length[v]
            \/ pc'[v] \in {"look", "create", "open"} /\ Coming(u) # {}
      BY <1>1, <2>6
    <2> QED
      BY <2>1, <2>2, <2>5, <2>7, FilesOf DEF Quiet
  <1>5. CASE ~(Look(w) \/ GiveUp(w) \/ Measure(w) \/ Recheck(w))
    <2>1. Upload(w) # u /\ m # n /\ part[w][1] # u
      BY <1>2, <1>5 DEF Upload
    <2>2. Create(w) \/ Open(w) \/ Write(w) \/ Rename(w) \/ Small(w)
      BY <1>5 DEF Work
    <2>3. /\ name'[n] = name[n]
          /\ \A f \in Belongs(u) : /\ f \in 1..Len(data') /\ data'[f] = data[f]
                                   /\ \A l \in Names : l # n => name'[l] # f
                                   /\ pc'[w] = "write" => fp'[w] # f
      <3>1. ASSUME NEW f \in Belongs(u)
            PROVE  f \in 1..Len(data) /\ f # 0 /\ f # Len(data) + 1
                   /\ \A l \in Names : l # n => name[l] # f
        BY FilesOf
      <3>2. CASE Create(w) \/ Open(w)
        <4>1. /\ fp'[w] = Opened(m) /\ name' = [name EXCEPT ![m] = Opened(m)]
              /\ data' = Kept(m) \/ data' = Emptied(m)
          BY <1>3, <3>2 DEF Create, Open
        <4>2. \A f \in Belongs(u) : Opened(m) # f /\ name[m] # f
          BY <1>2, <2>1, <3>1, OpenedFiles
        <4>3. \A f \in Belongs(u) : f \in 1..Len(data') /\ data'[f] = data[f]
          <5> TAKE f \in Belongs(u)
          <5>1. f \in 1..Len(data) /\ f # name[m]
            BY <3>1, <4>2
          <5>2. Len(data) <= Len(data') /\ Len(data') \in Nat /\ data'[f] = data[f]
            BY <1>2, <4>1, <5>1, OpenedFiles
          <5> QED
            BY <1>3, <5>1, <5>2
        <4>4. \A l \in Names : name'[l] = IF l = m THEN Opened(m) ELSE name[l]
          BY <1>3, <4>1
        <4>5. n \in Names
          BY DEF Names
        <4> QED
          BY <2>1, <3>1, <4>1, <4>2, <4>3, <4>4, <4>5
      <3>3. CASE Write(w)
        <4>1. /\ UNCHANGED name /\ data' = [data EXCEPT ![fp[w]] = Written(w)]
              /\ pc[w] = "write"
          BY <3>3 DEF Write
        <4>2. \A f \in Belongs(u) : f # fp[w]
          BY <2>1, <4>1, FilesOf
        <4>3. pc'[w] # "write"
          <5>1. AfterWrite(w) # "write"
            BY <1>1, WriteGoesOn
          <5> QED
            BY <1>3, <3>3, <5>1 DEF Write, Goto
        <4>4. fp[w] \in 1..Len(data) /\ DOMAIN data = 1..Len(data)
          BY <1>3, <4>1, LenProperties DEF FilesInv
        <4>5. Len(data') = Len(data)
          BY <1>3, <4>1, <4>4
        <4> QED
          BY <3>1, <4>1, <4>2, <4>3, <4>4, <4>5
      <3>4. CASE Rename(w)
        <4>1. name' = [name EXCEPT ![m] = 0] /\ UNCHANGED data
          BY <3>4 DEF Rename
        <4>2. pc'[w] # "write"
          BY <1>3, <3>4 DEF Rename, Goto
        <4>3. \A l \in Names : name'[l] = IF l = m THEN 0 ELSE name[l]
          BY <1>3, <4>1
        <4>4. n \in Names
          BY DEF Names
        <4> QED
          BY <2>1, <3>1, <4>1, <4>2, <4>3, <4>4
      <3>5. CASE Small(w)
        <4>1. UNCHANGED name /\ data' = Append(data, Units(Upload(w), Number(w)))
          BY <3>5 DEF Small
        <4>2. pc'[w] # "write"
          BY <1>3, <3>5 DEF Small, Goto
        <4>3. Units(Upload(w), Number(w)) \in Seq(Unit)
          BY <1>1, WrittenTyped, EmptySeq
        <4>4. Len(data') = Len(data) + 1 /\ \A f \in 1..Len(data) : data'[f] = data[f]
          BY <4>1, <4>3, FileLists
        <4> QED
          BY <1>3, <3>1, <4>1, <4>2, <4>4
      <3> QED
        BY <2>2, <3>2, <3>3, <3>4, <3>5
    <2>4. About(u)' = About(u) /\ \A k \in About(u) : announced'[k].file = announced[k].file
      <3>1. CASE UNCHANGED announced
        BY <3>1 DEF About
      <3>2. ASSUME NEW g, announced' = Append(announced, [upload |-> Upload(w), file |-> g])
            PROVE  About(u)' = About(u) /\ \A k \in About(u) : announced'[k].file = announced[k].file
        <4> PICK a : a = [upload |-> Upload(w), file |-> g]
          OBVIOUS
        <4>1. /\ DOMAIN announced = 1..Len(announced) /\ DOMAIN announced' = 1..(Len(announced) + 1)
              /\ announced'[Len(announced) + 1] = a /\ a.upload # u /\ Len(announced) \in Nat
              /\ \A k \in 1..Len(announced) : announced'[k] = announced[k]
          BY <1>3, <2>1, <3>2, LenProperties
        <4> QED
          BY <4>1 DEF About
      <3> QED
        BY <2>2, <3>1, <3>2 DEF Create, Open, Write, Rename, Small
    <2>5. \A f \in Belongs(u) : \A v \in Workers : pc'[v] = "write" /\ part'[v][1] # u => fp'[v] # f
      <3>1. \A f \in Belongs(u) : \A v \in Workers \ {w} : pc[v] = "write" /\ part[v][1] # u => fp[v] # f
        BY FilesOf
      <3> QED
        BY <1>1, <2>3, <3>1
    <2>6. \A v \in Workers : pc'[v] # "idle" /\ part'[v][1] = u =>
            /\ pc'[v] = pc[v] /\ part'[v] = part[v]
            /\ fp'[v] = fp[v] /\ now_length'[v] = now_length[v]
      BY <1>1, <2>1
    <2> QED
      BY <2>3, <2>4, <2>5, <2>6 DEF Quiet
  <1> QED
    BY <1>4, <1>5

(***************************************************************************)
(* Steps of the workers of u on its files                                  *)
(***************************************************************************)

\* Beside a worker that has still to write, none of u is about to rename, and none found
\* the file long enough.
LEMMA StillToWrite ==
  ASSUME PlacesInv, NEW u \in Ids, UploadInv(u), NEW w \in Workers, Early(w), Upload(w) = u
  PROVE  /\ Number(w) \in Coming(u) /\ Number(w) \in 1..Count(u) /\ part[w] = <<u, Number(w)>>
         /\ About(u) = {}
         /\ \A v \in Workers \ {w} : Busy(v) /\ Upload(v) = u =>
               /\ pc[v] \in {"look", "create", "open", "write"}
               /\ pc[v] = "write" =>
                     /\ name[uploads[u].file] # 0 /\ fp[v] = name[uploads[u].file]
                     /\ now_length[v] + Length(v) # Size(u)
  <1>1. Busy(w) /\ part[w] = <<u, Number(w)>> /\ Number(w) \in 1..Count(u)
    BY Held DEF Early, Busy
  <1>2. Number(w) \in Coming(u)
    BY <1>1 DEF Coming
  <1>3. About(u) = {}
    BY <1>2 DEF UploadInv, Over
  <1>4. ASSUME NEW v \in Workers \ {w}, Busy(v), Upload(v) = u
        PROVE  /\ pc[v] \in {"look", "create", "open", "write"}
               /\ pc[v] = "write" =>
                     /\ name[uploads[u].file] # 0 /\ fp[v] = name[uploads[u].file]
                     /\ now_length[v] + Length(v) # Size(u)
    <2>1. part[v] # part[w] /\ part[v] = <<u, Number(v)>>
      BY <1>1, <1>4, Held DEF PlacesInv
    <2>2. Number(v) # Number(w)
      BY <1>1, <2>1
    <2>3. ~(Coming(u) \subseteq {Number(v)}) /\ Coming(u) # {}
      BY <1>2, <2>2
    <2> QED
      BY <1>4, <2>3 DEF UploadInv, OwnWorkers
  <1> QED
    BY <1>1, <1>2, <1>3, <1>4

\* Making the file, or opening it, for a part of u.
LEMMA OpenOK ==
  ASSUME PlacesInv, FilesInv, PlacesKept, [Next]_vars, NEW u \in Ids, Alone(u), UploadInv(u),
         NEW w \in Workers, Upload(w) = u, Create(w) \/ Open(w)
  PROVE  UploadInv(u)'
  <1> PICK n, g : n = uploads[u].file /\ g = Opened(n)
    OBVIOUS
  <1>1. /\ uploads' = uploads /\ Names' = Names /\ Count(u)' = Count(u) /\ Size(u)' = Size(u)
        /\ \A i : Extent(u, i)' = Extent(u, i)
    BY PlanKept
  <1>2. Early(w) /\ File(w) = n /\ n \in Names
    BY DEF Create, Open, Early, File, Names
  <1>3. /\ Number(w) \in Coming(u) /\ Number(w) \in 1..Count(u) /\ part[w] = <<u, Number(w)>>
        /\ About(u) = {}
        /\ \A v \in Workers \ {w} : Busy(v) /\ Upload(v) = u =>
              /\ pc[v] \in {"look", "create", "open", "write"}
              /\ pc[v] = "write" => /\ name[n] # 0 /\ fp[v] = name[n]
                                    /\ now_length[v] + Length(v) # Size(u)
    BY <1>2, StillToWrite
  <1>4. /\ Len(data) \in Nat /\ name \in [Names -> Nat]
        /\ pc \in [Workers -> {"idle", "look", "create", "open", "small",
                               "write", "measure", "recheck", "rename"}]
        /\ fp \in [Workers -> Nat] /\ now_length \in [Workers -> Nat]
    BY LenProperties DEF FilesInv, PlacesInv
  <1>5. /\ part' = part /\ announced' = announced /\ name' = [name EXCEPT ![n] = g]
        /\ fp' = [fp EXCEPT ![w] = g]
        /\ \A v \in Workers \ {w} : pc'[v] = pc[v] /\ now_length'[v] = now_length[v]
        /\ pc'[w] = "open" \/ (pc'[w] = "write" /\ now_length'[w] = Len(data'[g]))
    <2>1. CASE Create(w)
      <3>1. Kind(w) \in Appending
        BY DEF Alone, Kind, Appending
      <3> QED
        BY <1>2, <1>4, <2>1, <3>1 DEF Create, Goto
    <2>2. CASE Open(w)
      BY <1>2, <1>4, <2>2 DEF Open, Goto
    <2> QED
      BY <2>1, <2>2
  <1>6. /\ g \in 1..Len(data') /\ g # 0
        /\ data'[g] \in Seq(Unit)
        /\ data'[g] = <<>> \/ (name[n] = g /\ data'[g] = data[g])
        /\ name[n] = 0 => g = Len(data) + 1
        /\ name[n] # 0 => g = name[n]
    <2>1. data' = Emptied(n) \/ data' = Kept(n)
      BY <1>2 DEF Create, Open
    <2>2. data' = Emptied(n) => data'[g] = <<>>
      BY <1>2, OpenedFiles
    <2>3. data' = Kept(n) => data'[g] = <<>> \/ (name[n] = g /\ data'[g] = data[g])
      BY <1>2, OpenedFiles
    <2>4. g \in 1..Len(data') /\ data' \in Seq(Seq(Unit)) /\ Len(data') \in Nat
      BY <1>2, <2>1, OpenedFiles
    <2>5. data'[g] \in Seq(Unit)
      BY <2>4, ElementOfSeq
    <2>6. /\ name[n] = 0 => g = Len(data) + 1
          /\ name[n] # 0 => g = name[n]
      BY <1>2, OpenedFiles
    <2> QED
      BY <2>1, <2>2, <2>3, <2>4, <2>5, <2>6
  <1>7. name'[n] = g /\ \A m \in Names \ {n} : name'[m] = name[m] /\ name[m] # g
    <2>1. name'[n] = g /\ \A m \in Names \ {n} : name'[m] = name[m]
      BY <1>2, <1>4, <1>5
    <2>2. \A m \in Names \ {n} : name[m] # g
      <3>1. CASE name[n] = 0
        BY <1>4, <1>6, <3>1 DEF FilesInv
      <3>2. CASE name[n] # 0
        <4>1. name[n] \in Belongs(u)
          BY <3>2 DEF Belongs
        <4> QED
          BY <1>6, <3>2, <4>1, FilesOf
      <3> QED
        BY <3>1, <3>2
    <2> QED
      BY <2>1, <2>2
  <1>8. \A v \in Workers : pc'[v] = "write" /\ part'[v][1] # u => fp'[v] # g
    <2> SUFFICES ASSUME NEW v \in Workers \ {w}, pc[v] = "write", part[v][1] # u PROVE fp[v] # g
      BY <1>3, <1>4, <1>5
    <2>1. CASE name[n] = 0
      BY <1>4, <1>6, <2>1 DEF FilesInv
    <2>2. CASE name[n] # 0
      <3>1. name[n] \in Belongs(u)
        BY <2>2 DEF Belongs
      <3> QED
        BY <1>6, <2>2, <3>1, FilesOf
    <2> QED
      BY <2>1, <2>2
  <1>9. About(u)' = {} /\ Belongs(u)' = {g}
    <2>1. About(u)' = {}
      BY <1>3, <1>5 DEF About
    <2> QED
      BY <1>1, <1>6, <1>7, <2>1 DEF Belongs
  <1>10. Collected(u, data'[g], 1..Count(u) \ Coming(u)')
    <2>1. CASE data'[g] = <<>>
      BY <2>1 DEF Collected
    <2>2. CASE name[n] = g /\ data'[g] = data[g]
      <3>1. name[n] \in Belongs(u)
        BY <1>6, <2>2 DEF Belongs
      <3>2. Collected(u, data[g], 1..Count(u) \ Coming(u))
        BY <2>2, <3>1 DEF UploadInv, OwnFile
      <3>3. 1..Count(u) \ Coming(u) \subseteq 1..Count(u) \ Coming(u)'
        BY DEF PlacesKept
      <3> QED
        BY <2>2, <3>2, <3>3, CollectedMore
    <2> QED
      BY <1>6, <2>1, <2>2
  <1>11. OwnFile(u)'
    <2>1. \A t, Q : Collected(u, t, Q) => Collected(u, t, Q)'
      BY <1>1 DEF Collected, Bytes, Offset
    <2> QED
      BY <1>1, <1>6, <1>7, <1>8, <1>9, <1>10, <2>1 DEF OwnFile, Upload
  <1>12. now_length'[w] = Len(data'[g]) /\ now_length'[w] + Extent(u, Number(w)) = Size(u)
           => Coming(u)' \subseteq {Number(w)}
    <2> SUFFICES ASSUME Len(data'[g]) + Extent(u, Number(w)) = Size(u)
                 PROVE  Coming(u)' \subseteq {Number(w)}
      OBVIOUS
    <2>1. Early(w)'
      BY <1>5 DEF Early
    <2>2. Number(w) \in Coming(u)'
      BY <1>1, <1>3, <1>5, <2>1 DEF Coming
    <2>3. Coming(u)' \subseteq 1..Count(u)
      BY <1>1 DEF Coming
    <2>4. Len(data'[g]) \in Nat
      BY <1>6, LenProperties
    <2> PICK t, Q : t = data'[g] /\ Q = 1..Count(u) \ Coming(u)'
      OBVIOUS
    <2>5. Q \in SUBSET (1..Count(u)) /\ Number(w) \in 1..Count(u) \ Q /\ Collected(u, t, Q)
      BY <1>10, <2>2, <2>3
    <2>6. 1..Count(u) \ Q \subseteq {Number(w)}
      BY <2>4, <2>5, OthersCollected
    <2> QED
      BY <2>3, <2>6
  <1>13. OwnWorkers(u)'
    <2>1. ASSUME NEW v \in Workers, pc'[v] # "idle", part[v][1] = u
          PROVE  /\ pc'[v] \in {"look", "create", "open", "write"}
                 /\ pc'[v] = "write" => fp'[v] = g
                 /\ pc'[v] = "write" /\ now_length'[v] + Extent(u, part[v][2]) = Size(u) =>
                       Coming(u)' \subseteq {part[v][2]} /\ Len(data'[fp'[v]]) = now_length'[v]
      <3>1. CASE v = w
        BY <1>4, <1>5, <1>12, <3>1 DEF Number
      <3>2. CASE v # w
        <4>1. Busy(v) /\ Upload(v) = u /\ pc'[v] = pc[v] /\ fp'[v] = fp[v]
              /\ now_length'[v] = now_length[v]
          BY <1>4, <1>5, <2>1, <3>2 DEF Busy, Upload
        <4>2. now_length[v] + Extent(u, part[v][2]) = Size(u) => pc[v] # "write"
          BY <1>3, <3>2, <4>1 DEF Length, Number
        <4> QED
          BY <1>3, <1>6, <3>2, <4>1, <4>2
      <3> QED
        BY <3>1, <3>2
    <2> QED
      BY <1>1, <1>5, <1>6, <1>7, <2>1 DEF OwnWorkers, Busy, Upload, Number, Length
  <1>14. Over(u)'
    BY <1>9 DEF Over
  <1> QED
    BY <1>11, <1>13, <1>14 DEF UploadInv

\* A part of u is put behind the others; when it completes the length it was the last.
LEMMA WriteOK ==
  ASSUME PlacesInv, FilesInv, PlacesKept, [Next]_vars, NEW u \in Ids, Alone(u), UploadInv(u),
         NEW w \in Workers, Upload(w) = u, Write(w)
  PROVE  UploadInv(u)'
  <1> PICK n, g, i : n = uploads[u].file /\ g = name[n] /\ i = Number(w)
    OBVIOUS
  <1>1. /\ uploads' = uploads /\ Names' = Names /\ Count(u)' = Count(u) /\ Size(u)' = Size(u)
        /\ \A j : Extent(u, j)' = Extent(u, j)
    BY PlanKept
  <1>2. Early(w) /\ Busy(w) /\ pc[w] = "write" /\ Kind(w) = "append"
    BY DEF Write, Early, Busy, Alone, Kind
  <1>3. /\ i \in Coming(u) /\ i \in 1..Count(u) /\ part[w] = <<u, i>>
        /\ About(u) = {}
        /\ \A v \in Workers \ {w} : Busy(v) /\ Upload(v) = u =>
              /\ pc[v] \in {"look", "create", "open", "write"}
              /\ pc[v] = "write" => /\ g # 0 /\ fp[v] = g
                                    /\ now_length[v] + Length(v) # Size(u)
    BY <1>2, StillToWrite
  <1>4. /\ Len(data) \in Nat /\ name \in [Names -> Nat] /\ data \in Seq(Seq(Unit))
        /\ pc \in [Workers -> {"idle", "look", "create", "open", "small",
                               "write", "measure", "recheck", "rename"}]
    BY LenProperties DEF FilesInv, PlacesInv
  <1>5. /\ g # 0 /\ fp[w] = g /\ g \in 1..Len(data) /\ g \in Belongs(u)
        /\ now_length[w] + Extent(u, i) = Size(u) =>
              Coming(u) \subseteq {i} /\ Len(data[g]) = now_length[w]
    <2>1. /\ g # 0 /\ fp[w] = g
          /\ now_length[w] + Extent(u, i) = Size(u) =>
                Coming(u) \subseteq {i} /\ Len(data[g]) = now_length[w]
      BY <1>2 DEF UploadInv, OwnWorkers, Length
    <2>2. g \in Belongs(u)
      BY <2>1 DEF Belongs
    <2> QED
      BY <2>1, <2>2, FilesOf
  <1> PICK s : s = At(data[g], Len(data[g]), Units(u, i))
    OBVIOUS
  <1>6. /\ UNCHANGED <<part, announced, name, fp, now_length>>
        /\ Len(data') = Len(data) /\ data'[g] = s
        /\ pc' = [pc EXCEPT ![w] = IF now_length[w] + Extent(u, i) = Size(u) THEN "rename" ELSE "idle"]
    <2>1. Written(w) = s
      BY <1>2, <1>5 DEF Written, Appending
    <2>2. data' = [data EXCEPT ![g] = s]
      BY <1>5, <2>1 DEF Write
    <2>3. s \in Seq(Unit)
      <3>1. data[g] \in Seq(Unit) /\ Len(data[g]) \in Nat
        BY <1>4, <1>5, ElementOfSeq, LenProperties
      <3> QED
        BY <1>2, <3>1, WrittenTyped
    <2>4. Len(data') = Len(data) /\ data'[g] = s
      BY <1>5, <2>2, <2>3, FileLists
    <2>5. AfterWrite(w) = IF now_length[w] + Extent(u, i) = Size(u) THEN "rename" ELSE "idle"
      BY <1>2 DEF AfterWrite, Length
    <2> QED
      BY <2>4, <2>5 DEF Write, Goto
  <1>7. pc'[w] \in {"rename", "idle"} /\ \A v \in Workers \ {w} : pc'[v] = pc[v]
    BY <1>4, <1>6
  <1>8. Coming(u)' \subseteq Coming(u) \ {i}
    <2>1. Coming(u)' \subseteq Coming(u)
      BY DEF PlacesKept
    <2>2. i \notin Coming(u)'
      <3>1. part[w] \in Ids \X Nat /\ Posted(part[w]) /\ \A k \in 1..Len(ring) : ring[k] # <<u, i>>
        <4>1. Busy(w) => part[w] \in Ids \X Nat /\ Posted(part[w]) /\ \A k \in 1..Len(ring) : ring[k] # part[w]
          BY DEF PlacesInv
        <4> QED
          BY <1>2, <1>3, <4>1
      <3>2. i \in posted[u] /\ UNCHANGED <<posted, ring>>
        BY <1>3, <3>1 DEF Posted, Write
      <3>3. \A v \in Workers : part[v] = <<u, i>> /\ Early(v)' => v = w
        <4>1. \A v \in Workers \ {w} : Early(v)' => Busy(v)
          BY <1>7 DEF Early, Busy
        <4> QED
          BY <1>2, <1>3, <4>1 DEF PlacesInv
      <3>4. ~Early(w)'
        BY <1>7 DEF Early
      <3> QED
        BY <1>6, <3>1, <3>2, <3>3, <3>4 DEF Coming
    <2> QED
      BY <2>1, <2>2
  <1>9. Collected(u, s, 1..Count(u) \ Coming(u)') /\ Len(s) = Len(data[g]) + Extent(u, i)
    <2> PICK t, P : t = data[g] /\ P = 1..Count(u) \ Coming(u)
      OBVIOUS
    <2>1. Collected(u, t, P) /\ P \in SUBSET (1..Count(u)) /\ i \in 1..Count(u) \ P
      BY <1>3, <1>5 DEF UploadInv, OwnFile
    <2>2. Len(t) \in Nat
      <3>1. data[g] \in Seq(Unit)
        BY <1>4, <1>5, ElementOfSeq
      <3> QED
        BY <3>1, LenProperties
    <2>3. Collected(u, s, P \cup {i}) /\ Len(s) = Len(t) + Extent(u, i)
      BY <2>1, <2>2, PartCollected, SMTT(60)
    <2>4. P \cup {i} \subseteq 1..Count(u) \ Coming(u)'
      BY <1>3, <1>8
    <2> QED
      BY <2>3, <2>4, CollectedMore
  <1>10. About(u)' = {} /\ Belongs(u)' = {g}
    <2>1. About(u)' = {}
      BY <1>3, <1>6 DEF About
    <2> QED
      BY <1>1, <1>5, <1>6, <2>1 DEF Belongs
  <1>11. OwnFile(u)'
    <2>1. \A t, Q : Collected(u, t, Q) => Collected(u, t, Q)'
      BY <1>1 DEF Collected, Bytes, Offset
    <2>2. \A m \in Names : m # n => name[m] # g
      BY <1>5, FilesOf
    <2>3. \A v \in Workers : pc'[v] = "write" /\ part[v][1] # u => fp[v] # g
      <3>1. \A v \in Workers : pc'[v] = "write" => pc[v] = "write"
        BY <1>7
      <3> QED
        BY <1>5, <3>1, FilesOf
    <2> QED
      BY <1>1, <1>5, <1>6, <1>9, <1>10, <2>1, <2>2, <2>3 DEF OwnFile, Upload
  <1>12. pc'[w] = "rename" =>
            /\ Coming(u)' = {} /\ Len(data'[g]) = Size(u)
            /\ \A v \in Workers : pc'[v] # "idle" /\ part[v][1] = u => v = w
    <2> SUFFICES ASSUME pc'[w] = "rename"
                 PROVE  /\ Coming(u)' = {} /\ Len(data'[g]) = Size(u)
                        /\ \A v \in Workers : pc'[v] # "idle" /\ part[v][1] = u => v = w
      OBVIOUS
    <2>1. now_length[w] + Extent(u, i) = Size(u)
      BY <1>4, <1>6
    <2>2. Coming(u) \subseteq {i} /\ Len(data[g]) = now_length[w]
      BY <1>5, <2>1
    <2>3. ASSUME NEW v \in Workers \ {w}, pc[v] # "idle", part[v][1] = u PROVE FALSE
      <3>1. Busy(v) /\ Upload(v) = u
        BY <2>3 DEF Busy, Upload
      <3>2. pc[v] \in {"look", "create", "open", "write"}
        BY <1>3, <3>1
      <3>3. Number(v) \in Coming(u)
        BY <3>1, <3>2, StillToWrite DEF Early
      <3>4. part[v] = <<u, i>>
        BY <2>2, <3>1, <3>3, Held
      <3> QED
        BY <1>2, <1>3, <2>3, <3>1, <3>4 DEF PlacesInv
    <2> QED
      BY <1>6, <1>7, <1>8, <1>9, <2>1, <2>2, <2>3
  <1>13. OwnWorkers(u)'
    <2>1. ASSUME NEW v \in Workers, pc'[v] # "idle", part[v][1] = u
          PROVE  /\ pc'[v] \in {"look", "create", "open", "write", "rename"}
                 /\ pc'[v] = "write" => fp[v] = g
                 /\ pc'[v] = "write" => now_length[v] + Extent(u, part[v][2]) # Size(u)
                 /\ pc'[v] = "rename" => v = w
      <3>1. CASE v = w
        BY <1>7, <2>1, <3>1
      <3>2. CASE v # w
        <4>1. Busy(v) /\ Upload(v) = u /\ pc'[v] = pc[v]
          BY <1>7, <2>1, <3>2 DEF Busy, Upload
        <4> QED
          BY <1>3, <3>2, <4>1 DEF Length, Number
      <3> QED
        BY <3>1, <3>2
    <2> SUFFICES ASSUME NEW v \in Workers, Busy(v)', Upload(v)' = u
                 PROVE  /\ pc'[v] \in {"look", "create", "open", "write", "rename"}
                        /\ pc'[v] \in {"write", "rename"} => name'[uploads'[u].file] # 0
                        /\ pc'[v] = "write" => fp'[v] = name'[uploads'[u].file]
                        /\ pc'[v] = "write" =>
                              now_length'[v] + Length(v)' # Size(u)'
                        /\ pc'[v] = "rename" =>
                              /\ Coming(u)' = {} /\ Len(data'[name'[uploads'[u].file]]) = Size(u)'
                              /\ \A x \in Workers : Busy(x)' /\ Upload(x)' = u => x = v
      BY ZenonT(60) DEF OwnWorkers
    <2>2. pc'[v] # "idle" /\ part[v][1] = u
      BY <1>6 DEF Busy, Upload
    <2>3. /\ pc'[v] \in {"look", "create", "open", "write", "rename"}
          /\ pc'[v] = "write" => fp[v] = g
          /\ pc'[v] = "write" => now_length[v] + Extent(u, part[v][2]) # Size(u)
          /\ pc'[v] = "rename" => v = w
      BY <2>1, <2>2
    <2>4. name'[uploads'[u].file] = g /\ g # 0
      BY <1>1, <1>5, <1>6
    <2>5. Length(v)' = Extent(u, part[v][2]) /\ Size(u)' = Size(u)
      BY <1>1, <1>6, <2>2 DEF Length, Upload, Number
    <2>6. \A x \in Workers : Busy(x)' /\ Upload(x)' = u => pc'[x] # "idle" /\ part[x][1] = u
      BY <1>6 DEF Busy, Upload
    <2> QED
      BY <1>6, <1>12, <2>3, <2>4, <2>5, <2>6
  <1>14. Over(u)'
    BY <1>10 DEF Over
  <1> QED
    BY <1>11, <1>13, <1>14 DEF UploadInv

\* The file is renamed and announced; nothing is left to do for u.
LEMMA RenameOK ==
  ASSUME PlacesInv, FilesInv, PlacesKept, [Next]_vars, NEW u \in Ids, Alone(u), UploadInv(u),
         NEW w \in Workers, Upload(w) = u, Rename(w)
  PROVE  UploadInv(u)'
  <1> PICK n, g : n = uploads[u].file /\ g = name[n]
    OBVIOUS
  <1>1. /\ uploads' = uploads /\ Names' = Names /\ Count(u)' = Count(u) /\ Size(u)' = Size(u)
    BY PlanKept
  <1>2. Busy(w) /\ pc[w] = "rename" /\ File(w) = n /\ n \in Names
    BY DEF Rename, Busy, File, Names
  <1>3. /\ g # 0 /\ Coming(u) = {} /\ Len(data[g]) = Size(u)
        /\ \A v \in Workers : Busy(v) /\ Upload(v) = u => v = w
    BY <1>2 DEF UploadInv, OwnWorkers
  <1>4. About(u) = {}
    BY <1>2 DEF UploadInv, Over
  <1>5. /\ name \in [Names -> Nat] /\ Len(announced) \in Nat
        /\ announced \in Seq([upload : Ids, file : Nat]) /\ DOMAIN announced = 1..Len(announced)
        /\ pc \in [Workers -> {"idle", "look", "create", "open", "small",
                               "write", "measure", "recheck", "rename"}]
    BY LenProperties DEF FilesInv, PlacesInv
  <1> PICK a, m : a = [upload |-> u, file |-> g] /\ m = Len(announced) + 1
    OBVIOUS
  <1>6. /\ announced' = Append(announced, a) /\ name' = [name EXCEPT ![n] = 0]
        /\ UNCHANGED <<data, fp, part, now_length>> /\ pc' = [pc EXCEPT ![w] = "idle"]
    BY <1>2 DEF Rename, Goto
  <1>7. /\ DOMAIN announced' = 1..m /\ announced'[m] = a
        /\ \A k \in 1..Len(announced) : announced'[k] = announced[k]
    BY <1>5, <1>6, LenProperties
  <1>8. About(u)' = {m}
    <2>1. \A k \in 1..Len(announced) : announced[k].upload # u
      BY <1>4, <1>5 DEF About
    <2>2. \A k \in 1..m : k \in 1..Len(announced) \/ k = m
      BY <1>5
    <2>3. m \in 1..m
      BY <1>5
    <2>4. a.upload = u
      OBVIOUS
    <2> QED
      BY <1>7, <2>1, <2>2, <2>3, <2>4 DEF About
  <1>9. name'[n] = 0 /\ \A l \in Names \ {n} : name'[l] = name[l]
    BY <1>2, <1>5, <1>6
  <1>10. a.file = g
    OBVIOUS
  <1>11. Belongs(u)' = {g} /\ g \in Belongs(u)
    <2>1. Belongs(u)' = ({0} \cup {g}) \ {0}
      BY <1>1, <1>7, <1>8, <1>9, <1>10 DEF Belongs
    <2> QED
      BY <1>3, <2>1 DEF Belongs
  <1>12. pc'[w] = "idle" /\ \A v \in Workers \ {w} : pc'[v] = pc[v]
    BY <1>5, <1>6
  <1>13. \A v \in Workers : pc'[v] # "idle" => part[v][1] # u
    BY <1>3, <1>12 DEF Busy, Upload
  <1>14. Coming(u)' = {}
    BY <1>3 DEF PlacesKept
  <1>15. OwnFile(u)'
    <2>1. \A t, Q : Collected(u, t, Q) => Collected(u, t, Q)'
      BY <1>1 DEF Collected, Bytes, Offset
    <2>2. Collected(u, data[g], 1..Count(u) \ Coming(u))
      BY <1>11 DEF UploadInv, OwnFile
    <2>3. \A v \in Workers : pc'[v] = "write" => pc[v] = "write"
      BY <1>12
    <2> QED
      BY <1>1, <1>3, <1>6, <1>9, <1>11, <1>14, <2>1, <2>2, <2>3, FilesOf DEF OwnFile, Upload
  <1>16. OwnWorkers(u)'
    BY <1>6, <1>13 DEF OwnWorkers, Busy, Upload
  <1>17. Over(u)'
    BY <1>1, <1>3, <1>6, <1>7, <1>8, <1>9, <1>10, <1>13, <1>14 DEF Over, Busy, Upload
  <1> QED
    BY <1>15, <1>16, <1>17 DEF UploadInv

(***************************************************************************)
(* The theorems                                                            *)
(***************************************************************************)

\* It begins with nothing sent, nobody at work and no file.
LEMMA AssemblyInit == Init => AssemblyInv
  <1> SUFFICES ASSUME Init PROVE AssemblyInv
    OBVIOUS
  <1>1. \A w \in Workers : pc[w] = "idle" /\ ~Busy(w)
    BY DEF Init, Busy
  <1>2. Len(ring) = 0 /\ Len(data) = 0 /\ Len(announced) = 0 /\ DOMAIN announced = {}
    BY DEF Init
  <1>3. PlacesInv
    <2>1. ring \in Seq(Ids \X Nat)
      BY EmptySeq DEF Init
    <2>2. /\ posted \in [Ids -> SUBSET Nat] /\ \A u \in Ids : posted[u] \subseteq 1..Count(u)
      BY DEF Init
    <2>3. /\ uploads \in Plans /\ part \in [Workers -> (Ids \X Nat) \cup {<<0, 0>>}]
          /\ pc \in [Workers -> {"idle", "look", "create", "open", "small", "write",
                                 "measure", "recheck", "rename"}]
      BY DEF Init
    <2> QED
      BY <1>1, <1>2, <2>1, <2>2, <2>3 DEF PlacesInv
  <1>4. FilesInv
    <2>1. data \in Seq(Seq(Unit)) /\ announced \in Seq([upload : Ids, file : Nat])
      BY EmptySeq DEF Init
    <2>2. /\ fp \in [Workers -> Nat] /\ now_length \in [Workers -> Nat]
          /\ name \in [Names -> Nat] /\ \A f \in Names : name[f] = 0
      BY DEF Init
    <2> QED
      BY <1>1, <1>2, <2>1, <2>2 DEF FilesInv
  <1>5. ASSUME NEW u \in Ids PROVE UploadInv(u)
    <2>1. About(u) = {}
      BY <1>2 DEF About
    <2>2. Belongs(u) = {}
      BY <2>1 DEF Belongs, Names, Init
    <2> QED
      BY <1>1, <2>1, <2>2 DEF UploadInv, OwnFile, OwnWorkers, Over
  <1> QED
    BY <1>3, <1>4, <1>5 DEF AssemblyInv

\* Every step keeps the invariant.
LEMMA AssemblyNext == AssemblyInv /\ [Next]_vars => AssemblyInv'
  <1> SUFFICES ASSUME AssemblyInv, [Next]_vars PROVE AssemblyInv'
    OBVIOUS
  <1>1. PlacesInv /\ FilesInv /\ PlacesKept /\ FilesInv'
    BY PlacesNext, FilesNext DEF AssemblyInv
  <1>2. ASSUME NEW u \in Ids, Alone(u) PROVE UploadInv(u)'
    <2>1. UploadInv(u)
      BY <1>2 DEF AssemblyInv
    <2>2. CASE (\E v \in Ids : Post(v)) \/ (\E w \in Workers : Take(w)) \/ UNCHANGED vars
      <3>1. Quiet(u)
        BY <1>1, <2>1, <2>2, ComeQuiet
      <3> QED
        BY <1>1, <2>1, <3>1, QuietOK
    <2>3. ASSUME NEW w \in Workers, Work(w), ~Take(w) PROVE UploadInv(u)'
      <3>1. CASE Upload(w) = u => Look(w) \/ GiveUp(w)
        <4>1. Quiet(u)
          BY <1>1, <1>2, <2>1, <2>3, <3>1, WorkQuiet
        <4> QED
          BY <1>1, <2>1, <4>1, QuietOK
      <3>2. CASE Upload(w) = u /\ ~Look(w) /\ ~GiveUp(w)
        <4>1. pc[w] \in {"measure", "recheck", "small"} => FALSE
          BY <2>1, <3>2 DEF UploadInv, OwnWorkers, Busy
        <4>2. Create(w) \/ Open(w) \/ Write(w) \/ Rename(w)
          BY <2>3, <3>2, <4>1 DEF Work, Measure, Recheck, Small
        <4> QED
          BY <1>1, <1>2, <2>1, <3>2, <4>2, OpenOK, WriteOK, RenameOK
      <3> QED
        BY <3>1, <3>2
    <2> QED
      BY <2>2, <2>3 DEF Next
  <1>3. \A u \in Ids' : Alone(u)' => u \in Ids /\ Alone(u)
    BY PlanKept DEF Alone, SameFile
  <1> QED
    BY <1>1, <1>2, <1>3 DEF AssemblyInv, PlacesKept

\* The invariant of the assembly: every part is in one place, files of different names are
\* different, and the file of an attachment of its own holds what was written, once.
THEOREM AssemblyCorrect == Spec => []AssemblyInv
  BY AssemblyInit, AssemblyNext, PTL DEF Spec

\* LengthTellsComplete: an attachment announced because of the length of its file has all
\* its bytes there, once each, and is announced once; for any workers, sizes and cuts.
THEOREM LengthIsEnough == Spec => []LengthTellsComplete
  <1>1. AssemblyInv => LengthTellsComplete
    <2> SUFFICES ASSUME AssemblyInv, NEW u \in Ids, uploads[u].kind = "append", SameFile(u) = {u}
                 PROVE  /\ Cardinality(About(u)) <= 1
                        /\ \A k \in About(u) : /\ Len(Contents(k)) = Size(u)
                                               /\ ToSet(Contents(k)) = ToSet(Whole(u))
      BY DEF LengthTellsComplete
    <2>1. PlacesInv /\ FilesInv /\ UploadInv(u)
      BY DEF AssemblyInv, Alone
    <2>2. Cardinality(About(u)) <= 1
      <3>1. CASE About(u) = {}
        BY <3>1, FS_EmptySet
      <3>2. ASSUME NEW k \in About(u) PROVE Cardinality(About(u)) <= 1
        <4>1. About(u) = {k}
          BY <2>1 DEF UploadInv, Over
        <4> QED
          BY <4>1, FS_Singleton
      <3> QED
        BY <3>1, <3>2
    <2>3. ASSUME NEW k \in About(u)
          PROVE  Len(Contents(k)) = Size(u) /\ ToSet(Contents(k)) = ToSet(Whole(u))
      <3> PICK g, s : g = announced[k].file /\ s = data[g]
        OBVIOUS
      <3>1. g # 0 /\ Len(s) = Size(u)
        BY <2>1 DEF UploadInv, Over
      <3>2. Contents(k) = s
        BY <3>1 DEF Contents
      <3>3. g \in Belongs(u)
        BY <3>1 DEF Belongs
      <3>4. g \in 1..Len(data) /\ Collected(u, s, 1..Count(u) \ Coming(u))
        BY <2>1, <3>3 DEF UploadInv, OwnFile
      <3>5. DOMAIN s = 1..Len(s)
        <4>1. s \in Seq(Unit)
          BY <2>1, <3>4, ElementOfSeq DEF FilesInv
        <4> QED
          BY <4>1, LenProperties
      <3>6. ToSet(s) = ToSet(Whole(u))
        BY <2>1, <3>1, <3>4, <3>5, AllCollected
      <3> QED
        BY <3>1, <3>2, <3>6
    <2> QED
      BY <2>2, <2>3
  <1> QED
    BY <1>1, AssemblyCorrect, PTL

-----------------------------------------------------------------------------
(***************************************************************************)
(* An attachment whose parts come to the workers one at a time, in order,  *)
(* is announced whole - in all five ways, for any number of workers and    *)
(* uploads, any sizes and cuts, whatever other uploads do at the same time *)
(* and whichever of their parts are lost or given up.                      *)
(***************************************************************************)

(***************************************************************************)
(* The inductive invariant                                                 *)
(***************************************************************************)

\* The parts of u that workers have taken, or that were lost on the way to them.
Gone(u) == {i \in posted[u] : \A k \in 1..Len(ring) : ring[k] # <<u, i>>}

TakenInv ==
    /\ taken \in [Ids -> Nat] /\ disturbed \subseteq Ids /\ fresh \in [Workers -> BOOLEAN]
    /\ \A u \in Ids : taken[u] <= Cardinality(Gone(u))
    /\ \A w \in Workers : fp[w] <= Len(data)

\* Two names lead to two files, and who writes writes into no file another name leads to.
ApartInv ==
    /\ \A f, g \in Names : name[f] = name[g] /\ name[f] # 0 => f = g
    /\ \A w \in Workers : pc[w] = "write" =>
          \A f \in Names : f # File(w) => name[f] # fp[w]

\* The file that the name of u leads to, 0 for none, and the first n units of u.
Now(u)      == name[uploads[u].file]
First(u, n) == [k \in 1..n |-> <<u, k>>]

\* What QQattach2 and sohu_attach2 leave behind: a file made by an upload of one part.
LeftOver(u) ==
    /\ uploads[u].kind \in {"last", "length"} /\ Count(u) = 1
    /\ Now(u) # 0 /\ Len(data[Now(u)]) = Size(u)

\* The file of u holds the parts before part i, or up to it.
Before(u, i) == Now(u) # 0 /\ data[Now(u)] = First(u, Offset(u, i))
UpTo(u, i)   == Now(u) # 0 /\ data[Now(u)] = First(u, uploads[u].ends[i])

\* How far w has come with part i of u.
Stage(w, u, i) ==
    CASE pc[w] = "look"   -> IF i = 1 THEN Now(u) = 0 \/ LeftOver(u) ELSE Before(u, i)
      [] pc[w] = "create" -> i = 1 /\ Now(u) = 0
      [] pc[w] = "small"  -> i = 1 /\ Now(u) = 0 /\ Count(u) = 1
      [] pc[w] = "open"   -> uploads[u].kind \in Appending /\ Before(u, i)
      [] pc[w] = "write"  ->
            /\ Now(u) # 0 /\ fp[w] = Now(u)
            /\ \/ Before(u, i) /\ (uploads[u].kind \in Positioned => (fresh[w] <=> i = 1))
               \/ LeftOver(u) /\ i = 1 /\ ~fresh[w]
            /\ uploads[u].kind = "append" => now_length[w] = Len(data[Now(u)])
      [] pc[w] = "measure" -> UpTo(u, i) /\ uploads[u].kind = "length"
      [] OTHER             -> UpTo(u, i) /\ i = Count(u)

On(w, u) == Busy(w) /\ Upload(w) = u
By(w, u) == Busy(w) /\ File(w) = uploads[u].file

\* The parts of u are handled in turn: between them the file holds what has come so far,
\* and while one is handled nobody else is at the file.
InTurn(u) ==
    /\ taken[u] <= Count(u)
    /\ \A w \in Workers : On(w, u) =>
          /\ Number(w) = taken[u] /\ Stage(w, u, taken[u])
          /\ \A x \in Workers : By(x, u) => x = w
    /\ taken[u] \in 1..(Count(u) - 1) =>
          /\ \A x \in Workers : By(x, u) => Upload(x) = u
          /\ (\A w \in Workers : ~On(w, u)) => UpTo(u, taken[u])
    /\ taken[u] < Count(u) \/ (\E w \in Workers : On(w, u)) => About(u) = {}

\* Once announced it is whole, and out of everyone's reach.
Finished(u) ==
    \A k \in About(u) :
        /\ announced[k].file # 0 /\ Contents(k) = Whole(u)
        /\ \A f \in Names : name[f] # announced[k].file
        /\ \A w \in Workers : pc[w] = "write" => fp[w] # announced[k].file
        /\ \A j \in About(u) : j = k

\* When all uploads under a name came in turn and nobody is at work on one, there is no
\* file, or one left over.
AtRest(u) ==
    /\ \A v \in SameFile(u) : v \notin disturbed /\ taken[v] \in {0, Count(v)}
    /\ \A x \in Workers : ~By(x, u)

WholeInv ==
    /\ PlacesInv /\ FilesInv /\ TakenInv /\ ApartInv
    /\ \A u \in Ids : OneCut(u) =>
          /\ AtRest(u) => Now(u) = 0 \/ LeftOver(u)
          /\ u \notin disturbed => InTurn(u) /\ Finished(u)

(***************************************************************************)
(* Contents of a file                                                      *)
(***************************************************************************)

\* A part put in its place, or over what is not longer, makes the file whole up to it.
LEMMA Placed ==
  ASSUME PlacesInv, NEW u \in Ids, NEW i \in 1..Count(u), NEW s, Len(s) \in Nat,
         Offset(u, i) <= Len(s), Len(s) <= uploads[u].ends[i],
         \A k \in 1..Offset(u, i) : s[k] = <<u, k>>
  PROVE  At(s, Offset(u, i), Units(u, i)) = First(u, uploads[u].ends[i])
  <1> PICK o, m, e : o = Offset(u, i) /\ m = uploads[u].ends[i] /\ e = Extent(u, i)
    OBVIOUS
  <1>1. o \in Nat /\ m \in Nat /\ e \in Nat /\ m = o + e /\ o <= Len(s) /\ Len(s) <= m
    BY PartsInOrder DEF Extent
  <1> PICK t : t = Units(u, i)
    OBVIOUS
  <1>2. t = [k \in 1..e |-> <<u, o + k>>] /\ Len(t) = e
    BY <1>1 DEF Units
  <1> PICK d : d = At(s, o, t)
    OBVIOUS
  <1>3. (IF o + Len(t) > Len(s) THEN o + Len(t) ELSE Len(s)) = m
    BY <1>1, <1>2
  <1>4. d = [k \in 1..m |->
               CASE k \in (o + 1)..m                         -> t[k - o]
                 [] k \notin (o + 1)..m /\ k \in 1..Len(s) -> s[k]
                 [] OTHER                                    -> Hole]
    BY <1>1, <1>2, <1>3 DEF At
  <1>5. ASSUME NEW k \in 1..m PROVE d[k] = <<u, k>>
    <2>1. CASE k \in (o + 1)..m
      <3>1. k - o \in 1..e /\ o + (k - o) = k
        BY <1>1, <2>1
      <3>2. d[k] = t[k - o]
        BY <1>4, <2>1
      <3> QED
        BY <1>2, <3>1, <3>2
    <2>2. CASE k \notin (o + 1)..m
      <3>1. k \in 1..o /\ k \in 1..Len(s)
        BY <1>1, <2>2
      <3>2. d[k] = s[k]
        BY <1>4, <2>2, <3>1
      <3> QED
        BY <3>1, <3>2
    <2> QED
      BY <2>1, <2>2
  <1>6. d = [k \in 1..m |-> <<u, k>>]
    <2>1. d = [k \in 1..m |-> d[k]]
      BY <1>4
    <2> QED
      BY <1>5, <2>1
  <1> QED
    BY <1>6 DEF First

\* The first units are as many as they are.
LEMMA FirstOnes ==
  ASSUME NEW u, NEW n \in Nat
  PROVE  /\ Len(First(u, n)) = n /\ \A k \in 1..n : First(u, n)[k] = <<u, k>>
         /\ n = 0 => First(u, n) = <<>>
  BY DEF First

\* Uploads under one name are of one way, or all to the end.
LEMMA OneCutShared ==
  ASSUME NEW u \in Ids, OneCut(u), NEW v \in SameFile(u)
  PROVE  /\ v \in Ids /\ OneCut(v) /\ SameFile(v) = SameFile(u)
         /\ uploads[v].file = uploads[u].file
         /\ uploads[v].kind \notin Appending =>
               /\ uploads[u].kind = uploads[v].kind /\ uploads[u].ends = uploads[v].ends
  BY DEF OneCut, SameFile

\* What is left over by one is left over for the other.
LEMMA LeftOverShared ==
  ASSUME NEW u \in Ids, OneCut(u), NEW v \in SameFile(u), LeftOver(v)
  PROVE  LeftOver(u)
  <1>1. uploads[v].kind \notin Appending
    BY DEF LeftOver, Appending
  <1>2. uploads[u].kind = uploads[v].kind /\ uploads[u].ends = uploads[v].ends
        /\ uploads[u].file = uploads[v].file
    BY <1>1, OneCutShared
  <1> QED
    BY <1>2 DEF LeftOver, Now, Count, Size

(***************************************************************************)
(* What a worker does to others                                            *)
(***************************************************************************)

\* A worker changes its own place, its own file, and where its own name leads.
Local(w) ==
    /\ Busy(w) /\ UNCHANGED <<uploads, posted, ring, part, taken>>
    /\ disturbed \subseteq disturbed' /\ disturbed' \subseteq disturbed \cup {Upload(w)}
    /\ \A x \in Workers \ {w} :
          /\ pc'[x] = pc[x] /\ fp'[x] = fp[x] /\ fresh'[x] = fresh[x]
          /\ now_length'[x] = now_length[x]
    /\ fp'[w] \in {fp[w], name'[File(w)]}
    /\ pc'[w] = "write" => fp'[w] = name'[File(w)] /\ fp'[w] # 0
    /\ name'[File(w)] \in {name[File(w)], 0, Len(data) + 1}
    /\ \A f \in Names \ {File(w)} : name'[f] = name[f]
    /\ Len(data) <= Len(data')
    /\ \A f \in 1..Len(data) :
          f # name[File(w)] /\ ~(pc[w] = "write" /\ f = fp[w]) => data'[f] = data[f]
    /\ \/ announced' = announced
       \/ \E f \in Nat : announced' = Append(announced, [upload |-> Upload(w), file |-> f])

\* Every step of a worker on a part is of that form.
LEMMA WorkLocal ==
  ASSUME PlacesInv, FilesInv, TakenInv, NEW w \in Workers, Work(w), ~Take(w)
  PROVE  Local(w)
  <1> PICK f : f = File(w)
    OBVIOUS
  <1>1. Busy(w) /\ f \in Names /\ Upload(w) \in Ids
    <2>1. Busy(w)
      BY DEF Work, Look, Create, Open, GiveUp, Write, Measure, Recheck, Rename, Small, Busy
    <2> QED
      BY <2>1, Held
  <1>2. /\ fp \in [Workers -> Nat] /\ now_length \in [Workers -> Nat]
        /\ name \in [Names -> Nat] /\ name[f] <= Len(data) /\ Len(data) \in Nat
        /\ data \in Seq(Seq(Unit)) /\ fresh \in [Workers -> BOOLEAN]
        /\ pc \in [Workers -> {"idle", "look", "create", "open", "small", "write",
                               "measure", "recheck", "rename"}]
    BY <1>1, LenProperties DEF FilesInv, PlacesInv, TakenInv
  <1>3. CASE Look(w)
    <2>1. /\ pc' = [pc EXCEPT ![w] = pc'[w]] /\ fp' = [fp EXCEPT ![w] = name[f]]
          /\ pc'[w] = "write" => name[f] # 0
          /\ fresh' = [fresh EXCEPT ![w] = FALSE]
          /\ UNCHANGED <<uploads, posted, ring, part, now_length, name, data, announced, taken, disturbed>>
      BY <1>2, <1>3 DEF Look, Goto, Exists, fileVars
    <2>2. fp'[w] = name[f] /\ \A x \in Workers \ {w} : fp'[x] = fp[x] /\ pc'[x] = pc[x]
      BY <1>2, <2>1
    <2>3. \A x \in Workers \ {w} : fresh'[x] = fresh[x]
      BY <2>1
    <2> QED
      BY <1>1, <1>2, <2>1, <2>2, <2>3 DEF Local
  <1>4. CASE Create(w) \/ Open(w)
    <2>1. /\ fp' = [fp EXCEPT ![w] = Opened(f)] /\ name' = [name EXCEPT ![f] = Opened(f)]
          /\ data' = Kept(f) \/ data' = Emptied(f)
          /\ pc' = [pc EXCEPT ![w] = pc'[w]]
          /\ UNCHANGED <<uploads, posted, ring, part, announced, taken, disturbed>>
      BY <1>2, <1>4 DEF Create, Open, Goto
    <2>2. \A x \in Workers \ {w} : fresh'[x] = fresh[x] /\ now_length'[x] = now_length[x]
      <3>1. CASE Create(w)
        BY <1>2, <3>1 DEF Create
      <3>2. CASE Open(w)
        BY <1>2, <3>2 DEF Open
      <3> QED
        BY <1>4, <3>1, <3>2
    <2>3. /\ Opened(f) \in {name[f], Len(data) + 1} /\ Len(data) <= Len(data') /\ Opened(f) # 0
          /\ \A g \in 1..Len(data) : g # name[f] => data'[g] = data[g]
      <3>1. Opened(f) \in {name[f], Len(data) + 1}
        BY DEF Opened
      <3>2. /\ Opened(f) \in 1..Len(Kept(f)) /\ Len(data) <= Len(Kept(f))
            /\ Len(data) <= Len(Emptied(f))
            /\ \A g \in 1..Len(data) : Kept(f)[g] = data[g]
            /\ \A g \in 1..Len(data) : g # name[f] => Emptied(f)[g] = data[g]
        BY <1>1, OpenedFiles
      <3>3. CASE data' = Kept(f)
        BY <3>1, <3>2, <3>3
      <3>4. CASE data' = Emptied(f)
        BY <3>1, <3>2, <3>4
      <3> QED
        BY <2>1, <3>3, <3>4
    <2>4. /\ fp'[w] = Opened(f) /\ name'[f] = Opened(f)
          /\ \A x \in Workers \ {w} : fp'[x] = fp[x] /\ pc'[x] = pc[x]
          /\ \A g \in Names \ {f} : name'[g] = name[g]
      BY <1>1, <1>2, <2>1
    <2> QED
      BY <1>1, <2>1, <2>2, <2>3, <2>4 DEF Local
  <1>5. CASE GiveUp(w) \/ Measure(w) \/ Recheck(w)
    <2>1. /\ pc' = [pc EXCEPT ![w] = pc'[w]] /\ pc'[w] # "write"
          /\ UNCHANGED <<uploads, posted, ring, part, fp, fresh, now_length, name, data, announced, taken>>
          /\ disturbed \subseteq disturbed' /\ disturbed' \subseteq disturbed \cup {Upload(w)}
      BY <1>2, <1>5 DEF GiveUp, Measure, Recheck, Goto, fileVars
    <2> QED
      BY <1>1, <1>2, <2>1 DEF Local
  <1>6. CASE Write(w)
    <2>1. /\ pc' = [pc EXCEPT ![w] = pc'[w]] /\ pc'[w] # "write" /\ pc[w] = "write"
          /\ data' = [data EXCEPT ![fp[w]] = Written(w)]
          /\ UNCHANGED <<uploads, posted, ring, part, fp, fresh, now_length, name, announced, taken, disturbed>>
      <3>1. AfterWrite(w) \in {"idle", "rename", "recheck", "measure"}
        BY <1>1, WriteGoesOn
      <3> QED
        BY <1>2, <1>6, <3>1 DEF Write, Goto
    <2>2. fp[w] \in 1..Len(data)
      BY <2>1 DEF FilesInv
    <2>3. Len(data') = Len(data) /\ \A g \in 1..Len(data) : g # fp[w] => data'[g] = data[g]
      BY <1>2, <2>1, <2>2
    <2>4. Len(data) <= Len(data')
      BY <1>2, <2>3
    <2> QED
      BY <1>1, <1>2, <2>1, <2>3, <2>4 DEF Local
  <1>7. CASE Rename(w)
    <2>1. /\ pc' = [pc EXCEPT ![w] = "idle"] /\ name' = [name EXCEPT ![f] = 0]
          /\ announced' = Append(announced, [upload |-> Upload(w), file |-> name[f]])
          /\ UNCHANGED <<uploads, posted, ring, part, fp, fresh, now_length, data, taken, disturbed>>
      BY <1>7 DEF Rename, Goto
    <2>2. /\ name'[f] = 0 /\ name[f] \in Nat /\ \A g \in Names \ {f} : name'[g] = name[g]
          /\ pc'[w] = "idle" /\ \A x \in Workers \ {w} : pc'[x] = pc[x]
      BY <1>1, <1>2, <2>1
    <2> QED
      BY <1>1, <1>2, <2>1, <2>2 DEF Local
  <1>8. CASE Small(w)
    <2>1. /\ pc' = [pc EXCEPT ![w] = "idle"] /\ data' = Append(data, Units(Upload(w), Number(w)))
          /\ announced' = Append(announced, [upload |-> Upload(w), file |-> Len(data')])
          /\ UNCHANGED <<uploads, posted, ring, part, fp, fresh, now_length, name, taken, disturbed>>
      BY <1>8 DEF Small, Goto
    <2>2. /\ Len(data') = Len(data) + 1 /\ \A g \in 1..Len(data) : data'[g] = data[g]
      <3>1. Units(Upload(w), Number(w)) \in Seq(Unit)
        BY <1>1, WrittenTyped, EmptySeq
      <3> QED
        BY <2>1, <3>1, FileLists
    <2>3. Len(data') \in Nat /\ Len(data) <= Len(data')
      BY <1>2, <2>2
    <2>4. pc'[w] = "idle" /\ \A x \in Workers \ {w} : pc'[x] = pc[x]
      BY <1>2, <2>1
    <2> QED
      BY <1>1, <1>2, <2>1, <2>2, <2>3, <2>4 DEF Local
  <1> QED
    BY <1>3, <1>4, <1>5, <1>6, <1>7, <1>8 DEF Work

(***************************************************************************)
(* Counting what was taken, and keeping files apart                        *)
(***************************************************************************)

\* The parts gone are finitely many.
LEMMA GoneFinite ==
  ASSUME PlacesInv, NEW u \in Ids
  PROVE  /\ Gone(u) \subseteq posted[u] /\ IsFiniteSet(posted[u]) /\ IsFiniteSet(Gone(u))
         /\ Cardinality(Gone(u)) \in Nat /\ Cardinality(Gone(u)) <= Cardinality(posted[u])
         /\ Cardinality(posted[u]) \in Nat
  <1>1. Count(u) \in Nat /\ posted[u] \subseteq 1..Count(u) /\ Gone(u) \subseteq posted[u]
    BY PartsInOrder DEF PlacesInv, Gone
  <1>2. IsFiniteSet(1..Count(u))
    BY <1>1, FS_Interval
  <1>3. IsFiniteSet(posted[u])
    BY <1>1, <1>2, FS_Subset
  <1>4. IsFiniteSet(Gone(u)) /\ Cardinality(Gone(u)) <= Cardinality(posted[u])
    BY <1>1, <1>3, FS_Subset
  <1> QED
    BY <1>1, <1>3, <1>4, FS_CardinalityType

\* What the head of the ring is, and what is left without it.
LEMMA Taking ==
  ASSUME PlacesInv, NEW w \in Workers, Take(w),
         NEW u, NEW i, u = Head(ring)[1], i = Head(ring)[2]
  PROVE  /\ u \in Ids /\ i \in posted[u] /\ i \in 1..Count(u)
         /\ (\E k \in 1..Len(ring) : ring[k] = <<u, i>>)
         /\ \A k \in 1..Len(ring') : ring'[k] # <<u, i>>
                                     /\ \E l \in 1..Len(ring) : ring'[k] = ring[l]
         /\ part' = [part EXCEPT ![w] = <<u, i>>] /\ taken' = [taken EXCEPT ![u] = @ + 1]
         /\ disturbed' = disturbed \cup Disturbed(u, i)
  <1>1. /\ ring \in Seq(Ids \X Nat) /\ ring # <<>> /\ ring' = Tail(ring)
        /\ \A j, k \in 1..Len(ring) : ring[j] = ring[k] => j = k
        /\ \A k \in 1..Len(ring) : Posted(ring[k])
    BY DEF Take, PlacesInv
  <1>2. /\ Len(ring) \in Nat \ {0} /\ 1 \in 1..Len(ring) /\ Head(ring) = ring[1]
        /\ Len(ring') = Len(ring) - 1
        /\ \A k \in 1..Len(ring') : k + 1 \in 1..Len(ring) /\ ring'[k] = ring[k + 1]
    BY <1>1, EmptySeq, LenProperties, HeadTailProperties
  <1>3. ring[1] = <<u, i>>
    BY <1>1, <1>2, ElementOfSeq
  <1>4. u \in Ids /\ i \in posted[u] /\ i \in 1..Count(u)
    BY <1>1, <1>2, <1>3 DEF Posted, PlacesInv
  <1>5. ASSUME NEW k \in 1..Len(ring')
        PROVE  ring'[k] # <<u, i>> /\ \E l \in 1..Len(ring) : ring'[k] = ring[l]
    <2>1. k + 1 \in 1..Len(ring) /\ ring'[k] = ring[k + 1] /\ k + 1 # 1
      BY <1>2
    <2> QED
      BY <1>1, <1>2, <1>3, <2>1
  <1>6. /\ part' = [part EXCEPT ![w] = <<u, i>>] /\ taken' = [taken EXCEPT ![u] = @ + 1]
        /\ disturbed' = disturbed \cup Disturbed(u, i)
    BY DEF Take
  <1> QED
    BY <1>2, <1>3, <1>4, <1>5, <1>6

\* No more parts of an upload are taken than were sent.
LEMMA TakenNext ==
  ASSUME PlacesInv, FilesInv, TakenInv, [Next]_vars, PlacesInv', FilesInv'
  PROVE  TakenInv'
  <1>1. /\ taken \in [Ids -> Nat] /\ disturbed \subseteq Ids /\ fresh \in [Workers -> BOOLEAN]
        /\ \A u \in Ids : taken[u] <= Cardinality(Gone(u))
        /\ \A w \in Workers : fp[w] <= Len(data)
        /\ fp \in [Workers -> Nat] /\ name \in [Names -> Nat] /\ Len(data) \in Nat
    BY LenProperties DEF TakenInv, FilesInv
  <1>2. Ids' = Ids /\ Names' = Names /\ \A u \in Ids : Gone(u)' \in SUBSET posted'[u]
    BY PlanKept DEF Gone
  <1>3. ASSUME NEW u \in Ids
        PROVE  /\ IsFiniteSet(Gone(u)') /\ Cardinality(Gone(u)') \in Nat
               /\ Cardinality(Gone(u)) \in Nat /\ IsFiniteSet(Gone(u))
    <2>1. \A v \in Ids : IsFiniteSet(Gone(v)) /\ Cardinality(Gone(v)) \in Nat
      BY GoneFinite
    <2>2. Count(u)' = Count(u) /\ Count(u) \in Nat /\ posted'[u] \subseteq 1..Count(u)'
      BY <1>2, PlanKept, PartsInOrder DEF PlacesInv
    <2>3. IsFiniteSet(1..Count(u)) /\ Gone(u)' \subseteq 1..Count(u)
      <3>1. IsFiniteSet(1..Count(u))
        BY <2>2, FS_Interval
      <3> QED
        BY <1>2, <2>2, <3>1
    <2>4. IsFiniteSet(Gone(u)')
      BY <2>3, FS_Subset
    <2> QED
      BY <2>1, <2>4, FS_CardinalityType
  <1>4. ASSUME NEW u \in Ids, Gone(u) \subseteq Gone(u)', taken'[u] = taken[u]
        PROVE  taken'[u] <= Cardinality(Gone(u)')
    <2>1. Cardinality(Gone(u)) <= Cardinality(Gone(u)')
      BY <1>3, <1>4, FS_Subset
    <2> QED
      BY <1>1, <1>3, <1>4, <2>1
  <1>5. ASSUME NEW v \in Ids, Post(v) PROVE TakenInv'
    <2> PICK i \in NextParts(v) :
          /\ posted' = [posted EXCEPT ![v] = @ \cup {i}]
          /\ ring' = Append(ring, <<v, i>>) \/ ring' = ring
      BY <1>5 DEF Post
    <2>1. i \notin posted[v] /\ posted \in [Ids -> SUBSET Nat]
      BY DEF NextParts, PlacesInv
    <2>2. \A u \in Ids : posted[u] \subseteq posted'[u]
      BY <2>1
    <2>3. \A k \in 1..Len(ring') : ring'[k] = <<v, i>> \/ (k \in 1..Len(ring) /\ ring'[k] = ring[k])
      <3>1. CASE ring' = ring
        BY <3>1
      <3>2. CASE ring' = Append(ring, <<v, i>>)
        <4>1. ring \in Seq(Ids \X Nat) /\ Len(ring) \in Nat
          BY LenProperties DEF PlacesInv
        <4>2. Len(ring') = Len(ring) + 1 /\ ring'[Len(ring) + 1] = <<v, i>>
              /\ \A k \in 1..Len(ring) : ring'[k] = ring[k]
          BY <3>2, <4>1
        <4>3. \A k \in 1..(Len(ring) + 1) : k \in 1..Len(ring) \/ k = Len(ring) + 1
          BY <4>1
        <4>4. ASSUME NEW k \in 1..Len(ring')
              PROVE  ring'[k] = <<v, i>> \/ (k \in 1..Len(ring) /\ ring'[k] = ring[k])
          <5>1. k \in 1..Len(ring) \/ k = Len(ring) + 1
            BY <4>2, <4>3
          <5> QED
            BY <4>2, <5>1
        <4> QED
          BY <4>4
      <3> QED
        BY <3>1, <3>2
    <2>4. ASSUME NEW u \in Ids PROVE Gone(u) \subseteq Gone(u)'
      <3> SUFFICES ASSUME NEW j \in Gone(u) PROVE j \in Gone(u)'
        OBVIOUS
      <3>1. j \in posted[u] /\ j \in posted'[u] /\ \A k \in 1..Len(ring) : ring[k] # <<u, j>>
        BY <2>2 DEF Gone
      <3>2. <<u, j>> # <<v, i>>
        BY <2>1, <3>1
      <3>3. \A k \in 1..Len(ring') : ring'[k] # <<u, j>>
        BY <2>3, <3>1, <3>2
      <3> QED
        BY <3>1, <3>3 DEF Gone
    <2>5. /\ taken' = taken /\ fp' = fp /\ data' = data /\ fresh' = fresh
          /\ disturbed' = disturbed \/ disturbed' = disturbed \cup {v}
      BY <1>5 DEF Post, workVars, fileVars
    <2>6. \A u \in Ids : taken'[u] <= Cardinality(Gone(u)')
      BY <1>4, <2>4, <2>5
    <2> QED
      BY <1>1, <1>2, <2>5, <2>6 DEF TakenInv
  <1>6. ASSUME NEW w \in Workers, Take(w) PROVE TakenInv'
    <2> PICK v, i : v = Head(ring)[1] /\ i = Head(ring)[2]
      OBVIOUS
    <2>1. /\ v \in Ids /\ i \in posted[v]
          /\ (\E k \in 1..Len(ring) : ring[k] = <<v, i>>)
          /\ \A k \in 1..Len(ring') : ring'[k] # <<v, i>>
                                      /\ \E l \in 1..Len(ring) : ring'[k] = ring[l]
          /\ taken' = [taken EXCEPT ![v] = @ + 1]
          /\ disturbed' = disturbed \cup Disturbed(v, i)
      BY <1>6, Taking
    <2>2. posted' = posted /\ fp' = fp /\ data' = data /\ fresh' = fresh
      BY <1>6 DEF Take, fileVars
    <2>3. \A u \in Ids : Gone(u) \subseteq Gone(u)'
      BY <2>1, <2>2 DEF Gone
    <2>4. i \in Gone(v)' /\ i \notin Gone(v)
      BY <2>1, <2>2 DEF Gone
    <2>5. Cardinality(Gone(v)) + 1 <= Cardinality(Gone(v)')
      <3>1. /\ Cardinality(Gone(v) \cup {i}) = Cardinality(Gone(v)) + 1
            /\ Gone(v) \cup {i} \subseteq Gone(v)'
        BY <1>3, <2>1, <2>3, <2>4, FS_AddElement
      <3>2. Cardinality(Gone(v) \cup {i}) <= Cardinality(Gone(v)')
        BY <1>3, <2>1, <3>1, FS_Subset
      <3> QED
        BY <3>1, <3>2
    <2>6. taken' \in [Ids -> Nat] /\ taken'[v] = taken[v] + 1
          /\ \A u \in Ids \ {v} : taken'[u] = taken[u]
      BY <1>1, <2>1
    <2>7. taken'[v] <= Cardinality(Gone(v)')
      BY <1>1, <1>3, <2>1, <2>5, <2>6
    <2>8. \A u \in Ids : taken'[u] <= Cardinality(Gone(u)')
      BY <1>4, <2>3, <2>6, <2>7
    <2>9. Disturbed(v, i) \subseteq Ids
      BY <2>1 DEF Disturbed, SameFile
    <2> QED
      BY <1>1, <1>2, <2>1, <2>2, <2>6, <2>8, <2>9 DEF TakenInv
  <1>7. ASSUME NEW w \in Workers, Work(w), ~Take(w) PROVE TakenInv'
    <2>1. Local(w)
      BY <1>7, WorkLocal
    <2>2. UNCHANGED <<posted, ring, taken>> /\ disturbed' \subseteq disturbed \cup {Upload(w)}
          /\ Busy(w) /\ Len(data) <= Len(data')
      BY <2>1 DEF Local
    <2>3. Upload(w) \in Ids /\ File(w) \in Names
      BY <2>2, Held
    <2>4. \A u \in Ids : taken'[u] <= Cardinality(Gone(u)')
      BY <1>4, <2>2 DEF Gone
    <2>5. fresh' \in [Workers -> BOOLEAN]
      BY <1>1, <1>7 DEF Work, Look, Create, Open, GiveUp, Write, Measure, Recheck, Rename, Small
    <2>6. ASSUME NEW x \in Workers PROVE fp'[x] <= Len(data')
      <3>1. name'[File(w)] <= Len(data') /\ Len(data') \in Nat /\ fp'[x] \in Nat
        BY <1>2, <2>3, LenProperties DEF FilesInv
      <3>2. fp'[x] \in {fp[x], name'[File(w)]}
        BY <2>1 DEF Local
      <3> QED
        BY <1>1, <2>2, <3>1, <3>2
    <2> QED
      BY <1>1, <1>2, <2>2, <2>3, <2>4, <2>5, <2>6 DEF TakenInv
  <1>8. CASE UNCHANGED vars
    <2>1. UNCHANGED <<posted, ring, taken, disturbed, fresh, fp, data>>
      BY <1>8 DEF vars, workVars, fileVars
    <2>2. \A u \in Ids : taken'[u] <= Cardinality(Gone(u)')
      BY <1>4, <2>1 DEF Gone
    <2> QED
      BY <1>1, <1>2, <2>1, <2>2 DEF TakenInv
  <1> QED
    BY <1>5, <1>6, <1>7, <1>8 DEF Next

\* A step keeps files under different names apart.
LEMMA ApartNext ==
  ASSUME PlacesInv, FilesInv, TakenInv, ApartInv, [Next]_vars
  PROVE  ApartInv'
  <1>1. /\ name \in [Names -> Nat] /\ (\A f \in Names : name[f] <= Len(data)) /\ Len(data) \in Nat
        /\ \A x \in Workers : pc[x] = "write" => fp[x] \in 1..Len(data)
        /\ \A f, g \in Names : name[f] = name[g] /\ name[f] # 0 => f = g
        /\ \A x \in Workers : pc[x] = "write" => \A f \in Names : f # File(x) => name[f] # fp[x]
    BY LenProperties DEF FilesInv, ApartInv
  <1>2. uploads' = uploads /\ Names' = Names
    BY PlanKept
  <1>3. ASSUME UNCHANGED <<name, fp>>,
               \A x \in Workers : pc'[x] = "write" => pc[x] = "write" /\ part'[x] = part[x]
        PROVE  ApartInv'
    <2>1. \A x \in Workers : pc'[x] = "write" => File(x)' = File(x)
      BY <1>2, <1>3 DEF File, Upload
    <2> QED
      BY <1>1, <1>2, <1>3, <2>1 DEF ApartInv
  <1>4. ASSUME NEW v \in Ids, Post(v) PROVE ApartInv'
    BY <1>3, <1>4 DEF Post, workVars, fileVars
  <1>5. ASSUME NEW w \in Workers, Take(w) PROVE ApartInv'
    <2>1. UNCHANGED <<name, fp>> /\ pc' = [pc EXCEPT ![w] = "look"]
      BY <1>5 DEF Take, fileVars
    <2>2. \A x \in Workers : pc'[x] = "write" => pc[x] = "write" /\ part'[x] = part[x]
      BY <1>5, <2>1 DEF Take, PlacesInv
    <2> QED
      BY <1>3, <2>1, <2>2
  <1>6. ASSUME NEW w \in Workers, Work(w), ~Take(w) PROVE ApartInv'
    <2>1. Local(w)
      BY <1>6, WorkLocal
    <2> PICK g : g = File(w)
      OBVIOUS
    <2>2. g \in Names
      BY <2>1, Held DEF Local
    <2>3. /\ name'[g] \in {name[g], 0, Len(data) + 1} /\ \A f \in Names \ {g} : name'[f] = name[f]
          /\ \A x \in Workers \ {w} : pc'[x] = pc[x] /\ fp'[x] = fp[x]
          /\ pc'[w] = "write" => fp'[w] = name'[g] /\ fp'[w] # 0
          /\ part' = part
      BY <2>1 DEF Local
    <2>4. \A x \in Workers : File(x)' = File(x)
      BY <1>2, <2>3 DEF File, Upload
    <2>5. ASSUME NEW f \in Names, f # g, name'[f] # 0 PROVE name'[f] # name'[g]
      <3>1. name'[f] = name[f] /\ name[f] <= Len(data) /\ name[f] \in Nat
        BY <1>1, <2>3, <2>5
      <3>2. name[f] # name[g]
        BY <1>1, <2>2, <2>5, <3>1
      <3> QED
        BY <1>1, <2>3, <2>5, <3>1, <3>2
    <2>6. \A e, f \in Names : name'[e] = name'[f] /\ name'[e] # 0 => e = f
      <3> SUFFICES ASSUME NEW e \in Names, NEW f \in Names, name'[e] = name'[f], name'[e] # 0
                   PROVE  e = f
        OBVIOUS
      <3>1. CASE e = g \/ f = g
        BY <2>5, <3>1
      <3>2. CASE e # g /\ f # g
        BY <1>1, <2>3, <3>2
      <3> QED
        BY <3>1, <3>2
    <2>7. ASSUME NEW x \in Workers, pc'[x] = "write", NEW f \in Names, f # File(x)
          PROVE  name'[f] # fp'[x]
      <3>1. CASE x = w
        <4>1. fp'[w] = name'[g] /\ fp'[w] # 0 /\ f # g
          BY <2>3, <2>7, <3>1
        <4> QED
          BY <2>5, <3>1, <4>1
      <3>2. CASE x # w
        <4>1. fp'[x] = fp[x] /\ pc[x] = "write" /\ fp[x] \in 1..Len(data) /\ name[f] # fp[x]
          BY <1>1, <2>3, <2>7, <3>2
        <4>2. name'[f] \in {name[f], 0, Len(data) + 1}
          BY <2>3
        <4> QED
          BY <1>1, <4>1, <4>2
      <3> QED
        BY <3>1, <3>2
    <2> QED
      BY <1>2, <2>4, <2>6, <2>7 DEF ApartInv
  <1>7. CASE UNCHANGED vars
    BY <1>3, <1>7 DEF vars, workVars, fileVars
  <1> QED
    BY <1>4, <1>5, <1>6, <1>7 DEF Next

(***************************************************************************)
(* Steps on other attachments                                              *)
(***************************************************************************)

\* What a step of w leaves of another upload's announcements and of its file, if that
\* goes by another name.
LEMMA OthersKept ==
  ASSUME PlacesInv, FilesInv, ApartInv, NEW w \in Workers, Local(w), PlacesInv', FilesInv',
         NEW u \in Ids
  PROVE  /\ u # Upload(w) => About(u)' = About(u)
         /\ \A k \in DOMAIN announced : k \in DOMAIN announced' /\ announced'[k] = announced[k]
         /\ \A x \in Workers : (On(x, u)' <=> Busy(x)' /\ On(x, u)) /\ (By(x, u)' => By(x, u))
         /\ \A x \in Workers \ {w} : (On(x, u)' <=> On(x, u)) /\ (By(x, u)' <=> By(x, u))
         /\ uploads[u].file # File(w) =>
               /\ Now(u)' = Now(u) /\ Now(u) \in Nat /\ (Now(u) # 0 => data'[Now(u)] = data[Now(u)])
               /\ \A x \in Workers : By(x, u) => x # w
  <1>1. /\ Busy(w) /\ uploads' = uploads /\ part' = part
        /\ \A x \in Workers \ {w} : pc'[x] = pc[x] /\ fp'[x] = fp[x]
        /\ \A f \in Names \ {File(w)} : name'[f] = name[f]
        /\ \A f \in 1..Len(data) :
              f # name[File(w)] /\ ~(pc[w] = "write" /\ f = fp[w]) => data'[f] = data[f]
        /\ \/ announced' = announced
           \/ \E f \in Nat : announced' = Append(announced, [upload |-> Upload(w), file |-> f])
    BY DEF Local
  <1>2. /\ announced \in Seq([upload : Ids, file : Nat]) /\ Len(announced) \in Nat
        /\ DOMAIN announced = 1..Len(announced) /\ name \in [Names -> Nat]
        /\ (\A f \in Names : name[f] <= Len(data)) /\ Len(data) \in Nat
    BY LenProperties DEF FilesInv
  <1>3. \/ announced' = announced
        \/ /\ DOMAIN announced' = 1..(Len(announced) + 1)
           /\ \A k \in 1..Len(announced) : announced'[k] = announced[k]
           /\ announced'[Len(announced) + 1].upload = Upload(w)
    <2>1. ASSUME NEW f \in Nat, announced' = Append(announced, [upload |-> Upload(w), file |-> f])
          PROVE  /\ DOMAIN announced' = 1..(Len(announced) + 1)
                 /\ \A k \in 1..Len(announced) : announced'[k] = announced[k]
                 /\ announced'[Len(announced) + 1].upload = Upload(w)
      <3> PICK a : a = [upload |-> Upload(w), file |-> f]
        OBVIOUS
      <3>1. Upload(w) \in Ids
        BY <1>1, Held
      <3>2. a \in [upload : Ids, file : Nat] /\ announced' = Append(announced, a)
        BY <2>1, <3>1
      <3>3. /\ DOMAIN announced' = 1..(Len(announced) + 1)
            /\ announced'[Len(announced) + 1] = a
            /\ \A k \in 1..Len(announced) : announced'[k] = announced[k]
        BY <1>2, <3>2, AppendProperties, LenProperties
      <3> QED
        BY <3>3
    <2> QED
      BY <1>1, <2>1
  <1>4. \A k \in DOMAIN announced : k \in DOMAIN announced' /\ announced'[k] = announced[k]
    BY <1>2, <1>3
  <1>5. ASSUME u # Upload(w) PROVE About(u)' = About(u)
    <2>1. \A k \in DOMAIN announced' : announced'[k].upload = u => k \in DOMAIN announced
      BY <1>2, <1>3, <1>5
    <2> QED
      BY <1>4, <2>1 DEF About
  <1>6. \A x \in Workers : (On(x, u)' <=> Busy(x)' /\ On(x, u)) /\ (By(x, u)' => By(x, u))
    BY <1>1 DEF On, By, Busy, Upload, File
  <1>7. \A x \in Workers \ {w} : (On(x, u)' <=> On(x, u)) /\ (By(x, u)' <=> By(x, u))
    BY <1>1 DEF On, By, Busy, Upload, File
  <1>8. ASSUME uploads[u].file # File(w)
        PROVE  /\ Now(u)' = Now(u) /\ Now(u) \in Nat /\ (Now(u) # 0 => data'[Now(u)] = data[Now(u)])
               /\ \A x \in Workers : By(x, u) => x # w
    <2> PICK f : f = uploads[u].file
      OBVIOUS
    <2>1. f \in Names /\ f # File(w) /\ File(w) \in Names
      BY <1>1, <1>8, Held DEF Names
    <2>2. name'[f] = name[f] /\ name[f] \in 0..Len(data)
      BY <1>1, <1>2, <2>1
    <2>3. ASSUME name[f] # 0 PROVE name[f] # name[File(w)] /\ ~(pc[w] = "write" /\ name[f] = fp[w])
      BY <2>1, <2>3 DEF ApartInv
    <2>4. name[f] # 0 => data'[name[f]] = data[name[f]]
      BY <1>1, <1>2, <2>2, <2>3
    <2>5. Now(u) = name[f] /\ Now(u)' = name'[f]
      BY <1>1 DEF Now
    <2> QED
      BY <1>8, <2>2, <2>4, <2>5 DEF By
  <1> QED
    BY <1>4, <1>5, <1>6, <1>7, <1>8

\* What is finished stays out of reach when w works on another upload.
LEMMA OthersFinished ==
  ASSUME PlacesInv, FilesInv, ApartInv, NEW w \in Workers, Local(w), PlacesInv', FilesInv',
         NEW u \in Ids, u # Upload(w), Finished(u)
  PROVE  Finished(u)'
  <1>1. /\ About(u)' = About(u)
        /\ \A k \in DOMAIN announced : k \in DOMAIN announced' /\ announced'[k] = announced[k]
    BY OthersKept
  <1>2. /\ uploads' = uploads /\ Ids' = Ids /\ Names' = Names
    BY DEF Local, Ids, Names
  <1>3. \A k \in DOMAIN announced : announced[k].file <= Len(data) /\ announced[k].file \in Nat
    <2>1. DOMAIN announced = 1..Len(announced)
      BY LenProperties DEF FilesInv
    <2>2. \A k \in 1..Len(announced) : announced[k] \in [upload : Ids, file : Nat]
      BY ElementOfSeq DEF FilesInv
    <2> QED
      BY <2>1, <2>2 DEF FilesInv
  <1>4. ASSUME NEW k \in About(u)
        PROVE  /\ announced'[k].file # 0 /\ Contents(k)' = Whole(u)
               /\ \A f \in Names : name'[f] # announced'[k].file
               /\ \A x \in Workers : pc'[x] = "write" => fp'[x] # announced'[k].file
    <2> PICK n : n = announced[k].file
      OBVIOUS
    <2>1. k \in DOMAIN announced
      BY DEF About
    <2>2. announced'[k].file = n /\ n # 0 /\ Len(data) \in Nat /\ n \in 1..Len(data)
      BY <1>1, <1>3, <2>1, LenProperties DEF Finished, FilesInv
    <2>3. /\ Contents(k) = Whole(u) /\ \A f \in Names : name[f] # n
          /\ \A x \in Workers : pc[x] = "write" => fp[x] # n
      BY DEF Finished
    <2>4. File(w) \in Names
      BY Held DEF Local
    <2>5. data'[n] = data[n]
      BY <2>2, <2>3, <2>4 DEF Local
    <2>6. Contents(k)' = data'[n] /\ Contents(k) = data[n]
      BY <2>2 DEF Contents
    <2>7. \A f \in Names : name'[f] # n
      BY <2>2, <2>3, <2>4 DEF Local
    <2>8. ASSUME NEW x \in Workers, pc'[x] = "write" PROVE fp'[x] # n
      <3>1. CASE x = w
        BY <2>4, <2>7, <2>8, <3>1 DEF Local
      <3>2. CASE x # w
        BY <2>3, <2>8, <3>2 DEF Local
      <3> QED
        BY <3>1, <3>2
    <2> QED
      BY <2>2, <2>3, <2>5, <2>6, <2>7, <2>8
  <1>5. \A k, j \in About(u) : j = k
    BY DEF Finished
  <1>6. Whole(u)' = Whole(u)
    BY <1>2 DEF Whole, Size, Count
  <1> QED
    BY <1>1, <1>2, <1>4, <1>5, <1>6 DEF Finished

\* An upload under another name goes on in turn.
LEMMA OthersInTurn ==
  ASSUME PlacesInv, FilesInv, ApartInv, NEW w \in Workers, Local(w), PlacesInv', FilesInv',
         NEW u \in Ids, uploads[u].file # File(w), InTurn(u)
  PROVE  InTurn(u)'
  <1>1. u # Upload(w)
    BY DEF File
  <1>2. /\ About(u)' = About(u)
        /\ Now(u)' = Now(u) /\ Now(u) \in Nat /\ (Now(u) # 0 => data'[Now(u)] = data[Now(u)])
        /\ \A x \in Workers : By(x, u) => x # w
        /\ \A x \in Workers : By(x, u)' => By(x, u)
        /\ \A x \in Workers \ {w} : (On(x, u)' <=> On(x, u)) /\ (By(x, u)' <=> By(x, u))
    BY <1>1, OthersKept
  <1>3. \A x \in Workers : (On(x, u) => x # w) /\ (On(x, u)' => x # w)
    BY <1>1, <1>2 DEF On, By, Local, Upload
  <1>4. \A x \in Workers : On(x, u)' <=> On(x, u)
    BY <1>2, <1>3
  <1>5. /\ taken' = taken /\ uploads' = uploads /\ Count(u)' = Count(u) /\ part' = part
    BY DEF Local, Count
  <1>6. \A n : First(u, n)' = First(u, n)
    BY DEF First
  <1>7. \A i : Offset(u, i)' = Offset(u, i) /\ Size(u)' = Size(u)
    BY <1>5 DEF Offset, Size, Count
  <1>8. \A i : (Before(u, i)' <=> Before(u, i)) /\ (UpTo(u, i)' <=> UpTo(u, i))
    BY <1>2, <1>5, <1>7 DEF Before, UpTo, First
  <1>9. LeftOver(u)' <=> LeftOver(u)
    BY <1>2, <1>5, <1>7 DEF LeftOver
  <1>10. ASSUME NEW x \in Workers, x # w, NEW i, Stage(x, u, i) PROVE Stage(x, u, i)'
    <2>1. /\ pc'[x] = pc[x] /\ fp'[x] = fp[x] /\ fresh'[x] = fresh[x]
          /\ now_length'[x] = now_length[x]
      BY <1>10 DEF Local
    <2> QED
      BY <1>2, <1>5, <1>8, <1>9, <1>10, <2>1 DEF Stage
  <1>11. ASSUME NEW x \in Workers, On(x, u)'
         PROVE  /\ Number(x)' = taken'[u] /\ Stage(x, u, taken[u])'
                /\ \A y \in Workers : By(y, u)' => y = x
    <2>1. /\ Number(x) = taken[u] /\ Stage(x, u, taken[u]) /\ x # w
          /\ \A y \in Workers : By(y, u) => y = x
      BY <1>3, <1>4, <1>11 DEF InTurn
    <2> PICK t : t = taken[u]
      OBVIOUS
    <2>2. Stage(x, u, t)'
      BY <1>10, <2>1
    <2>3. Stage(x, u, taken[u])'
      BY <1>5, <2>2
    <2>4. Number(x)' = Number(x)
      BY <1>5 DEF Number
    <2> QED
      BY <1>2, <1>5, <2>1, <2>3, <2>4
  <1>12. ASSUME taken'[u] \in 1..(Count(u)' - 1)
         PROVE  /\ \A x \in Workers : By(x, u)' => Upload(x)' = u
                /\ (\A x \in Workers : ~On(x, u)') => UpTo(u, taken[u])'
    <2>1. /\ \A x \in Workers : By(x, u) => Upload(x) = u
          /\ (\A x \in Workers : ~On(x, u)) => UpTo(u, taken[u])
      BY <1>5, <1>12 DEF InTurn
    <2>2. \A x \in Workers : Upload(x)' = Upload(x)
      BY <1>5 DEF Upload
    <2>3. UpTo(u, taken[u])' <=> UpTo(u, taken[u])
      BY <1>2, <1>5 DEF UpTo, First
    <2> QED
      BY <1>2, <1>4, <2>1, <2>2, <2>3
  <1>13. taken'[u] < Count(u)' \/ (\E x \in Workers : On(x, u)') => About(u)' = {}
    BY <1>2, <1>4, <1>5 DEF InTurn
  <1>14. taken'[u] <= Count(u)'
    BY <1>5 DEF InTurn
  <1> QED
    BY <1>11, <1>12, <1>13, <1>14 DEF InTurn

\* While w works on another upload under its name, u has not begun or is done.
LEMMA SameNameInTurn ==
  ASSUME PlacesInv, FilesInv, TakenInv, ApartInv, NEW w \in Workers, Local(w),
         PlacesInv', FilesInv',
         NEW u \in Ids, u # Upload(w), uploads[u].file = File(w), InTurn(u)
  PROVE  InTurn(u)'
  <1>1. By(w, u)
    BY DEF By, Local
  <1>2. \A x \in Workers : ~On(x, u)
    <2> SUFFICES ASSUME NEW x \in Workers, On(x, u) PROVE FALSE
      OBVIOUS
    <2>1. w = x
      BY <1>1 DEF InTurn
    <2> QED
      BY <2>1 DEF On
  <1>3. taken[u] \notin 1..(Count(u) - 1)
    BY <1>1 DEF InTurn
  <1>4. /\ About(u)' = About(u) /\ taken' = taken /\ Count(u)' = Count(u)
        /\ \A x \in Workers : ~On(x, u)'
    BY <1>2, OthersKept DEF Local, Count
  <1> QED
    BY <1>2, <1>3, <1>4 DEF InTurn

\* A name under which nobody worked still leads to no file, or to one left over.
LEMMA OthersAtRest ==
  ASSUME PlacesInv, FilesInv, ApartInv, NEW w \in Workers, Local(w), PlacesInv', FilesInv',
         NEW u \in Ids, uploads[u].file # File(w), AtRest(u)',
         AtRest(u) => Now(u) = 0 \/ LeftOver(u)
  PROVE  Now(u)' = 0 \/ LeftOver(u)'
  <1>1. /\ Now(u)' = Now(u) /\ Now(u) \in Nat /\ (Now(u) # 0 => data'[Now(u)] = data[Now(u)])
        /\ \A x \in Workers : By(x, u) => x # w
        /\ \A x \in Workers \ {w} : By(x, u)' <=> By(x, u)
    BY OthersKept
  <1>2. uploads' = uploads /\ taken' = taken /\ disturbed \subseteq disturbed'
    BY DEF Local
  <1>3. SameFile(u)' = SameFile(u) /\ (\A v : Count(v)' = Count(v)) /\ Size(u)' = Size(u)
    BY <1>2 DEF SameFile, Ids, Count, Size
  <1>4. AtRest(u)
    <2>1. \A v \in SameFile(u) : v \notin disturbed /\ taken[v] \in {0, Count(v)}
      BY <1>2, <1>3 DEF AtRest
    <2>2. \A x \in Workers : ~By(x, u)
      BY <1>1 DEF AtRest
    <2> QED
      BY <2>1, <2>2 DEF AtRest
  <1>5. LeftOver(u)' <=> LeftOver(u)
    BY <1>1, <1>2, <1>3 DEF LeftOver
  <1> QED
    BY <1>1, <1>4, <1>5

(***************************************************************************)
(* Steps on the attachment itself                                          *)
(***************************************************************************)

\* What may become of the part of v that w holds: w goes on with it, has put it into the
\* file, or has put it there and announced the attachment.
Goes(w, v) == Busy(w)' /\ announced' = announced /\ Stage(w, v, taken[v])'

Pauses(w, v) ==
    /\ ~Busy(w)' /\ announced' = announced
    /\ IF taken[v] < Count(v) THEN UpTo(v, taken[v])' ELSE LeftOver(v)'

Announces(w, v) ==
    /\ ~Busy(w)' /\ taken[v] = Count(v) /\ Now(v)' = 0
    /\ \E n \in Nat \ {0} :
          /\ announced' = Append(announced, [upload |-> v, file |-> n])
          /\ data'[n] = Whole(v)
          /\ \A f \in Names : name'[f] # n
          /\ \A x \in Workers : pc'[x] = "write" => fp'[x] # n

\* In each case the parts stay in turn.
LEMMA OwnInTurn ==
  ASSUME PlacesInv, FilesInv, ApartInv, NEW w \in Workers, Local(w), PlacesInv', FilesInv',
         NEW v \in Ids, v = Upload(w), InTurn(v), taken \in [Ids -> Nat],
         Goes(w, v) \/ Pauses(w, v) \/ Announces(w, v)
  PROVE  /\ InTurn(v)' /\ Finished(v)'
         /\ ~Busy(w)' /\ taken[v] \in {0, Count(v)} => Now(v)' = 0 \/ LeftOver(v)'
  <1>1. On(w, v) /\ Number(w) \in 1..Count(v) /\ taken[v] = Number(w) /\ Count(v) \in Nat
    <2>1. Busy(w)
      BY DEF Local
    <2> QED
      BY <2>1, Held, PartsInOrder DEF On, InTurn
  <1>2. About(v) = {} /\ \A x \in Workers : By(x, v) => x = w
    BY <1>1 DEF InTurn
  <1>3. /\ taken' = taken /\ uploads' = uploads /\ Count(v)' = Count(v) /\ part' = part
        /\ Whole(v)' = Whole(v) /\ Names' = Names
    BY DEF Local, Count, Whole, Size, Names, Ids
  <1>4. /\ \A x \in Workers : On(x, v)' => x = w /\ Busy(w)'
        /\ \A x \in Workers : By(x, v)' => x = w /\ Busy(w)'
    <2>1. \A x \in Workers : On(x, v)' => By(x, v)'
      BY DEF On, By, File
    <2>2. \A x \in Workers : By(x, v)' => By(x, v) /\ Busy(x)'
      BY OthersKept DEF By
    <2> QED
      BY <1>2, <2>1, <2>2
  <1>5. Upload(w)' = v /\ Number(w)' = taken'[v]
    BY <1>1, <1>3 DEF Upload, Number
  <1>6. UpTo(v, taken[v])' <=> (Now(v)' # 0 /\ data'[Now(v)'] = First(v, uploads'[v].ends[taken'[v]]))
    BY DEF UpTo, First
  <1>7. CASE Goes(w, v)
    <2>1. About(v)' = {}
      BY <1>2, <1>7 DEF Goes, About
    <2>2. Finished(v)'
      BY <2>1 DEF Finished
    <2>3. Busy(w)' /\ Stage(w, v, taken[v])' /\ On(w, v)'
      BY <1>5, <1>7 DEF Goes, On
    <2>4. InTurn(v)'
      BY <1>1, <1>3, <1>4, <1>5, <2>1, <2>3 DEF InTurn
    <2> QED
      BY <2>2, <2>3, <2>4
  <1>8. CASE Pauses(w, v)
    <2>1. About(v)' = {} /\ ~Busy(w)'
      BY <1>2, <1>8 DEF Pauses, About
    <2>2. Finished(v)'
      BY <2>1 DEF Finished
    <2>3. taken[v] \in 1..(Count(v) - 1) => UpTo(v, taken[v])'
      BY <1>1, <1>8 DEF Pauses
    <2>4. InTurn(v)'
      BY <1>1, <1>3, <1>4, <2>1, <2>3 DEF InTurn
    <2>5. taken[v] \in {0, Count(v)} => LeftOver(v)'
      BY <1>1, <1>8 DEF Pauses
    <2> QED
      BY <2>2, <2>4, <2>5
  <1>9. CASE Announces(w, v)
    <2> PICK n \in Nat \ {0} :
          /\ announced' = Append(announced, [upload |-> v, file |-> n])
          /\ data'[n] = Whole(v)
          /\ \A f \in Names : name'[f] # n
          /\ \A x \in Workers : pc'[x] = "write" => fp'[x] # n
      BY <1>9 DEF Announces
    <2> PICK a, l : a = [upload |-> v, file |-> n] /\ l = Len(announced) + 1
      OBVIOUS
    <2>1. /\ DOMAIN announced = 1..Len(announced) /\ Len(announced) \in Nat
          /\ DOMAIN announced' = 1..l /\ announced'[l] = a
          /\ \A k \in 1..Len(announced) : announced'[k] = announced[k]
      <3>1. announced \in Seq([upload : Ids, file : Nat]) /\ a \in [upload : Ids, file : Nat]
        BY DEF FilesInv
      <3> QED
        BY <3>1, AppendProperties, LenProperties
    <2>2. About(v)' = {l}
      <3>1. \A k \in 1..Len(announced) : announced[k].upload # v
        BY <1>2, <2>1 DEF About
      <3>2. \A k \in 1..l : k \in 1..Len(announced) \/ k = l
        BY <2>1
      <3>3. l \in 1..l /\ announced'[l].upload = v
        BY <2>1
      <3>4. \A k \in 1..Len(announced) : announced'[k].upload # v
        BY <2>1, <3>1
      <3>5. \A k \in 1..l : announced'[k].upload = v <=> k = l
        BY <3>2, <3>3, <3>4
      <3> QED
        BY <2>1, <3>3, <3>5 DEF About
    <2>3. announced'[l].file = n /\ n # 0
      BY <2>1
    <2>4. Contents(l)' = Whole(v)'
      BY <1>3, <2>3 DEF Contents
    <2>5. Finished(v)'
      BY <1>3, <2>2, <2>3, <2>4 DEF Finished
    <2>6. ~Busy(w)' /\ taken[v] = Count(v) /\ Now(v)' = 0
      BY <1>9 DEF Announces
    <2>7. InTurn(v)'
      BY <1>1, <1>3, <1>4, <2>6 DEF InTurn
    <2> QED
      BY <2>5, <2>6, <2>7
  <1> QED
    BY <1>7, <1>8, <1>9

\* What w knows of its part, and of the file.
LEMMA OwnFacts ==
  ASSUME PlacesInv, FilesInv, NEW w \in Workers, Busy(w), NEW v, v = Upload(w), InTurn(v),
         NEW i, i = taken[v]
  PROVE  /\ v \in Ids /\ i = Number(w) /\ i \in 1..Count(v) /\ Count(v) \in Nat \ {0}
         /\ Stage(w, v, i)
         /\ File(w) = uploads[v].file /\ File(w) \in Names /\ Kind(w) = uploads[v].kind
         /\ Kind(w) \in Appending \cup Positioned
         /\ (IsLast(w) <=> i = Count(v)) /\ Length(w) = Extent(v, i)
         /\ Now(v) = name[File(w)] /\ Now(v) \in 0..Len(data) /\ (Exists(w) <=> Now(v) # 0)
         /\ pc[w] \in {"look", "create", "open", "small", "write", "measure", "recheck", "rename"}
         /\ pc \in [Workers -> {"idle", "look", "create", "open", "small", "write",
                                "measure", "recheck", "rename"}]
  <1>1. v \in Ids /\ Number(w) \in 1..Count(v) /\ File(w) \in Names
    BY Held
  <1>2. Count(v) \in Nat \ {0}
    BY <1>1, PartsInOrder
  <1>3. i = Number(w) /\ Stage(w, v, i)
    <2>1. On(w, v)
      BY DEF On
    <2> QED
      BY <2>1 DEF InTurn
  <1>4. Kind(w) \in Appending \cup Positioned
    BY <1>1, UploadAssemblyAssumption DEF PlacesInv, Kind, Ids, UploadAssemblyAssumption
  <1>5. Now(v) = name[File(w)] /\ Now(v) \in 0..Len(data)
    <2>1. Now(v) = name[File(w)]
      BY DEF Now, File
    <2>2. name[File(w)] \in Nat /\ name[File(w)] <= Len(data) /\ Len(data) \in Nat
      BY <1>1, LenProperties DEF FilesInv
    <2> QED
      BY <2>1, <2>2
  <1>6. /\ pc \in [Workers -> {"idle", "look", "create", "open", "small", "write",
                               "measure", "recheck", "rename"}]
        /\ pc[w] # "idle"
    BY DEF PlacesInv, Busy
  <1> QED
    BY <1>1, <1>2, <1>3, <1>4, <1>5, <1>6 DEF File, Kind, IsLast, Length, Exists

\* What lies in the files, when only places of workers change.
LEMMA FilesStay ==
  ASSUME UNCHANGED <<uploads, name, data>>
  PROVE  \A v, i : /\ Now(v)' = Now(v) /\ (Before(v, i)' <=> Before(v, i))
                   /\ (UpTo(v, i)' <=> UpTo(v, i)) /\ (LeftOver(v)' <=> LeftOver(v))
                   /\ Count(v)' = Count(v) /\ Size(v)' = Size(v) /\ Offset(v, i)' = Offset(v, i)
  BY DEF Now, Before, UpTo, LeftOver, Count, Size, Offset, First

\* Looking for the file.
LEMMA LookOwn ==
  ASSUME PlacesInv, FilesInv, TakenInv, NEW w \in Workers, Look(w), NEW v, v = Upload(w), InTurn(v)
  PROVE  Goes(w, v)
  <1> PICK i : i = taken[v]
    OBVIOUS
  <1>1. /\ pc[w] = "look" /\ UNCHANGED <<uploads, part, name, data, announced, taken, now_length>>
        /\ fp' = [fp EXCEPT ![w] = name[File(w)]] /\ fresh' = [fresh EXCEPT ![w] = FALSE]
        /\ pc' = [pc EXCEPT ![w] =
              CASE Exists(w) /\ Kind(w) \in Appending            -> "open"
                [] Exists(w) /\ Kind(w) \in Positioned           -> "write"
                [] ~Exists(w) /\ Kind(w) = "flag" /\ IsLast(w)   -> "small"
                [] OTHER                                         -> "create"]
    BY DEF Look, Goto, fileVars
  <1>2. Busy(w)
    BY <1>1 DEF Busy
  <1>3. /\ v \in Ids /\ i \in 1..Count(v) /\ Count(v) \in Nat \ {0} /\ Stage(w, v, i)
        /\ Kind(w) = uploads[v].kind /\ Kind(w) \in Appending \cup Positioned
        /\ (IsLast(w) <=> i = Count(v)) /\ Now(v) = name[File(w)] /\ (Exists(w) <=> Now(v) # 0)
        /\ pc \in [Workers -> {"idle", "look", "create", "open", "small", "write",
                               "measure", "recheck", "rename"}]
        /\ fp \in [Workers -> Nat] /\ fresh \in [Workers -> BOOLEAN]
    BY <1>2, OwnFacts DEF FilesInv, TakenInv
  <1>4. IF i = 1 THEN Now(v) = 0 \/ LeftOver(v) ELSE Before(v, i)
    BY <1>1, <1>3 DEF Stage
  <1>5. /\ fp'[w] = Now(v) /\ ~fresh'[w]
        /\ Exists(w) /\ Kind(w) \in Appending => pc'[w] = "open"
        /\ Exists(w) /\ Kind(w) \in Positioned => pc'[w] = "write"
        /\ ~Exists(w) => pc'[w] = "create" \/ (pc'[w] = "small" /\ i = Count(v))
    BY <1>1, <1>3 DEF Appending, Positioned
  <1>6. /\ Now(v)' = Now(v) /\ (Before(v, i)' <=> Before(v, i)) /\ (LeftOver(v)' <=> LeftOver(v))
        /\ Count(v)' = Count(v)
    BY <1>1, FilesStay
  <1>7. LeftOver(v) => uploads[v].kind \notin Appending
    BY DEF LeftOver, Appending
  <1>8. Before(v, i) => Now(v) # 0
    BY DEF Before
  <1>9. Kind(w) \in Positioned => uploads[v].kind # "append"
    BY <1>3 DEF Positioned
  <1>10. Stage(w, v, i)'
    <2>1. CASE Now(v) = 0
      BY <1>1, <1>3, <1>4, <1>5, <1>6, <1>8, <2>1 DEF Stage
    <2>2. CASE Now(v) # 0 /\ Kind(w) \in Appending
      BY <1>1, <1>3, <1>4, <1>5, <1>6, <1>7, <2>2 DEF Stage
    <2>3. CASE Now(v) # 0 /\ Kind(w) \in Positioned
      BY <1>1, <1>3, <1>4, <1>5, <1>6, <1>9, <2>3 DEF Stage
    <2> QED
      BY <1>3, <2>1, <2>2, <2>3
  <1>11. pc'[w] # "idle"
    BY <1>3, <1>5
  <1>12. Stage(w, v, taken[v])'
    BY <1>1, <1>10
  <1> QED
    BY <1>1, <1>11, <1>12 DEF Goes, Busy

\* Making the file.
LEMMA CreateOwn ==
  ASSUME PlacesInv, FilesInv, TakenInv, NEW w \in Workers, Create(w), NEW v, v = Upload(w), InTurn(v)
  PROVE  Goes(w, v)
  <1> PICK i, f : i = taken[v] /\ f = File(w)
    OBVIOUS
  <1>1. /\ pc[w] = "create" /\ UNCHANGED <<uploads, part, announced, taken, now_length>>
        /\ fp' = [fp EXCEPT ![w] = Opened(f)] /\ fresh' = [fresh EXCEPT ![w] = TRUE]
        /\ data' = Emptied(f) /\ name' = [name EXCEPT ![f] = Opened(f)]
        /\ pc' = [pc EXCEPT ![w] = IF Kind(w) \in Appending THEN "open" ELSE "write"]
    BY DEF Create, Goto
  <1>2. Busy(w)
    BY <1>1 DEF Busy
  <1>3. /\ v \in Ids /\ i \in 1..Count(v) /\ Count(v) \in Nat \ {0} /\ Stage(w, v, i)
        /\ f = uploads[v].file /\ f \in Names
        /\ Kind(w) = uploads[v].kind /\ Kind(w) \in Appending \cup Positioned
        /\ pc \in [Workers -> {"idle", "look", "create", "open", "small", "write",
                               "measure", "recheck", "rename"}]
        /\ fp \in [Workers -> Nat] /\ fresh \in [Workers -> BOOLEAN] /\ name \in [Names -> Nat]
    BY <1>2, OwnFacts DEF FilesInv, TakenInv
  <1>4. i = 1
    BY <1>1, <1>3 DEF Stage
  <1> PICK n : n = Opened(f)
    OBVIOUS
  <1>5. n # 0 /\ data'[n] = <<>>
    BY <1>1, <1>3, OpenedFiles
  <1>6. fp'[w] = n /\ fresh'[w] = TRUE /\ name'[f] = n /\ Now(v)' = n
    BY <1>1, <1>3 DEF Now
  <1>7. Before(v, i)'
    <2>1. Offset(v, i)' = 0
      BY <1>4 DEF Offset
    <2>2. First(v, 0) = <<>>
      BY FirstOnes
    <2>3. Before(v, i)' <=> (Now(v)' # 0 /\ data'[Now(v)'] = First(v, Offset(v, i)'))
      BY DEF Before, First
    <2> QED
      BY <1>5, <1>6, <2>1, <2>2, <2>3
  <1>8. /\ Kind(w) \in Appending => pc'[w] = "open"
        /\ Kind(w) \notin Appending => pc'[w] = "write" /\ uploads[v].kind # "append"
    BY <1>1, <1>3 DEF Appending
  <1>9. Stage(w, v, i)'
    <2>1. CASE Kind(w) \in Appending
      BY <1>1, <1>3, <1>7, <1>8, <2>1 DEF Stage
    <2>2. CASE Kind(w) \notin Appending
      BY <1>1, <1>3, <1>4, <1>5, <1>6, <1>7, <1>8, <2>2 DEF Stage
    <2> QED
      BY <2>1, <2>2
  <1>10. Stage(w, v, taken[v])' /\ pc'[w] # "idle"
    BY <1>1, <1>8, <1>9
  <1> QED
    BY <1>1, <1>10 DEF Goes, Busy

\* Opening it to write at its end.
LEMMA OpenOwn ==
  ASSUME PlacesInv, FilesInv, TakenInv, NEW w \in Workers, Open(w), NEW v, v = Upload(w), InTurn(v)
  PROVE  Goes(w, v)
  <1> PICK i, f : i = taken[v] /\ f = File(w)
    OBVIOUS
  <1>1. /\ pc[w] = "open" /\ UNCHANGED <<uploads, part, announced, taken, fresh>>
        /\ fp' = [fp EXCEPT ![w] = Opened(f)]
        /\ data' = Kept(f) /\ name' = [name EXCEPT ![f] = Opened(f)]
        /\ now_length' = [now_length EXCEPT ![w] = Len(data'[fp'[w]])]
        /\ pc' = [pc EXCEPT ![w] = "write"]
    BY DEF Open, Goto
  <1>2. Busy(w)
    BY <1>1 DEF Busy
  <1>3. /\ v \in Ids /\ i \in 1..Count(v) /\ Stage(w, v, i)
        /\ f = uploads[v].file /\ f \in Names /\ Now(v) = name[f]
        /\ pc \in [Workers -> {"idle", "look", "create", "open", "small", "write",
                               "measure", "recheck", "rename"}]
        /\ fp \in [Workers -> Nat] /\ now_length \in [Workers -> Nat] /\ name \in [Names -> Nat]
    BY <1>2, OwnFacts DEF FilesInv, TakenInv
  <1>4. uploads[v].kind \in Appending /\ Before(v, i)
    BY <1>1, <1>3 DEF Stage
  <1> PICK n : n = Now(v)
    OBVIOUS
  <1>5. n # 0 /\ Opened(f) = n /\ data' = data
    <2>1. n # 0
      BY <1>4 DEF Before
    <2> QED
      BY <1>1, <1>3, <2>1, OpenedFiles
  <1>6. fp'[w] = n /\ name'[f] = n /\ Now(v)' = n /\ pc'[w] = "write" /\ now_length'[w] = Len(data'[n])
    BY <1>1, <1>3, <1>5 DEF Now
  <1>7. Before(v, i)'
    BY <1>1, <1>4, <1>5, <1>6 DEF Before, First, Offset
  <1>8. uploads[v].kind \notin Positioned
    BY <1>4 DEF Appending, Positioned
  <1>9. Stage(w, v, i)'
    BY <1>1, <1>5, <1>6, <1>7, <1>8 DEF Stage
  <1>10. Stage(w, v, taken[v])' /\ pc'[w] # "idle"
    BY <1>1, <1>6, <1>9
  <1> QED
    BY <1>1, <1>10 DEF Goes, Busy

\* Only the last part ends at the size of the attachment.
LEMMA EndsAtSize ==
  ASSUME PlacesInv, NEW v \in Ids, NEW i \in 1..Count(v)
  PROVE  /\ uploads[v].ends[i] \in Nat /\ Offset(v, i) \in Nat /\ Extent(v, i) \in Nat
         /\ Offset(v, i) + Extent(v, i) = uploads[v].ends[i]
         /\ (uploads[v].ends[i] = Size(v) <=> i = Count(v)) /\ Size(v) \in Nat
         /\ i = 1 => Offset(v, i) = 0
         /\ Whole(v) = First(v, Size(v))
  <1> PICK c, o, e, s : c = Count(v) /\ o = Offset(v, i) /\ e = uploads[v].ends[i] /\ s = Size(v)
    OBVIOUS
  <1>1. c \in Nat \ {0} /\ s \in Nat /\ o \in Nat /\ e \in Nat /\ o < e /\ e <= s
        /\ uploads[v].ends[c] = s /\ Extent(v, i) = e - o
    BY PartsInOrder DEF Extent, Size
  <1>2. i < c => e < s
    <2> SUFFICES ASSUME i < c PROVE e < s
      OBVIOUS
    <2>1. c \in 1..Count(v)
      BY <1>1
    <2>2. e <= Offset(v, c) /\ Offset(v, c) < s /\ Offset(v, c) \in Nat
      BY <1>1, <2>1, PartsInOrder
    <2> QED
      BY <1>1, <2>2
  <1>3. e = s <=> i = c
    BY <1>1, <1>2
  <1>4. i = 1 => o = 0
    BY DEF Offset
  <1>5. Whole(v) = First(v, Size(v))
    BY DEF Whole, First
  <1> QED
    BY <1>1, <1>3, <1>4, <1>5

\* Writing the part.
LEMMA WriteOwn ==
  ASSUME PlacesInv, FilesInv, TakenInv, NEW w \in Workers, Write(w), NEW v, v = Upload(w), InTurn(v)
  PROVE  Goes(w, v) \/ Pauses(w, v)
  <1> PICK i, n, e, s : i = taken[v] /\ n = Now(v) /\ e = uploads[v].ends[i] /\ s = Size(v)
    OBVIOUS
  <1>1. /\ pc[w] = "write" /\ UNCHANGED <<uploads, part, fp, fresh, now_length, name, announced, taken>>
        /\ data' = [data EXCEPT ![fp[w]] = Written(w)]
        /\ pc' = [pc EXCEPT ![w] = AfterWrite(w)]
    BY DEF Write, Goto
  <1>2. Busy(w)
    BY <1>1 DEF Busy
  <1>3. /\ v \in Ids /\ i = Number(w) /\ i \in 1..Count(v) /\ Count(v) \in Nat \ {0} /\ Stage(w, v, i)
        /\ Kind(w) = uploads[v].kind /\ Kind(w) \in Appending \cup Positioned
        /\ (IsLast(w) <=> i = Count(v)) /\ Length(w) = Extent(v, i)
        /\ pc \in [Workers -> {"idle", "look", "create", "open", "small", "write",
                               "measure", "recheck", "rename"}]
    BY <1>2, OwnFacts
  <1>4. /\ n # 0 /\ fp[w] = n
        /\ \/ Before(v, i) /\ (uploads[v].kind \in Positioned => (fresh[w] <=> i = 1))
           \/ LeftOver(v) /\ i = 1 /\ ~fresh[w]
        /\ uploads[v].kind = "append" => now_length[w] = Len(data[n])
    BY <1>1, <1>3 DEF Stage
  <1>5. /\ e \in Nat /\ s \in Nat /\ Offset(v, i) \in Nat /\ Extent(v, i) \in Nat
        /\ Offset(v, i) + Extent(v, i) = e /\ (e = s <=> i = Count(v)) /\ (i = 1 => Offset(v, i) = 0)
    BY <1>3, EndsAtSize
  <1>6. Before(v, i) => Len(data[n]) = Offset(v, i) /\ \A k \in 1..Offset(v, i) : data[n][k] = <<v, k>>
    <2> HAVE Before(v, i)
    <2>1. data[n] = First(v, Offset(v, i))
      BY DEF Before
    <2> QED
      BY <1>5, <2>1, FirstOnes
  <1>7. LeftOver(v) => /\ Kind(w) \notin Appending /\ Count(v) = 1 /\ Len(data[n]) = s
    BY <1>3 DEF LeftOver, Appending
  <1>8. Written(w) = First(v, e)
    <2>1. CASE Before(v, i)
      <3>1. Len(data[n]) = Offset(v, i) /\ \A k \in 1..Offset(v, i) : data[n][k] = <<v, k>>
        BY <1>6, <2>1
      <3>2. Written(w) = At(data[n], Offset(v, i), Units(v, i))
        BY <1>3, <1>4, <3>1 DEF Written
      <3>3. Len(data[n]) \in Nat /\ Offset(v, i) <= Len(data[n]) /\ Len(data[n]) <= e
        BY <1>5, <3>1
      <3> QED
        BY <1>3, <3>1, <3>2, <3>3, Placed
    <2>2. CASE LeftOver(v) /\ i = 1
      <3>1. Len(data[n]) = s /\ e = s /\ Offset(v, i) = 0 /\ Kind(w) \notin Appending
        BY <1>5, <1>7, <2>2
      <3>2. Written(w) = At(data[n], Offset(v, i), Units(v, i))
        BY <1>3, <1>4, <3>1 DEF Written
      <3>3. Len(data[n]) \in Nat /\ Offset(v, i) <= Len(data[n]) /\ Len(data[n]) <= e
            /\ \A k \in 1..Offset(v, i) : data[n][k] = <<v, k>>
        BY <1>5, <3>1
      <3> QED
        BY <1>3, <3>2, <3>3, Placed
    <2> QED
      BY <1>4, <2>1, <2>2
  <1>9. Now(v)' = n /\ data'[n] = First(v, e)
    <2>1. fp[w] \in 1..Len(data) /\ DOMAIN data = 1..Len(data)
      BY <1>1, LenProperties DEF FilesInv
    <2>2. data'[n] = Written(w)
      BY <1>1, <1>4, <2>1
    <2> QED
      BY <1>1, <1>8, <2>2 DEF Now
  <1>10. UpTo(v, i)' /\ UpTo(v, taken[v])'
    BY <1>1, <1>4, <1>9 DEF UpTo, First
  <1>11. Kind(w) \in Positioned /\ fresh[w] => i = 1
    BY <1>3, <1>4
  <1>12. Kind(w) \in {"last", "length"} /\ i = 1 /\ Count(v) = 1 => LeftOver(v)'
    <2> HAVE Kind(w) \in {"last", "length"} /\ i = 1 /\ Count(v) = 1
    <2>1. Len(data'[n]) = s
      <3>1. e = s /\ e \in Nat
        BY <1>5
      <3>2. Len(First(v, e)) = e
        BY <3>1, FirstOnes
      <3> QED
        BY <1>9, <3>1, <3>2
    <2>2. Count(v)' = 1 /\ Size(v)' = s /\ uploads'[v].kind \in {"last", "length"}
      BY <1>1, <1>3 DEF Count, Size
    <2> QED
      BY <1>4, <1>9, <2>1, <2>2 DEF LeftOver
  <1>13. Kind(w) = "append" => (now_length[w] + Length(w) = Size(Upload(w)) <=> i = Count(v))
    <2> HAVE Kind(w) = "append"
    <2>1. Before(v, i)
      BY <1>4, <1>7 DEF Appending
    <2>2. now_length[w] = Offset(v, i) /\ Length(w) = Extent(v, i)
      BY <1>3, <1>4, <1>6, <2>1
    <2> QED
      BY <1>5, <2>2
  <1>14. pc'[w] = AfterWrite(w)
    BY <1>1, <1>3
  <1>15. ASSUME pc'[w] = "idle", i < Count(v) PROVE Pauses(w, v)
    BY <1>1, <1>10, <1>15 DEF Pauses, Busy
  <1>16. ASSUME pc'[w] = "idle", i = Count(v), LeftOver(v)' PROVE Pauses(w, v)
    BY <1>1, <1>3, <1>16 DEF Pauses, Busy
  <1>17. ASSUME pc'[w] \in {"rename", "recheck"}, i = Count(v) PROVE Goes(w, v)
    <2>1. Stage(w, v, taken[v])'
      BY <1>1, <1>10, <1>17 DEF Stage, Count
    <2> QED
      BY <1>1, <1>17, <2>1 DEF Goes, Busy
  <1>18. ASSUME pc'[w] = "measure", Kind(w) = "length" PROVE Goes(w, v)
    <2>1. Stage(w, v, taken[v])'
      BY <1>1, <1>3, <1>10, <1>18 DEF Stage
    <2> QED
      BY <1>1, <1>18, <2>1 DEF Goes, Busy
  <1>19. i < Count(v) \/ i = Count(v)
    BY <1>3
  <1>20. CASE Kind(w) = "append"
    <2>1. pc'[w] = IF i = Count(v) THEN "rename" ELSE "idle"
      BY <1>13, <1>14, <1>20 DEF AfterWrite
    <2> QED
      BY <1>15, <1>17, <1>19, <2>1
  <1>21. CASE Kind(w) = "flag"
    <2>1. pc'[w] = IF i = Count(v) THEN "recheck" ELSE "idle"
      BY <1>3, <1>14, <1>21 DEF AfterWrite
    <2> QED
      BY <1>15, <1>17, <1>19, <2>1
  <1>22. CASE Kind(w) = "range"
    <2>1. pc'[w] = IF i = Count(v) THEN "rename" ELSE "idle"
      BY <1>3, <1>14, <1>22 DEF AfterWrite
    <2> QED
      BY <1>15, <1>17, <1>19, <2>1
  <1>23. CASE Kind(w) = "last"
    <2>1. pc'[w] = IF i = Count(v) /\ ~fresh[w] THEN "rename" ELSE "idle"
      BY <1>3, <1>14, <1>23 DEF AfterWrite
    <2>2. fresh[w] => i = 1
      BY <1>11, <1>23 DEF Positioned
    <2> QED
      BY <1>12, <1>15, <1>16, <1>17, <1>19, <1>23, <2>1, <2>2
  <1>24. CASE Kind(w) = "length"
    <2>1. pc'[w] = IF fresh[w] THEN "idle" ELSE "measure"
      BY <1>3, <1>14, <1>24 DEF AfterWrite
    <2>2. fresh[w] => i = 1
      BY <1>11, <1>24 DEF Positioned
    <2> QED
      BY <1>12, <1>15, <1>16, <1>18, <1>19, <1>24, <2>1, <2>2
  <1> QED
    BY <1>3, <1>20, <1>21, <1>22, <1>23, <1>24 DEF Appending, Positioned

\* Taking the length of the file.
LEMMA MeasureOwn ==
  ASSUME PlacesInv, FilesInv, TakenInv, NEW w \in Workers, Measure(w), NEW v, v = Upload(w), InTurn(v)
  PROVE  Goes(w, v) \/ Pauses(w, v)
  <1> PICK i : i = taken[v]
    OBVIOUS
  <1>1. /\ pc[w] = "measure" /\ UNCHANGED <<uploads, part, fp, name, data, announced, taken>>
        /\ pc' = [pc EXCEPT ![w] = IF Exists(w) /\ Len(data[name[File(w)]]) = Size(Upload(w))
                                   THEN "rename" ELSE "idle"]
    BY DEF Measure, Goto, fileVars
  <1>2. Busy(w)
    BY <1>1 DEF Busy
  <1>3. /\ v \in Ids /\ i \in 1..Count(v) /\ Count(v) \in Nat \ {0} /\ Stage(w, v, i)
        /\ Now(v) = name[File(w)] /\ (Exists(w) <=> Now(v) # 0)
        /\ pc \in [Workers -> {"idle", "look", "create", "open", "small", "write",
                               "measure", "recheck", "rename"}]
    BY <1>2, OwnFacts
  <1>4. UpTo(v, i)
    BY <1>1, <1>3 DEF Stage
  <1>5. Len(data[Now(v)]) = Size(v) <=> i = Count(v)
    <2>1. uploads[v].ends[i] \in Nat /\ (uploads[v].ends[i] = Size(v) <=> i = Count(v))
      BY <1>3, EndsAtSize
    <2>2. Len(First(v, uploads[v].ends[i])) = uploads[v].ends[i]
      BY <2>1, FirstOnes
    <2> QED
      BY <1>4, <2>1, <2>2 DEF UpTo
  <1>6. Exists(w)
    BY <1>3, <1>4 DEF UpTo
  <1>7. pc'[w] = IF i = Count(v) THEN "rename" ELSE "idle"
    BY <1>1, <1>3, <1>5, <1>6
  <1>8. UpTo(v, i)' /\ UpTo(v, taken[v])' /\ Count(v)' = Count(v)
    <2>1. \A j : UpTo(v, j)' <=> UpTo(v, j)
      BY <1>1, FilesStay
    <2>2. UpTo(v, taken[v])' <=> UpTo(v, taken[v])
      BY <1>1 DEF UpTo, Now, First
    <2> QED
      BY <1>1, <1>4, <2>1, <2>2, FilesStay
  <1>9. CASE i = Count(v)
    <2>1. Stage(w, v, taken[v])'
      BY <1>1, <1>7, <1>8, <1>9 DEF Stage
    <2> QED
      BY <1>1, <1>7, <1>9, <2>1 DEF Goes, Busy
  <1>10. CASE i # Count(v)
    <2>1. i < Count(v)
      BY <1>3, <1>10
    <2> QED
      BY <1>1, <1>7, <1>8, <1>10, <2>1 DEF Pauses, Busy
  <1> QED
    BY <1>9, <1>10

\* Asking once more whether the file is there.
LEMMA RecheckOwn ==
  ASSUME PlacesInv, FilesInv, TakenInv, NEW w \in Workers, Recheck(w), NEW v, v = Upload(w), InTurn(v)
  PROVE  Goes(w, v)
  <1> PICK i : i = taken[v]
    OBVIOUS
  <1>1. /\ pc[w] = "recheck" /\ UNCHANGED <<uploads, part, fp, name, data, announced, taken>>
        /\ pc' = [pc EXCEPT ![w] = IF Exists(w) THEN "rename" ELSE "idle"]
    BY DEF Recheck, Goto, fileVars
  <1>2. Busy(w)
    BY <1>1 DEF Busy
  <1>3. /\ Stage(w, v, i) /\ (Exists(w) <=> Now(v) # 0)
        /\ pc \in [Workers -> {"idle", "look", "create", "open", "small", "write",
                               "measure", "recheck", "rename"}]
    BY <1>2, OwnFacts
  <1>4. UpTo(v, i) /\ i = Count(v)
    BY <1>1, <1>3 DEF Stage
  <1>5. pc'[w] = "rename"
    BY <1>1, <1>3, <1>4 DEF UpTo
  <1>6. UpTo(v, taken[v])' /\ Count(v)' = Count(v)
    <2>1. UpTo(v, taken[v])' <=> UpTo(v, taken[v])
      BY <1>1 DEF UpTo, Now, First
    <2> QED
      BY <1>1, <1>4, <2>1, FilesStay
  <1>7. Stage(w, v, taken[v])'
    BY <1>1, <1>4, <1>5, <1>6 DEF Stage
  <1> QED
    BY <1>1, <1>5, <1>7 DEF Goes, Busy

\* Renaming the file.
LEMMA RenameOwn ==
  ASSUME PlacesInv, FilesInv, TakenInv, ApartInv,
         NEW w \in Workers, Rename(w), NEW v, v = Upload(w), InTurn(v)
  PROVE  Announces(w, v)
  <1> PICK i, n, f : i = taken[v] /\ n = Now(v) /\ f = File(w)
    OBVIOUS
  <1>1. /\ pc[w] = "rename" /\ UNCHANGED <<uploads, part, fp, data, taken>>
        /\ announced' = Append(announced, [upload |-> v, file |-> name[f]])
        /\ name' = [name EXCEPT ![f] = 0]
        /\ pc' = [pc EXCEPT ![w] = "idle"]
    BY DEF Rename, Goto
  <1>2. Busy(w)
    BY <1>1 DEF Busy
  <1>3. /\ v \in Ids /\ i \in 1..Count(v) /\ Stage(w, v, i) /\ n \in Nat
        /\ n = name[f] /\ f \in Names /\ f = uploads[v].file /\ name \in [Names -> Nat]
        /\ pc \in [Workers -> {"idle", "look", "create", "open", "small", "write",
                               "measure", "recheck", "rename"}]
    BY <1>2, OwnFacts DEF FilesInv
  <1>4. UpTo(v, i) /\ i = Count(v)
    BY <1>1, <1>3 DEF Stage
  <1>5. n # 0 /\ data'[n] = Whole(v)
    <2>1. uploads[v].ends[i] = Size(v) /\ Whole(v) = First(v, Size(v))
      BY <1>3, <1>4, EndsAtSize
    <2> QED
      BY <1>1, <1>4, <2>1 DEF UpTo
  <1>6. \A g \in Names : name'[g] # n
    BY <1>1, <1>3, <1>5 DEF ApartInv
  <1>7. ASSUME NEW x \in Workers, pc'[x] = "write" PROVE fp'[x] # n
    <2>1. x # w /\ pc[x] = "write" /\ fp'[x] = fp[x]
      BY <1>1, <1>3, <1>7
    <2>2. File(x) # f
      <3>1. ASSUME File(x) = f PROVE FALSE
        <4>1. By(x, v)
          BY <1>3, <2>1, <3>1 DEF By, Busy
        <4>2. On(w, v)
          BY <1>2 DEF On
        <4> QED
          BY <2>1, <4>1, <4>2 DEF InTurn
      <3> QED
        BY <3>1
    <2> QED
      BY <1>3, <2>1, <2>2 DEF ApartInv
  <1>8. ~Busy(w)' /\ Now(v)' = 0 /\ taken[v] = Count(v)
    BY <1>1, <1>3, <1>4 DEF Busy, Now
  <1> QED
    BY <1>1, <1>3, <1>5, <1>6, <1>7, <1>8 DEF Announces

\* QQattach's file for a last part alone.
LEMMA SmallOwn ==
  ASSUME PlacesInv, FilesInv, TakenInv, NEW w \in Workers, Small(w), NEW v, v = Upload(w), InTurn(v)
  PROVE  Announces(w, v)
  <1> PICK i, n, t : i = taken[v] /\ n = Len(data) + 1 /\ t = Units(v, Number(w))
    OBVIOUS
  <1>1. /\ pc[w] = "small" /\ UNCHANGED <<uploads, part, fp, name, taken>>
        /\ data' = Append(data, t)
        /\ announced' = Append(announced, [upload |-> v, file |-> Len(data')])
        /\ pc' = [pc EXCEPT ![w] = "idle"]
    BY DEF Small, Goto
  <1>2. Busy(w)
    BY <1>1 DEF Busy
  <1>3. /\ v \in Ids /\ i \in 1..Count(v) /\ i = Number(w) /\ Stage(w, v, i)
        /\ pc \in [Workers -> {"idle", "look", "create", "open", "small", "write",
                               "measure", "recheck", "rename"}]
    BY <1>2, OwnFacts
  <1>4. i = 1 /\ Now(v) = 0 /\ Count(v) = 1
    BY <1>1, <1>3 DEF Stage
  <1>5. t = Whole(v)
    <2>1. /\ Offset(v, i) = 0 /\ Extent(v, i) \in Nat /\ Offset(v, i) + Extent(v, i) = Size(v)
          /\ Size(v) \in Nat
      BY <1>3, <1>4, EndsAtSize
    <2>2. Extent(v, i) = Size(v)
      BY <2>1
    <2>3. \A k \in 1..Size(v) : Offset(v, i) + k = k
      BY <2>1
    <2> QED
      BY <1>3, <2>2, <2>3 DEF Units, Whole
  <1>6. Len(data') = n /\ data'[n] = t /\ n \in Nat \ {0} /\ Len(data) \in Nat /\ n = Len(data) + 1
    <2>1. t \in Seq(Unit)
      BY <1>2, WrittenTyped, EmptySeq
    <2> QED
      BY <1>1, <2>1, FileLists
  <1>7. \A g \in Names : name'[g] # n
    <2>1. \A g \in Names : name[g] \in Nat /\ name[g] <= Len(data)
      BY DEF FilesInv
    <2> QED
      BY <1>1, <1>6, <2>1
  <1>8. \A x \in Workers : pc'[x] = "write" => fp'[x] # n
    <2>1. \A x \in Workers : pc[x] = "write" => fp[x] \in 1..Len(data)
      BY DEF FilesInv
    <2>2. \A x \in Workers : pc'[x] = "write" => pc[x] = "write"
      BY <1>1, <1>3
    <2> QED
      BY <1>1, <1>6, <2>1, <2>2
  <1>9. ~Busy(w)' /\ Now(v)' = 0 /\ taken[v] = Count(v)
    BY <1>1, <1>3, <1>4 DEF Busy, Now
  <1> QED
    <2>1. n \in Nat \ {0} /\ announced' = Append(announced, [upload |-> v, file |-> n]) /\ data'[n] = Whole(v)
      BY <1>1, <1>5, <1>6
    <2> QED
      BY <1>7, <1>8, <1>9, <2>1, ZenonT(60) DEF Announces

(***************************************************************************)
(* Taking a part                                                           *)
(***************************************************************************)

\* What taking part i of v leaves alone.
LEMMA TakeLeaves ==
  ASSUME PlacesInv, FilesInv, TakenInv, NEW w \in Workers, Take(w),
         NEW v, NEW i, v = Head(ring)[1], i = Head(ring)[2]
  PROVE  /\ v \in Ids /\ i \in 1..Count(v) /\ taken'[v] = taken[v] + 1
         /\ \A u \in Ids \ {v} : taken'[u] = taken[u]
         /\ ~Busy(w) /\ pc'[w] = "look" /\ Upload(w)' = v /\ Number(w)' = i
         /\ File(w)' = uploads[v].file
         /\ \A x \in Workers \ {w} : pc'[x] = pc[x] /\ part'[x] = part[x]
         /\ UNCHANGED <<uploads, fp, fresh, now_length, name, data, announced>>
         /\ disturbed' = disturbed \cup Disturbed(v, i)
  <1>1. /\ v \in Ids /\ i \in 1..Count(v)
        /\ part' = [part EXCEPT ![w] = <<v, i>>] /\ taken' = [taken EXCEPT ![v] = @ + 1]
        /\ disturbed' = disturbed \cup Disturbed(v, i)
    BY Taking
  <1>2. /\ ~Busy(w) /\ pc' = [pc EXCEPT ![w] = "look"]
        /\ UNCHANGED <<uploads, fp, fresh, now_length, name, data, announced>>
    BY DEF Take, fileVars
  <1>3. /\ taken \in [Ids -> Nat] /\ part \in [Workers -> (Ids \X Nat) \cup {<<0, 0>>}]
        /\ pc \in [Workers -> {"idle", "look", "create", "open", "small", "write",
                               "measure", "recheck", "rename"}]
    BY DEF TakenInv, PlacesInv
  <1>4. /\ taken'[v] = taken[v] + 1 /\ \A u \in Ids \ {v} : taken'[u] = taken[u]
    BY <1>1, <1>3
  <1>5. part'[w] = <<v, i>> /\ pc'[w] = "look"
        /\ \A x \in Workers \ {w} : pc'[x] = pc[x] /\ part'[x] = part[x]
    BY <1>1, <1>2, <1>3
  <1>6. Upload(w)' = v /\ Number(w)' = i /\ File(w)' = uploads[v].file
    BY <1>2, <1>5 DEF Upload, Number, File
  <1> QED
    BY <1>1, <1>2, <1>4, <1>5, <1>6

\* Who is at the file of u, then.
LEMMA TakeMeets ==
  ASSUME PlacesInv, FilesInv, TakenInv, NEW w \in Workers, Take(w),
         NEW v, NEW i, v = Head(ring)[1], i = Head(ring)[2], NEW u \in Ids
  PROVE  /\ \A x \in Workers \ {w} : (On(x, u)' <=> On(x, u)) /\ (By(x, u)' <=> By(x, u))
         /\ ~On(w, u) /\ ~By(w, u)
         /\ (On(w, u)' <=> u = v) /\ (By(w, u)' <=> uploads[v].file = uploads[u].file)
         /\ About(u)' = About(u) /\ Count(u)' = Count(u) /\ SameFile(u)' = SameFile(u)
         /\ \A x \in Workers : Busy(x) => (By(x, u) <=> Upload(x) \in SameFile(u))
  <1>1. /\ ~Busy(w) /\ pc'[w] = "look" /\ Upload(w)' = v /\ File(w)' = uploads[v].file
        /\ \A x \in Workers \ {w} : pc'[x] = pc[x] /\ part'[x] = part[x]
        /\ UNCHANGED <<uploads, announced>>
    BY TakeLeaves
  <1>2. \A x \in Workers \ {w} : (On(x, u)' <=> On(x, u)) /\ (By(x, u)' <=> By(x, u))
    BY <1>1 DEF On, By, Busy, Upload, File
  <1>3. ~On(w, u) /\ ~By(w, u)
    BY <1>1 DEF On, By
  <1>4. (On(w, u)' <=> u = v) /\ (By(w, u)' <=> uploads[v].file = uploads[u].file)
    BY <1>1 DEF On, By, Busy
  <1>5. About(u)' = About(u) /\ Count(u)' = Count(u) /\ SameFile(u)' = SameFile(u)
    BY <1>1 DEF About, Count, SameFile, Ids
  <1>6. \A x \in Workers : Busy(x) => (By(x, u) <=> Upload(x) \in SameFile(u))
    BY Held DEF By, File, SameFile
  <1> QED
    BY <1>2, <1>3, <1>4, <1>5, <1>6

\* Taking the part that comes next, when nobody is at the file, begins it in turn.
LEMMA TakeOwn ==
  ASSUME WholeInv, NEW w \in Workers, Take(w),
         NEW v, NEW i, v = Head(ring)[1], i = Head(ring)[2], OneCut(v), v \notin disturbed'
  PROVE  InTurn(v)'
  <1> PICK t : t = taken[v]
    OBVIOUS
  <1>1. PlacesInv /\ FilesInv /\ TakenInv
    BY DEF WholeInv
  <1>2. /\ v \in Ids /\ i \in 1..Count(v) /\ taken'[v] = t + 1 /\ pc'[w] = "look"
        /\ Upload(w)' = v /\ Number(w)' = i
        /\ UNCHANGED <<uploads, name, data>> /\ disturbed' = disturbed \cup Disturbed(v, i)
    BY <1>1, TakeLeaves
  <1>3. /\ \A x \in Workers \ {w} : (On(x, v)' <=> On(x, v)) /\ (By(x, v)' <=> By(x, v))
        /\ ~On(w, v) /\ ~By(w, v) /\ On(w, v)'
        /\ About(v)' = About(v) /\ Count(v)' = Count(v)
        /\ \A x \in Workers : Busy(x) => (By(x, v) <=> Upload(x) \in SameFile(v))
    BY <1>1, <1>2, TakeMeets
  <1>4. v \in SameFile(v) /\ v \notin disturbed /\ v \notin Disturbed(v, i)
    BY <1>2 DEF SameFile
  <1>5. /\ {Upload(x) : x \in {y \in Workers : Busy(y)}} \cap SameFile(v) = {}
        /\ {u \in SameFile(v) \ {v} : taken[u] \in 1..(Count(u) - 1)} = {}
        /\ (SameFile(v) \ {v}) \cap disturbed = {}
        /\ i = t + 1
    BY <1>4 DEF Disturbed
  <1>6. \A x \in Workers : ~By(x, v)
    BY <1>3, <1>5 DEF By
  <1>7. \A x \in Workers : ~On(x, v)
    BY <1>6 DEF On, By, File
  <1>8. InTurn(v) /\ (AtRest(v) => Now(v) = 0 \/ LeftOver(v))
    BY <1>2, <1>4 DEF WholeInv
  <1>9. t \in Nat /\ Count(v) \in Nat /\ t < Count(v)
    <2>1. t \in Nat /\ Count(v) \in Nat
      BY <1>1, <1>2, PartsInOrder DEF TakenInv
    <2> QED
      BY <1>2, <1>5, <2>1
  <1>10. i = 1 => Now(v) = 0 \/ LeftOver(v)
    <2> SUFFICES ASSUME i = 1 PROVE AtRest(v)
      BY <1>8
    <2>1. ASSUME NEW u \in SameFile(v) PROVE u \notin disturbed /\ taken[u] \in {0, Count(u)}
      <3>1. CASE u = v
        BY <1>4, <1>5, <1>9, <3>1
      <3>2. CASE u # v
        <4>1. u \in Ids /\ OneCut(u) /\ u \notin disturbed /\ taken[u] \notin 1..(Count(u) - 1)
          BY <1>2, <1>5, <3>2, OneCutShared
        <4>2. InTurn(u) /\ taken[u] \in Nat /\ Count(u) \in Nat
          BY <1>1, <4>1, PartsInOrder DEF WholeInv, TakenInv
        <4>3. taken[u] <= Count(u)
          BY <4>2 DEF InTurn
        <4> QED
          BY <4>1, <4>2, <4>3
      <3> QED
        BY <3>1, <3>2
    <2> QED
      BY <1>6, <2>1 DEF AtRest
  <1>11. i # 1 => Before(v, i)
    <2> HAVE i # 1
    <2>1. t \in 1..(Count(v) - 1)
      BY <1>2, <1>5, <1>9
    <2>2. UpTo(v, t)
      BY <1>7, <1>8, <2>1 DEF InTurn
    <2>3. Offset(v, i) = uploads[v].ends[t]
      BY <1>5, <1>9 DEF Offset
    <2> QED
      BY <2>2, <2>3 DEF UpTo, Before
  <1>12. Stage(w, v, i)'
    <2>1. /\ Now(v)' = Now(v) /\ (Before(v, i)' <=> Before(v, i)) /\ (LeftOver(v)' <=> LeftOver(v))
      BY <1>2, FilesStay
    <2> QED
      BY <1>2, <1>10, <1>11, <2>1 DEF Stage
  <1>13. About(v)' = {}
    BY <1>3, <1>8, <1>9 DEF InTurn
  <1>14. /\ \A x \in Workers : By(x, v)' => x = w
         /\ \A x \in Workers : On(x, v)' => x = w
    BY <1>3, <1>6, <1>7
  <1>15. taken'[v] = i /\ Number(w)' = taken'[v] /\ taken'[v] <= Count(v)'
    BY <1>2, <1>3, <1>5, <1>9
  <1>16. Stage(w, v, taken[v])'
    BY <1>12, <1>15
  <1> QED
    BY <1>2, <1>3, <1>13, <1>14, <1>15, <1>16 DEF InTurn

\* Taking a part of another upload leaves one undisturbed in turn.
LEMMA TakeOthers ==
  ASSUME WholeInv, NEW w \in Workers, Take(w),
         NEW v, NEW i, v = Head(ring)[1], i = Head(ring)[2],
         NEW u \in Ids \ {v}, u \notin disturbed', InTurn(u)
  PROVE  InTurn(u)'
  <1>1. PlacesInv /\ FilesInv /\ TakenInv
    BY DEF WholeInv
  <1>2. /\ v \in Ids /\ taken'[u] = taken[u] /\ UNCHANGED <<uploads, fp, fresh, now_length, name, data>>
        /\ \A x \in Workers \ {w} : pc'[x] = pc[x] /\ part'[x] = part[x]
        /\ disturbed' = disturbed \cup Disturbed(v, i)
    BY <1>1, TakeLeaves
  <1>3. /\ \A x \in Workers \ {w} : (On(x, u)' <=> On(x, u)) /\ (By(x, u)' <=> By(x, u))
        /\ ~On(w, u) /\ ~By(w, u)
        /\ ~On(w, u)' /\ (By(w, u)' <=> uploads[v].file = uploads[u].file)
        /\ About(u)' = About(u) /\ Count(u)' = Count(u)
    BY <1>1, TakeMeets
  <1>4. \A x \in Workers : On(x, u)' <=> On(x, u)
    BY <1>3
  <1>5. CASE uploads[v].file = uploads[u].file
    <2>1. u \in SameFile(v) /\ u \notin Disturbed(v, i)
      BY <1>2, <1>5 DEF SameFile
    <2>2. /\ u \notin {Upload(x) : x \in {y \in Workers : Busy(y)}}
          /\ taken[u] \notin 1..(Count(u) - 1)
      BY <2>1 DEF Disturbed
    <2>3. \A x \in Workers : ~On(x, u)
      BY <2>2 DEF On
    <2> QED
      BY <1>2, <1>3, <1>4, <2>2, <2>3 DEF InTurn
  <1>6. CASE uploads[v].file # uploads[u].file
    <2>1. \A x \in Workers : (By(x, u)' => By(x, u) /\ x # w) /\ (On(x, u)' => x # w)
      BY <1>3, <1>6
    <2>2. \A j : /\ Now(u)' = Now(u) /\ (Before(u, j)' <=> Before(u, j))
                 /\ (UpTo(u, j)' <=> UpTo(u, j)) /\ (LeftOver(u)' <=> LeftOver(u))
      BY <1>2, FilesStay
    <2>3. ASSUME NEW x \in Workers, On(x, u)'
          PROVE  /\ Number(x)' = taken'[u] /\ Stage(x, u, taken[u])'
                 /\ \A y \in Workers : By(y, u)' => y = x
      <3>1. x # w /\ On(x, u)
        BY <1>4, <2>1, <2>3
      <3>2. pc'[x] = pc[x] /\ part'[x] = part[x]
        BY <1>2, <3>1
      <3>3. Number(x) = taken[u] /\ Stage(x, u, taken[u]) /\ \A y \in Workers : By(y, u) => y = x
        BY <3>1 DEF InTurn
      <3> PICK j : j = taken[u]
        OBVIOUS
      <3>4. Stage(x, u, j)'
        BY <1>2, <1>3, <2>2, <3>2, <3>3 DEF Stage
      <3>5. Stage(x, u, taken[u])'
        BY <1>2, <3>4
      <3> QED
        BY <1>2, <2>1, <3>2, <3>3, <3>5 DEF Number
    <2>4. ASSUME taken'[u] \in 1..(Count(u)' - 1)
          PROVE  /\ \A x \in Workers : By(x, u)' => Upload(x)' = u
                 /\ (\A x \in Workers : ~On(x, u)') => UpTo(u, taken[u])'
      <3>1. /\ \A x \in Workers : By(x, u) => Upload(x) = u
            /\ (\A x \in Workers : ~On(x, u)) => UpTo(u, taken[u])
        BY <1>2, <1>3, <2>4 DEF InTurn
      <3>2. \A x \in Workers \ {w} : Upload(x)' = Upload(x)
        BY <1>2 DEF Upload
      <3>3. UpTo(u, taken[u])' <=> UpTo(u, taken[u])
        BY <1>2 DEF UpTo, Now, First
      <3> QED
        BY <1>4, <2>1, <3>1, <3>2, <3>3
    <2>5. taken'[u] < Count(u)' \/ (\E x \in Workers : On(x, u)') => About(u)' = {}
      BY <1>2, <1>3, <1>4 DEF InTurn
    <2>6. taken'[u] <= Count(u)'
      BY <1>2, <1>3 DEF InTurn
    <2> QED
      BY <2>3, <2>4, <2>5, <2>6 DEF InTurn
  <1> QED
    BY <1>5, <1>6

\* A name nobody takes a part for stays at rest.
LEMMA TakeAtRest ==
  ASSUME WholeInv, NEW w \in Workers, Take(w), NEW u \in Ids, OneCut(u), AtRest(u)'
  PROVE  Now(u)' = 0 \/ LeftOver(u)'
  <1> PICK v, i : v = Head(ring)[1] /\ i = Head(ring)[2]
    OBVIOUS
  <1>1. PlacesInv /\ FilesInv /\ TakenInv
    BY DEF WholeInv
  <1>2. /\ v \in Ids /\ \A x \in Ids \ {v} : taken'[x] = taken[x]
        /\ UNCHANGED <<uploads, name, data>> /\ disturbed \subseteq disturbed'
    BY <1>1, TakeLeaves
  <1>3. /\ \A x \in Workers \ {w} : By(x, u)' <=> By(x, u)
        /\ ~By(w, u) /\ (By(w, u)' <=> uploads[v].file = uploads[u].file)
        /\ SameFile(u)' = SameFile(u)
    BY <1>1, TakeMeets
  <1>4. uploads[v].file # uploads[u].file
    BY <1>3 DEF AtRest
  <1>5. \A x \in SameFile(u) : x \in Ids \ {v}
    BY <1>4 DEF SameFile
  <1>6. \A x : Count(x)' = Count(x)
    BY <1>2 DEF Count
  <1>7. AtRest(u)
    <2>1. \A x \in SameFile(u) : x \notin disturbed /\ taken[x] \in {0, Count(x)}
      BY <1>2, <1>3, <1>5, <1>6 DEF AtRest
    <2>2. \A x \in Workers : ~By(x, u)
      BY <1>3 DEF AtRest
    <2> QED
      BY <2>1, <2>2 DEF AtRest
  <1>8. Now(u) = 0 \/ LeftOver(u)
    BY <1>7 DEF WholeInv
  <1>9. Now(u)' = Now(u) /\ (LeftOver(u)' <=> LeftOver(u))
    BY <1>2, FilesStay
  <1> QED
    BY <1>8, <1>9

(***************************************************************************)
(* The invariant                                                           *)
(***************************************************************************)

\* The last conjunct of WholeInv, for one upload.
WholeOK(u) ==
    /\ AtRest(u) => Now(u) = 0 \/ LeftOver(u)
    /\ u \notin disturbed => InTurn(u) /\ Finished(u)

\* Taking a part touches no file.
LEMMA TakeWhole ==
  ASSUME WholeInv, NEW w \in Workers, Take(w), NEW u \in Ids, OneCut(u)
  PROVE  WholeOK(u)'
  <1> PICK v, i : v = Head(ring)[1] /\ i = Head(ring)[2]
    OBVIOUS
  <1>1. PlacesInv /\ FilesInv /\ TakenInv /\ WholeOK(u)
    BY DEF WholeInv, WholeOK
  <1>2. /\ UNCHANGED <<uploads, fp, name, data, announced>> /\ disturbed \subseteq disturbed'
        /\ pc'[w] = "look" /\ \A x \in Workers \ {w} : pc'[x] = pc[x]
    BY <1>1, TakeLeaves
  <1>3. AtRest(u)' => Now(u)' = 0 \/ LeftOver(u)'
    BY TakeAtRest
  <1>4. ASSUME u \notin disturbed' PROVE InTurn(u)'
    <2>1. InTurn(u)
      BY <1>1, <1>2, <1>4 DEF WholeOK
    <2>2. CASE u = v
      BY <1>4, <2>2, TakeOwn
    <2>3. CASE u # v
      BY <1>4, <2>1, <2>3, TakeOthers
    <2> QED
      BY <2>2, <2>3
  <1>5. ASSUME u \notin disturbed' PROVE Finished(u)'
    <2>1. Finished(u)
      BY <1>1, <1>2, <1>5 DEF WholeOK
    <2>2. About(u)' = About(u) /\ Whole(u)' = Whole(u) /\ Names' = Names
          /\ \A k : Contents(k)' = Contents(k)
      BY <1>2 DEF About, Whole, Size, Count, Names, Ids, Contents
    <2>3. \A x \in Workers : pc'[x] = "write" => pc[x] = "write"
      BY <1>2
    <2> QED
      BY <1>2, <2>1, <2>2, <2>3 DEF Finished
  <1> QED
    BY <1>3, <1>4, <1>5 DEF WholeOK

\* Sending touches neither files nor workers.
LEMMA PostWhole ==
  ASSUME WholeInv, NEW u \in Ids, OneCut(u), disturbed \subseteq disturbed',
         UNCHANGED <<uploads, pc, part, fp, fresh, now_length, name, data, announced, taken>>
  PROVE  WholeOK(u)'
  <1>1. WholeOK(u)
    BY DEF WholeInv, WholeOK
  <1>2. /\ SameFile(u)' = SameFile(u) /\ Names' = Names /\ About(u)' = About(u)
        /\ \A x : /\ Count(x)' = Count(x) /\ Size(x)' = Size(x) /\ Whole(x)' = Whole(x)
                  /\ Contents(x)' = Contents(x)
    BY DEF SameFile, Ids, Names, About, Count, Size, Whole, Contents
  <1>3. \A x, y : (By(x, y)' <=> By(x, y)) /\ (On(x, y)' <=> On(x, y))
    BY DEF By, On, Busy, File, Upload
  <1>4. \A i : /\ Now(u)' = Now(u) /\ (Before(u, i)' <=> Before(u, i))
               /\ (UpTo(u, i)' <=> UpTo(u, i)) /\ (LeftOver(u)' <=> LeftOver(u))
    BY FilesStay
  <1>5. ASSUME AtRest(u)' PROVE AtRest(u)
    BY <1>2, <1>3, <1>5 DEF AtRest
  <1>6. ASSUME InTurn(u) PROVE InTurn(u)'
    <2> PICK t : t = taken[u]
      OBVIOUS
    <2>1. \A x \in Workers : Stage(x, u, t)' <=> Stage(x, u, t)
      BY <1>2, <1>4 DEF Stage
    <2>2. \A x \in Workers : Stage(x, u, taken[u])' <=> Stage(x, u, taken[u])
      <3>1. \A x \in Workers : Stage(x, u, taken[u])' <=> Stage(x, u, t)'
        OBVIOUS
      <3> QED
        BY <2>1, <3>1
    <2>3. UpTo(u, taken[u])' <=> UpTo(u, taken[u])
      BY DEF UpTo, Now, First
    <2>4. \A x : Number(x)' = Number(x) /\ Upload(x)' = Upload(x)
      BY DEF Number, Upload
    <2> QED
      BY <1>2, <1>3, <1>6, <2>2, <2>3, <2>4 DEF InTurn
  <1>7. ASSUME Finished(u) PROVE Finished(u)'
    BY <1>2, <1>7 DEF Finished
  <1> QED
    BY <1>1, <1>4, <1>5, <1>6, <1>7 DEF WholeOK

\* The steps of a worker on its own attachment.
LEMMA OwnStep ==
  ASSUME PlacesInv, FilesInv, TakenInv, ApartInv, NEW w \in Workers, Work(w), ~Take(w),
         NEW v, v = Upload(w), v \notin disturbed', InTurn(v)
  PROVE  Goes(w, v) \/ Pauses(w, v) \/ Announces(w, v)
  <1>1. ~GiveUp(w)
    BY DEF GiveUp
  <1>2. CASE Look(w) \/ Create(w) \/ Open(w)
    BY <1>2, LookOwn, CreateOwn, OpenOwn
  <1>3. CASE Write(w) \/ Measure(w) \/ Recheck(w)
    BY <1>3, WriteOwn, MeasureOwn, RecheckOwn
  <1>4. CASE Rename(w) \/ Small(w)
    BY <1>4, RenameOwn, SmallOwn
  <1> QED
    BY <1>1, <1>2, <1>3, <1>4 DEF Work

\* The steps of a worker on a part.
LEMMA WorkWhole ==
  ASSUME WholeInv, PlacesInv', FilesInv', NEW w \in Workers, Work(w), ~Take(w),
         NEW u \in Ids, OneCut(u)
  PROVE  WholeOK(u)'
  <1> PICK v : v = Upload(w)
    OBVIOUS
  <1>1. PlacesInv /\ FilesInv /\ TakenInv /\ ApartInv /\ WholeOK(u)
    BY DEF WholeInv, WholeOK
  <1>2. Local(w)
    BY <1>1, WorkLocal
  <1>3. v \in Ids /\ Busy(w) /\ disturbed \subseteq disturbed' /\ uploads' = uploads /\ taken' = taken
        /\ part' = part
    BY <1>1, <1>2, Held DEF Local
  <1>4. CASE uploads[u].file # File(w)
    <2>1. u # v
      BY <1>4 DEF File
    <2>2. AtRest(u)' => Now(u)' = 0 \/ LeftOver(u)'
      BY <1>1, <1>2, <1>4, OthersAtRest DEF WholeOK
    <2>3. u \notin disturbed' => InTurn(u)' /\ Finished(u)'
      BY <1>1, <1>2, <1>3, <1>4, <2>1, OthersInTurn, OthersFinished DEF WholeOK
    <2> QED
      BY <2>2, <2>3 DEF WholeOK
  <1>5. CASE uploads[u].file = File(w)
    <2>1. v \in SameFile(u)
      BY <1>3, <1>5 DEF SameFile, File
    <2>2. /\ OneCut(v) /\ uploads[v].file = uploads[u].file
          /\ uploads[v].kind \notin Appending =>
                uploads[u].kind = uploads[v].kind /\ uploads[u].ends = uploads[v].ends
      BY <2>1, OneCutShared
    <2>3. ASSUME v \notin disturbed'
          PROVE  /\ InTurn(v)' /\ Finished(v)'
                 /\ ~Busy(w)' /\ taken[v] \in {0, Count(v)} => Now(v)' = 0 \/ LeftOver(v)'
      <3>1. InTurn(v)
        BY <1>3, <2>2, <2>3 DEF WholeInv
      <3>2. Goes(w, v) \/ Pauses(w, v) \/ Announces(w, v)
        BY <1>1, <2>3, <3>1, OwnStep
      <3>3. taken \in [Ids -> Nat]
        BY <1>1 DEF TakenInv
      <3> QED
        BY <1>1, <1>2, <1>3, <3>1, <3>2, <3>3, OwnInTurn
    <2>4. u \notin disturbed' => InTurn(u)' /\ Finished(u)'
      <3>1. CASE u = v
        BY <2>3, <3>1
      <3>2. CASE u # v
        BY <1>1, <1>2, <1>3, <1>5, <3>2, SameNameInTurn, OthersFinished DEF WholeOK
      <3> QED
        BY <3>1, <3>2
    <2>5. ASSUME AtRest(u)' PROVE Now(u)' = 0 \/ LeftOver(u)'
      <3>1. v \in SameFile(u)' /\ Count(v)' = Count(v) /\ Size(v)' = Size(v)
            /\ Count(u)' = Count(u) /\ Size(u)' = Size(u)
        BY <1>3, <2>1 DEF SameFile, Ids, Count, Size
      <3>2. v \notin disturbed' /\ taken[v] \in {0, Count(v)}
        BY <1>3, <2>5, <3>1 DEF AtRest
      <3>3. ~Busy(w)'
        <4>1. ~By(w, u)'
          BY <2>5 DEF AtRest
        <4> QED
          BY <1>3, <1>5, <4>1 DEF By, File, Upload
      <3>4. Now(v)' = 0 \/ LeftOver(v)'
        BY <2>3, <3>2, <3>3
      <3>5. Now(u)' = Now(v)'
        BY <1>3, <2>2 DEF Now
      <3>6. ASSUME LeftOver(v)' PROVE LeftOver(u)'
        <4>1. /\ uploads'[v].kind \in {"last", "length"} /\ Count(v)' = 1
              /\ Now(v)' # 0 /\ Len(data'[Now(v)']) = Size(v)'
          BY <3>6 DEF LeftOver
        <4>2. uploads[u].kind = uploads[v].kind /\ uploads[u].ends = uploads[v].ends
          BY <1>3, <2>2, <4>1 DEF Appending
        <4>3. Count(u) = Count(v) /\ Size(u) = Size(v)
          BY <4>2 DEF Count, Size
        <4> QED
          BY <1>3, <3>1, <3>5, <4>1, <4>2, <4>3 DEF LeftOver
      <3> QED
        BY <3>4, <3>5, <3>6
    <2> QED
      BY <2>4, <2>5 DEF WholeOK
  <1> QED
    BY <1>4, <1>5

\* It begins with nothing taken, nobody at work and no file.
LEMMA WholeInit == Init => WholeInv
  <1> SUFFICES ASSUME Init PROVE WholeInv
    OBVIOUS
  <1>1. PlacesInv /\ FilesInv
    BY AssemblyInit DEF AssemblyInv
  <1>2. /\ \A x \in Workers : pc[x] = "idle" /\ ~Busy(x) /\ fp[x] = 0
        /\ DOMAIN announced = {} /\ (\A f \in Names : name[f] = 0) /\ Len(data) = 0
    BY DEF Init, Busy
  <1>3. TakenInv
    <2>1. \A u \in Ids : Cardinality(Gone(u)) \in Nat /\ taken[u] = 0
      BY <1>1, GoneFinite DEF Init
    <2> QED
      BY <1>2, <2>1 DEF Init, TakenInv
  <1>4. ApartInv
    BY <1>2 DEF ApartInv
  <1>5. ASSUME NEW u \in Ids PROVE WholeOK(u)
    <2>1. About(u) = {} /\ Now(u) = 0 /\ taken[u] = 0 /\ Count(u) \in Nat
      BY <1>1, <1>2, PartsInOrder DEF About, Now, Names, Init
    <2>2. \A x \in Workers : ~On(x, u)
      BY <1>2 DEF On
    <2> QED
      BY <2>1, <2>2 DEF WholeOK, InTurn, Finished
  <1> QED
    BY <1>1, <1>3, <1>4, <1>5 DEF WholeInv, WholeOK

\* Every step keeps the invariant.
LEMMA WholeNext == WholeInv /\ [Next]_vars => WholeInv'
  <1> SUFFICES ASSUME WholeInv, [Next]_vars PROVE WholeInv'
    OBVIOUS
  <1>1. PlacesInv' /\ FilesInv'
    BY PlacesNext, FilesNext DEF WholeInv, PlacesKept
  <1>2. TakenInv' /\ ApartInv'
    BY <1>1, TakenNext, ApartNext DEF WholeInv
  <1>3. Ids' = Ids /\ \A u : OneCut(u)' <=> OneCut(u)
    BY PlanKept DEF OneCut, SameFile
  <1>4. ASSUME NEW u \in Ids, OneCut(u) PROVE WholeOK(u)'
    <2>1. CASE UNCHANGED vars
      BY <1>4, <2>1, PostWhole DEF vars, workVars, fileVars
    <2>2. ASSUME NEW v \in Ids, Post(v) PROVE WholeOK(u)'
      <3>1. disturbed \subseteq disturbed'
            /\ UNCHANGED <<uploads, pc, part, fp, fresh, now_length, name, data, announced, taken>>
        BY <2>2 DEF Post, workVars, fileVars
      <3> QED
        BY <1>4, <3>1, PostWhole
    <2>3. ASSUME NEW w \in Workers, Take(w) PROVE WholeOK(u)'
      BY <1>4, <2>3, TakeWhole
    <2>4. ASSUME NEW w \in Workers, Work(w), ~Take(w) PROVE WholeOK(u)'
      BY <1>1, <1>4, <2>4, WorkWhole
    <2> QED
      BY <2>1, <2>2, <2>3, <2>4 DEF Next
  <1> QED
    BY <1>1, <1>2, <1>3, <1>4 DEF WholeInv, WholeOK

\* The invariant of attachments that come one part at a time.
THEOREM WholeCorrect == Spec => []WholeInv
  BY WholeInit, WholeNext, PTL DEF Spec

\* WholeIfAlone: an attachment whose parts workers take one at a time and in order is
\* announced once at most, whole, and stays so - for any number of workers and uploads,
\* any sizes and cuts, and all five ways of putting it together.
THEOREM AloneIsWhole == Spec => []WholeIfAlone
  <1>1. WholeInv => WholeIfAlone
    <2> SUFFICES ASSUME WholeInv PROVE WholeIfAlone
      OBVIOUS
    <2>1. PlacesInv /\ FilesInv /\ TakenInv
      BY DEF WholeInv
    <2>2. TypeOK
      <3>1. ASSUME NEW u \in Ids
            PROVE  posted[u] \subseteq 1..Count(u) /\ taken[u] \in 0..Cardinality(posted[u])
        <4>1. /\ Cardinality(Gone(u)) \in Nat /\ Cardinality(Gone(u)) <= Cardinality(posted[u])
              /\ Cardinality(posted[u]) \in Nat /\ posted[u] \subseteq 1..Count(u)
          BY <2>1, GoneFinite DEF PlacesInv
        <4>2. taken[u] \in Nat /\ taken[u] <= Cardinality(Gone(u))
          BY <2>1 DEF TakenInv
        <4> QED
          BY <4>1, <4>2
      <3>2. Len(data) \in Nat
        BY <2>1, LenProperties DEF FilesInv
      <3>3. \A f \in Names : name[f] \in 0..Len(data)
        BY <2>1, <3>2 DEF FilesInv
      <3>4. \A w \in Workers : fp[w] \in 0..Len(data) /\ (pc[w] = "write" => fp[w] # 0)
        BY <2>1, <3>2 DEF FilesInv, TakenInv
      <3> QED
        BY <2>1, <3>1, <3>3, <3>4 DEF TypeOK, PlacesInv, TakenInv
    <2>3. ASSUME NEW u \in Ids \ disturbed, OneCut(u)
          PROVE  Cardinality(About(u)) <= 1 /\ \A k \in About(u) : Contents(k) = Whole(u)
      <3>1. Finished(u)
        BY <2>3 DEF WholeInv
      <3>2. CASE About(u) = {}
        BY <3>2, FS_EmptySet
      <3>3. ASSUME NEW k \in About(u) PROVE Cardinality(About(u)) <= 1
        <4>1. About(u) = {k}
          BY <3>1 DEF Finished
        <4> QED
          BY <4>1, FS_Singleton
      <3> QED
        BY <3>1, <3>2, <3>3 DEF Finished
    <2> QED
      BY <2>2, <2>3 DEF WholeIfAlone
  <1> QED
    BY <1>1, WholeCorrect, PTL

=============================================================================
