------------------------ MODULE SessionTable_proofs ------------------------
(***************************************************************************)
(* Lemmas about the session table, for any keys, hash and buckets: what    *)
(* find_hash finds, and that insert_hash and remove_hash keep its chains   *)
(* linked.  The proofs of the models that use the table rest on them.      *)
(***************************************************************************)
EXTENDS SessionTable, WellFoundedInduction, FiniteSetTheorems, SequenceTheorems, TLAPS

-----------------------------------------------------------------------------
(* Induction *)

\* Naturals that are some have a least.
LEMMA Least ==
    ASSUME NEW S, S \subseteq Nat, S # {} PROVE \E n \in S : \A m \in S : n <= m
<1>1. PICK R : IsWellFoundedOn(R, Nat) /\ \A x, y \in Nat : y < x => <<y, x>> \in R
  <2>1. \A x, y \in Nat : y < x => <<y, x>> \in OpToRel(<, Nat)
    BY DEF OpToRel
  <2> QED
    BY <2>1, NatLessThanWellFounded
<1>2. PICK n \in S : \A m \in S : <<m, n>> \notin R
  BY <1>1, WFMin
<1>3. ASSUME NEW m \in S PROVE n <= m
  <2>1. n \in Nat /\ m \in Nat
    OBVIOUS
  <2>2. ~ (m < n)
    BY <2>1, <1>1, <1>2
  <2> QED
    BY <2>1, <2>2
<1> QED
  BY <1>3

\* What holds of 0, and of a number if of the one before, holds of all up to N.
LEMMA UpTo ==
    ASSUME NEW N \in Nat, NEW S, 0 \in S, \A n \in 1..N : n - 1 \in S => n \in S
    PROVE  \A n \in 0..N : n \in S
<1>1. SUFFICES ASSUME NEW k \in 0..N, k \notin S PROVE FALSE
  OBVIOUS
<1>2. PICK T : T = {n \in 0..N : n \notin S}
  OBVIOUS
<1>3. PICK n \in T : \A m \in T : n <= m
  <2>1. T \subseteq Nat /\ T # {}
    BY <1>1, <1>2
  <2> QED
    BY <2>1, Least
<1>4. n \in 1..N /\ n - 1 \notin T
  BY <1>2, <1>3
<1> QED
  BY <1>2, <1>4

-----------------------------------------------------------------------------
(* The table *)

\* s is the chain of hash h, linked in both directions.
Chained(t, h, s) ==
    /\ s \in Seq(In(t))
    /\ \A b \in In(t) : Hash[t.key[b]] = h <=> \E i \in 1..Len(s) : s[i] = b
    /\ \A i, j \in 1..Len(s) : s[i] = s[j] => i = j
    /\ t.base[h] = IF Len(s) = 0 THEN NULL ELSE s[1]
    /\ \A i \in 1..Len(s) :
          /\ t.next[s[i]] = IF i = Len(s) THEN NULL ELSE s[i + 1]
          /\ t.prev[s[i]] = IF i = 1 THEN NULL ELSE s[i - 1]

\* A table whose chains are linked.
TableOK(t) ==
    /\ In(t) \subseteq Nat \ {0} /\ IsFiniteSet(In(t)) /\ t.nr = Cardinality(In(t))
    /\ \A b \in In(t) : t.key[b] \in Keys
    /\ t.base = [h \in Indexes |-> t.base[h]]
    /\ t.next = [b \in In(t) |-> t.next[b]] /\ t.prev = [b \in In(t) |-> t.prev[b]]
    /\ \A h \in Indexes : \E s : Chained(t, h, s)

\* Along is what its equation says if anything is.
LEMMA AlongIs ==
    ASSUME NEW t, NEW f,
           f = [b \in In(t) \cup {NULL} |-> IF b = NULL THEN <<>> ELSE <<b>> \o f[t.next[b]]]
    PROVE  Along(t) = [b \in In(t) \cup {NULL} |->
                          IF b = NULL THEN <<>> ELSE <<b>> \o Along(t)[t.next[b]]]
<1> DEFINE P(g) == g = [b \in In(t) \cup {NULL} |-> IF b = NULL THEN <<>> ELSE <<b>> \o g[t.next[b]]]
<1>1. Along(t) = CHOOSE g : P(g)
  BY DEF Along
<1>2. P(f)
  OBVIOUS
<1>3. P(CHOOSE g : P(g))
  <2> HIDE DEF P
  <2> QED
    BY <1>2
<1> QED
  BY <1>1, <1>3

\* The rest of a sequence from i on.
Rest(s, i) == [j \in 1..(Len(s) - i + 1) |-> s[i + j - 1]]

\* Along follows next: the chain from its i-th bucket is that bucket, then the rest.
LEMMA RestIs ==
    ASSUME NEW S, NEW s \in Seq(S), NEW i \in 1..Len(s)
    PROVE  Rest(s, i) = <<s[i]>> \o (IF i = Len(s) THEN <<>> ELSE Rest(s, i + 1))
<1>1. CASE i = Len(s)
  <2>1. Rest(s, i) = [j \in 1..1 |-> s[i]]
    BY <1>1 DEF Rest
  <2>2. <<s[i]>> \o <<>> = [j \in 1..1 |-> s[i]]
    OBVIOUS
  <2> QED
    BY <1>1, <2>1, <2>2
<1>2. CASE i # Len(s)
  <2>1. PICK r : r = Rest(s, i + 1)
    OBVIOUS
  <2>2. r = [j \in 1..(Len(s) - i) |-> s[i + j]]
    BY <2>1 DEF Rest
  <2>3. r \in Seq(S) /\ Len(r) = Len(s) - i
    BY <2>2
  <2>4. PICK u : u = <<s[i]>>
    OBVIOUS
  <2>5. u \in Seq(S) /\ Len(u) = 1 /\ u[1] = s[i]
    BY <2>4
  <2>6. PICK q : q = u \o r
    OBVIOUS
  <2>7. q \in Seq(S) /\ Len(q) = Len(s) - i + 1
    <3>1. q \in Seq(S) /\ Len(q) = Len(u) + Len(r)
      BY <2>3, <2>5, <2>6, ConcatProperties
    <3> QED
      BY <2>3, <2>5, <3>1
  <2>8. \A j \in 1..(Len(s) - i + 1) : q[j] = s[i + j - 1]
    <3> TAKE j \in 1..(Len(s) - i + 1)
    <3>1. q[j] = IF j <= Len(u) THEN u[j] ELSE r[j - Len(u)]
      <4>1. j \in 1..(Len(u) + Len(r))
        BY <2>3, <2>5
      <4> QED
        BY <2>3, <2>5, <2>6, <4>1, ConcatProperties
    <3>2. j # 1 => r[j - 1] = s[i + j - 1]
      BY <2>2
    <3> QED
      BY <2>5, <3>1, <3>2
  <2>9. q = [j \in 1..(Len(s) - i + 1) |-> s[i + j - 1]]
    BY <2>7, <2>8
  <2> QED
    BY <1>2, <2>1, <2>4, <2>6, <2>9 DEF Rest
<1> QED
  BY <1>1, <1>2

\* A table of linked chains has a function as Along asks for.
LEMMA AlongExists ==
    ASSUME NEW t, TableOK(t)
    PROVE  \E f : f = [b \in In(t) \cup {NULL} |-> IF b = NULL THEN <<>> ELSE <<b>> \o f[t.next[b]]]
<1>1. PICK w : w = [h \in Indexes |-> CHOOSE s : Chained(t, h, s)]
  OBVIOUS
<1>2. \A h \in Indexes : Chained(t, h, w[h])
  BY <1>1 DEF TableOK
<1>3. PICK at : at = [b \in In(t) |-> CHOOSE i \in 1..Len(w[Hash[t.key[b]]]) : w[Hash[t.key[b]]][i] = b]
  OBVIOUS
<1>4. \A b \in In(t) : /\ Hash[t.key[b]] \in Indexes /\ at[b] \in 1..Len(w[Hash[t.key[b]]])
                       /\ w[Hash[t.key[b]]][at[b]] = b
  <2> TAKE b \in In(t)
  <2>1. Hash[t.key[b]] \in Indexes
    BY DEF TableOK, Indexes
  <2>2. \E i \in 1..Len(w[Hash[t.key[b]]]) : w[Hash[t.key[b]]][i] = b
    BY <1>2, <2>1 DEF Chained
  <2> QED
    BY <1>3, <2>1, <2>2
<1>5. PICK f : f = [b \in In(t) \cup {NULL} |->
                      IF b = NULL THEN <<>> ELSE Rest(w[Hash[t.key[b]]], at[b])]
  OBVIOUS
<1>6. NULL \notin In(t)
  BY DEF TableOK, NULL
<1>7. ASSUME NEW b \in In(t) PROVE f[b] = <<b>> \o f[t.next[b]]
  <2>1. PICK h, s, i : h = Hash[t.key[b]] /\ s = w[h] /\ i = at[b]
    OBVIOUS
  <2>2. /\ h \in Indexes /\ Chained(t, h, s) /\ i \in 1..Len(s) /\ s[i] = b
        /\ s \in Seq(In(t))
    <3>1. h \in Indexes /\ i \in 1..Len(s) /\ s[i] = b
      BY <1>4, <2>1
    <3>2. Chained(t, h, s)
      BY <1>2, <2>1, <3>1
    <3> QED
      BY <3>1, <3>2 DEF Chained
  <2>3. f[b] = Rest(s, i)
    BY <1>5, <1>6, <2>1
  <2>4. Rest(s, i) = <<b>> \o (IF i = Len(s) THEN <<>> ELSE Rest(s, i + 1))
    BY <2>2, RestIs
  <2>5. CASE i = Len(s)
    <3>1. t.next[b] = NULL
      BY <2>2, <2>5 DEF Chained
    <3> QED
      BY <1>5, <2>3, <2>4, <2>5, <3>1
  <2>6. CASE i # Len(s)
    <3>1. t.next[b] = s[i + 1] /\ i + 1 \in 1..Len(s) /\ s[i + 1] \in In(t)
      BY <2>2, <2>6 DEF Chained
    <3>2. PICK a \in In(t) : a = s[i + 1]
      BY <3>1
    <3>3. Hash[t.key[a]] = h
      BY <2>2, <3>1, <3>2 DEF Chained
    <3>4. at[a] \in 1..Len(s) /\ s[at[a]] = a
      BY <1>4, <2>1, <3>3
    <3>5. at[a] = i + 1
      BY <2>2, <3>1, <3>2, <3>4 DEF Chained
    <3>6. f[a] = Rest(s, i + 1)
      BY <1>5, <1>6, <2>1, <3>3, <3>5
    <3> QED
      BY <2>3, <2>4, <2>6, <3>1, <3>2, <3>6
  <2> QED
    BY <2>5, <2>6
<1>8. f[NULL] = <<>>
  BY <1>5
<1>9. f = [b \in In(t) \cup {NULL} |-> IF b = NULL THEN <<>> ELSE <<b>> \o f[t.next[b]]]
  <2>1. \A b \in In(t) \cup {NULL} : f[b] = IF b = NULL THEN <<>> ELSE <<b>> \o f[t.next[b]]
    BY <1>6, <1>7, <1>8
  <2>2. f = [b \in In(t) \cup {NULL} |-> f[b]]
    BY <1>5
  <2> QED
    BY <2>1, <2>2
<1> QED
  BY <1>9

\* The loop over a chain meets the chain.
LEMMA ChainIs ==
    ASSUME NEW t, TableOK(t), NEW h \in Indexes, NEW s, Chained(t, h, s)
    PROVE  Chain(t, h) = s
<1>1. PICK A : A = Along(t)
  OBVIOUS
<1>2. A = [b \in In(t) \cup {NULL} |-> IF b = NULL THEN <<>> ELSE <<b>> \o A[t.next[b]]]
  <2>1. PICK f : f = [b \in In(t) \cup {NULL} |-> IF b = NULL THEN <<>> ELSE <<b>> \o f[t.next[b]]]
    BY AlongExists
  <2>2. Along(t) = [b \in In(t) \cup {NULL} |-> IF b = NULL THEN <<>> ELSE <<b>> \o Along(t)[t.next[b]]]
    BY <2>1, AlongIs
  <2> QED
    BY <1>1, <2>2
<1>3. NULL \notin In(t) /\ s \in Seq(In(t)) /\ Len(s) \in Nat
  BY DEF TableOK, NULL, Chained
<1>4. A[NULL] = <<>> /\ \A b \in In(t) : A[b] = <<b>> \o A[t.next[b]]
  BY <1>2, <1>3
<1>5. \A i \in 1..Len(s) : s[i] \in In(t)
  BY <1>3
<1>6. PICK S : S = {k \in 0..Len(s) : k = 0 \/ A[s[Len(s) - k + 1]] = Rest(s, Len(s) - k + 1)}
  OBVIOUS
<1>7. 0 \in S
  BY <1>3, <1>6
<1>8. ASSUME NEW k \in 1..Len(s), k - 1 \in S PROVE k \in S
  <2>1. PICK i \in 1..Len(s) : i = Len(s) - k + 1
    BY <1>3
  <2>2. A[s[i]] = <<s[i]>> \o A[t.next[s[i]]]
    BY <1>4, <1>5
  <2>3. A[t.next[s[i]]] = IF i = Len(s) THEN <<>> ELSE Rest(s, i + 1)
    <3>1. CASE i = Len(s)
      BY <1>4, <3>1 DEF Chained
    <3>2. CASE i # Len(s)
      <4>1. t.next[s[i]] = s[i + 1]
        BY <3>2 DEF Chained
      <4>2. k - 1 # 0 /\ Len(s) - (k - 1) + 1 = i + 1
        BY <1>3, <2>1, <3>2
      <4>3. A[s[i + 1]] = Rest(s, i + 1)
        BY <1>6, <1>8, <4>2
      <4> QED
        BY <3>2, <4>1, <4>3
    <3> QED
      BY <3>1, <3>2
  <2>4. A[s[i]] = Rest(s, i)
    BY <1>3, <2>2, <2>3, RestIs
  <2> QED
    BY <1>3, <1>6, <2>1, <2>4
<1>9. \A k \in 0..Len(s) : k \in S
  BY <1>3, <1>7, <1>8, UpTo
<1>10. CASE Len(s) = 0
  <2>1. s = <<>>
    BY <1>3, <1>10
  <2>2. t.base[h] = NULL
    BY <1>10 DEF Chained
  <2> QED
    BY <1>1, <1>4, <2>1, <2>2 DEF Chain
<1>11. CASE Len(s) # 0
  <2>1. Len(s) \in S /\ Len(s) - Len(s) + 1 = 1
    BY <1>3, <1>9
  <2>2. A[s[1]] = Rest(s, 1)
    BY <1>6, <1>11, <2>1
  <2>3. Rest(s, 1) = s
    BY <1>3 DEF Rest
  <2>4. t.base[h] = s[1]
    BY <1>11 DEF Chained
  <2> QED
    BY <1>1, <2>2, <2>3, <2>4 DEF Chain
<1> QED
  BY <1>10, <1>11

\* find_hash finds the bucket with a key if there is one.
LEMMA FindIs ==
    ASSUME NEW t, TableOK(t), NEW k \in Keys
    PROVE  \/ FindHash(t, k) \in In(t) /\ t.key[FindHash(t, k)] = k
           \/ FindHash(t, k) = NULL /\ \A b \in In(t) : t.key[b] # k
<1>1. PICK h, s : h = Hash[k] /\ h \in Indexes /\ Chained(t, h, s)
  BY DEF TableOK, Indexes
<1>2. FindHash(t, k) = FirstWith(t, s, k)
  BY <1>1, ChainIs DEF FindHash
<1>3. s \in Seq(In(t)) /\ DOMAIN s = 1..Len(s) /\ Len(s) \in Nat
  BY <1>1 DEF Chained
<1>4. CASE \E i \in 1..Len(s) : t.key[s[i]] = k
  <2>1. PICK S : S = {i \in 1..Len(s) : t.key[s[i]] = k}
    OBVIOUS
  <2>2. S \subseteq Nat /\ S # {}
    BY <1>3, <1>4, <2>1
  <2>3. PICK i \in S : \A j \in S : i <= j
    BY <2>2, Least
  <2>4. i \in 1..Len(s) /\ t.key[s[i]] = k /\ \A j \in 1..(i - 1) : t.key[s[j]] # k
    BY <1>3, <2>1, <2>3
  <2>5. PICK n : n = CHOOSE x \in 1..Len(s) : t.key[s[x]] = k /\ \A j \in 1..(x - 1) : t.key[s[j]] # k
    OBVIOUS
  <2>6. n \in 1..Len(s) /\ t.key[s[n]] = k
    BY <2>4, <2>5
  <2>7. FirstWith(t, s, k) = s[n]
    BY <1>3, <1>4, <2>5 DEF FirstWith
  <2> QED
    BY <1>2, <1>3, <2>6, <2>7
<1>5. CASE \A i \in 1..Len(s) : t.key[s[i]] # k
  <2>1. FindHash(t, k) = NULL
    BY <1>2, <1>3, <1>5 DEF FirstWith
  <2>2. \A b \in In(t) : t.key[b] # k
    BY <1>1, <1>5 DEF Chained
  <2> QED
    BY <2>1, <2>2
<1> QED
  BY <1>4, <1>5

\* What the properties call linked.
LEMMA LinkedIs == ASSUME NEW t, TableOK(t) PROVE Linked(t)
<1>1. ASSUME NEW h \in Indexes
      PROVE  /\ {Chain(t, h)[i] : i \in DOMAIN Chain(t, h)} = {b \in In(t) : Hash[t.key[b]] = h}
             /\ \A i \in DOMAIN Chain(t, h) :
                   t.prev[Chain(t, h)[i]] = IF i = 1 THEN NULL ELSE Chain(t, h)[i - 1]
  <2>1. PICK s : Chained(t, h, s)
    BY DEF TableOK
  <2>2. Chain(t, h) = s /\ s \in Seq(In(t)) /\ DOMAIN s = 1..Len(s)
    BY <2>1, ChainIs DEF Chained
  <2>3. {s[i] : i \in 1..Len(s)} = {b \in In(t) : Hash[t.key[b]] = h}
    <3>1. \A b \in In(t) : Hash[t.key[b]] = h <=> \E i \in 1..Len(s) : s[i] = b
      BY <2>1 DEF Chained
    <3>2. \A i \in 1..Len(s) : s[i] \in In(t)
      BY <2>2
    <3> QED
      BY <3>1, <3>2
  <2>4. \A i \in 1..Len(s) : t.prev[s[i]] = IF i = 1 THEN NULL ELSE s[i - 1]
    BY <2>1 DEF Chained
  <2> QED
    BY <2>2, <2>3, <2>4
<1> QED
  BY <1>1 DEF Linked, TableOK

\* An empty table is a good one.
LEMMA CreateOK == TableOK(CreateHash) /\ In(CreateHash) = {}
<1>1. PICK t : t = CreateHash
  OBVIOUS
<1>2. /\ t.base = [h \in Indexes |-> NULL] /\ t.key = <<>> /\ t.next = <<>> /\ t.prev = <<>> /\ t.nr = 0
  BY <1>1 DEF CreateHash
<1>3. In(t) = {}
  BY <1>2 DEF In
<1>4. t.next = [b \in {} |-> t.next[b]] /\ t.prev = [b \in {} |-> t.prev[b]]
  BY <1>2
<1>5. ASSUME NEW h \in Indexes PROVE Chained(t, h, <<>>)
  BY <1>2, <1>3 DEF Chained
<1>6. IsFiniteSet(In(t)) /\ Cardinality(In(t)) = 0
  BY <1>3, FS_EmptySet
<1>7. TableOK(t)
  BY <1>2, <1>3, <1>4, <1>5, <1>6 DEF TableOK
<1> QED
  BY <1>1, <1>3, <1>7

\* insert_hash puts a bucket into the chain of its hash: in front of the first bucket
\* with its key, or to the end.
LEMMA InsertIs ==
    ASSUME NEW t, TableOK(t), NEW b \in Nat \ {0}, b \notin In(t), NEW k \in Keys
    PROVE  \E s, m, ptr, prev :
              /\ Chained(t, Hash[k], s) /\ m \in 1..(Len(s) + 1)
              /\ ptr = IF m = Len(s) + 1 THEN NULL ELSE s[m]
              /\ prev = IF m = 1 THEN NULL ELSE s[m - 1]
              /\ InsertHash(t, b, k) =
                    [base |-> IF prev = NULL THEN [t.base EXCEPT ![Hash[k]] = b] ELSE t.base,
                     key  |-> With(t.key, b, k),
                     next |-> With(IF prev = NULL THEN t.next ELSE [t.next EXCEPT ![prev] = b], b, ptr),
                     prev |-> With(IF ptr = NULL THEN t.prev ELSE [t.prev EXCEPT ![ptr] = b], b, prev),
                     nr   |-> t.nr + 1]
<1>1. PICK h, s : h = Hash[k] /\ h \in Indexes /\ Chained(t, h, s)
  BY DEF TableOK, Indexes
<1>2. Chain(t, h) = s
  BY <1>1, ChainIs
<1>3. /\ s \in Seq(In(t)) /\ DOMAIN s = 1..Len(s) /\ Len(s) \in Nat /\ (s = <<>> <=> Len(s) = 0)
      /\ NULL \notin In(t) /\ \A i \in 1..Len(s) : s[i] \in In(t)
  BY <1>1 DEF Chained, TableOK, NULL
<1>4. PICK ptr, prev :
         /\ ptr = FirstWith(t, s, k)
         /\ prev = IF ptr # NULL THEN t.prev[ptr] ELSE IF s = <<>> THEN NULL ELSE s[Len(s)]
  OBVIOUS
<1>5. InsertHash(t, b, k) =
         [base |-> IF prev = NULL THEN [t.base EXCEPT ![Hash[k]] = b] ELSE t.base,
          key  |-> With(t.key, b, k),
          next |-> With(IF prev = NULL THEN t.next ELSE [t.next EXCEPT ![prev] = b], b, ptr),
          prev |-> With(IF ptr = NULL THEN t.prev ELSE [t.prev EXCEPT ![ptr] = b], b, prev),
          nr   |-> t.nr + 1]
  BY <1>1, <1>2, <1>4 DEF InsertHash
<1>6. \E m \in 1..(Len(s) + 1) : /\ ptr = IF m = Len(s) + 1 THEN NULL ELSE s[m]
                                 /\ prev = IF m = 1 THEN NULL ELSE s[m - 1]
  <2>1. CASE \E i \in 1..Len(s) : t.key[s[i]] = k
    <3>1. PICK S : S = {i \in 1..Len(s) : t.key[s[i]] = k}
      OBVIOUS
    <3>2. S \subseteq Nat /\ S # {}
      BY <1>3, <2>1, <3>1
    <3>3. PICK i \in S : \A j \in S : i <= j
      BY <3>2, Least
    <3>4. i \in 1..Len(s) /\ t.key[s[i]] = k /\ \A j \in 1..(i - 1) : t.key[s[j]] # k
      BY <1>3, <3>1, <3>3
    <3>5. PICK n : n = CHOOSE x \in 1..Len(s) : t.key[s[x]] = k /\ \A j \in 1..(x - 1) : t.key[s[j]] # k
      OBVIOUS
    <3>6. n \in 1..Len(s)
      BY <3>4, <3>5
    <3>7. ptr = s[n]
      BY <1>3, <1>4, <2>1, <3>5 DEF FirstWith
    <3>8. prev = IF n = 1 THEN NULL ELSE s[n - 1]
      <4>1. t.prev[s[n]] = IF n = 1 THEN NULL ELSE s[n - 1]
        BY <1>1, <3>6 DEF Chained
      <4> QED
        BY <1>3, <1>4, <3>6, <3>7, <4>1
    <3>9. n \in 1..(Len(s) + 1) /\ n # Len(s) + 1
      BY <1>3, <3>6
    <3> QED
      BY <3>7, <3>8, <3>9
  <2>2. CASE ~ \E i \in 1..Len(s) : t.key[s[i]] = k
    <3>1. ptr = NULL
      BY <1>3, <1>4, <2>2 DEF FirstWith
    <3>2. prev = IF Len(s) + 1 = 1 THEN NULL ELSE s[(Len(s) + 1) - 1]
      BY <1>3, <1>4, <3>1
    <3>3. Len(s) + 1 \in 1..(Len(s) + 1)
      BY <1>3
    <3> QED
      BY <3>1, <3>2, <3>3
  <2> QED
    BY <2>1, <2>2
<1> QED
  BY <1>1, <1>5, <1>6

\* The table stays one of linked chains when a bucket comes in.
LEMMA InsertOK ==
    ASSUME NEW t, TableOK(t), NEW b \in Nat \ {0}, b \notin In(t), NEW k \in Keys
    PROVE  TableOK(InsertHash(t, b, k)) /\ InsertHash(t, b, k).key = With(t.key, b, k)
<1>1. PICK s, m, ptr, prev :
         /\ Chained(t, Hash[k], s) /\ m \in 1..(Len(s) + 1)
         /\ ptr = IF m = Len(s) + 1 THEN NULL ELSE s[m]
         /\ prev = IF m = 1 THEN NULL ELSE s[m - 1]
         /\ InsertHash(t, b, k) =
               [base |-> IF prev = NULL THEN [t.base EXCEPT ![Hash[k]] = b] ELSE t.base,
                key  |-> With(t.key, b, k),
                next |-> With(IF prev = NULL THEN t.next ELSE [t.next EXCEPT ![prev] = b], b, ptr),
                prev |-> With(IF ptr = NULL THEN t.prev ELSE [t.prev EXCEPT ![ptr] = b], b, prev),
                nr   |-> t.nr + 1]
  BY InsertIs
<1>2. PICK u, n, q, h : /\ u = InsertHash(t, b, k) /\ h = Hash[k]
                        /\ n = IF prev = NULL THEN t.next ELSE [t.next EXCEPT ![prev] = b]
                        /\ q = IF ptr = NULL THEN t.prev ELSE [t.prev EXCEPT ![ptr] = b]
  OBVIOUS
<1>3. /\ u.base = IF prev = NULL THEN [t.base EXCEPT ![h] = b] ELSE t.base
      /\ u.key = With(t.key, b, k) /\ u.next = With(n, b, ptr) /\ u.prev = With(q, b, prev)
      /\ u.nr = t.nr + 1
  BY <1>1, <1>2
<1>4. /\ NULL \notin In(t) /\ h \in Indexes /\ DOMAIN t.next = In(t) /\ DOMAIN t.prev = In(t)
      /\ t.base = [g \in Indexes |-> t.base[g]] /\ t.next = [a \in In(t) |-> t.next[a]]
      /\ t.prev = [a \in In(t) |-> t.prev[a]]
  BY <1>2 DEF TableOK, NULL, Indexes
<1>5. /\ s \in Seq(In(t)) /\ Len(s) \in Nat /\ \A i \in 1..Len(s) : s[i] \in In(t)
      /\ \A i, j \in 1..Len(s) : s[i] = s[j] => i = j
      /\ m \in Nat \ {0} /\ m <= Len(s) + 1
  <2>1. s \in Seq(In(t)) /\ \A i, j \in 1..Len(s) : s[i] = s[j] => i = j
    BY <1>1 DEF Chained
  <2> QED
    BY <1>1, <2>1
<1>6. In(u) = In(t) \cup {b} /\ u.key[b] = k /\ \A a \in In(t) : u.key[a] = t.key[a]
  <2>1. PICK f : f = t.key
    OBVIOUS
  <2>2. u.key = With(f, b, k)
    BY <1>3, <2>1
  <2>3. /\ DOMAIN With(f, b, k) = DOMAIN f \cup {b} /\ With(f, b, k)[b] = k
        /\ \A a \in DOMAIN f \ {b} : With(f, b, k)[a] = f[a]
    BY DEF With
  <2> QED
    BY <2>1, <2>2, <2>3 DEF In
<1>7. /\ prev # NULL <=> m # 1
      /\ prev # NULL => prev \in In(t) /\ prev = s[m - 1]
      /\ ptr # NULL <=> m # Len(s) + 1
      /\ ptr # NULL => ptr \in In(t) /\ ptr = s[m]
  <2>1. m # 1 => m - 1 \in 1..Len(s)
    BY <1>5
  <2>2. m # Len(s) + 1 => m \in 1..Len(s)
    BY <1>5
  <2> QED
    BY <1>1, <1>4, <1>5, <2>1, <2>2
<1>8. /\ DOMAIN n = In(t) /\ (prev # NULL => n[prev] = b)
      /\ \A a \in In(t) \ {prev} : n[a] = t.next[a]
  BY <1>2, <1>4, <1>7
<1>9. /\ DOMAIN q = In(t) /\ (ptr # NULL => q[ptr] = b)
      /\ \A a \in In(t) \ {ptr} : q[a] = t.prev[a]
  BY <1>2, <1>4, <1>7
<1>10. /\ u.next[b] = ptr /\ \A a \in In(t) : u.next[a] = n[a]
       /\ u.next = [a \in In(u) |-> u.next[a]]
  <2>1. u.next = With(n, b, ptr)
    BY <1>3
  <2>2. /\ DOMAIN With(n, b, ptr) = DOMAIN n \cup {b} /\ With(n, b, ptr)[b] = ptr
        /\ \A a \in DOMAIN n \ {b} : With(n, b, ptr)[a] = n[a]
        /\ With(n, b, ptr) = [a \in DOMAIN n \cup {b} |-> With(n, b, ptr)[a]]
    BY DEF With
  <2> QED
    BY <1>6, <1>8, <2>1, <2>2
<1>11. /\ u.prev[b] = prev /\ \A a \in In(t) : u.prev[a] = q[a]
       /\ u.prev = [a \in In(u) |-> u.prev[a]]
  <2>1. u.prev = With(q, b, prev)
    BY <1>3
  <2>2. /\ DOMAIN With(q, b, prev) = DOMAIN q \cup {b} /\ With(q, b, prev)[b] = prev
        /\ \A a \in DOMAIN q \ {b} : With(q, b, prev)[a] = q[a]
        /\ With(q, b, prev) = [a \in DOMAIN q \cup {b} |-> With(q, b, prev)[a]]
    BY DEF With
  <2> QED
    BY <1>6, <1>9, <2>1, <2>2
<1>12. /\ u.base = [g \in Indexes |-> u.base[g]] /\ \A g \in Indexes \ {h} : u.base[g] = t.base[g]
       /\ u.base[h] = IF prev = NULL THEN b ELSE t.base[h]
  BY <1>3, <1>4
<1>13. In(u) \subseteq Nat \ {0} /\ IsFiniteSet(In(u)) /\ u.nr = Cardinality(In(u))
  <2>1. IsFiniteSet(In(t)) /\ t.nr = Cardinality(In(t)) /\ In(t) \subseteq Nat \ {0}
    BY DEF TableOK
  <2>2. IsFiniteSet(In(t) \cup {b}) /\ Cardinality(In(t) \cup {b}) = Cardinality(In(t)) + 1
    BY <2>1, FS_AddElement
  <2> QED
    BY <1>3, <1>6, <2>1, <2>2
<1>14. \A a \in In(u) : u.key[a] \in Keys
  BY <1>6 DEF TableOK
<1>15. ASSUME NEW g \in Indexes, g # h, NEW r, Chained(t, g, r) PROVE Chained(u, g, r)
  <2>1. /\ r \in Seq(In(t)) /\ \A i \in 1..Len(r) : r[i] \in In(t) /\ Hash[t.key[r[i]]] = g
    BY <1>15 DEF Chained
  <2>2. \A i \in 1..Len(r) : r[i] # prev /\ r[i] # ptr
    <3>1. \A i \in 1..Len(s) : Hash[t.key[s[i]]] = h
      BY <1>1, <1>2, <1>5 DEF Chained
    <3>2. (prev # NULL => Hash[t.key[prev]] = h) /\ (ptr # NULL => Hash[t.key[ptr]] = h)
      <4>1. prev # NULL => m - 1 \in 1..Len(s)
        BY <1>5, <1>7
      <4>2. ptr # NULL => m \in 1..Len(s)
        BY <1>5, <1>7
      <4> QED
        BY <1>7, <3>1, <4>1, <4>2
    <3> QED
      BY <1>4, <1>15, <2>1, <3>2
  <2>3. r \in Seq(In(u))
    BY <1>6, <2>1
  <2>4. \A a \in In(u) : Hash[u.key[a]] = g <=> \E i \in 1..Len(r) : r[i] = a
    <3>1. ~ \E i \in 1..Len(r) : r[i] = b
      BY <2>1
    <3> QED
      BY <1>2, <1>6, <1>15, <3>1 DEF Chained
  <2>5. u.base[g] = IF Len(r) = 0 THEN NULL ELSE r[1]
    BY <1>12, <1>15 DEF Chained
  <2>6. \A i \in 1..Len(r) : u.next[r[i]] = t.next[r[i]] /\ u.prev[r[i]] = t.prev[r[i]]
    BY <1>8, <1>9, <1>10, <1>11, <2>1, <2>2
  <2> QED
    BY <1>15, <2>3, <2>4, <2>5, <2>6 DEF Chained
<1>16. \E r : Chained(u, h, r)
  <2>1. PICK r : r = [i \in 1..(Len(s) + 1) |-> IF i < m THEN s[i] ELSE IF i = m THEN b ELSE s[i - 1]]
    OBVIOUS
  <2>2. /\ \A i \in 1..(Len(s) + 1) : r[i] = IF i < m THEN s[i] ELSE IF i = m THEN b ELSE s[i - 1]
        /\ \A i \in 1..(Len(s) + 1) : r[i] \in In(u)
    <3>1. ASSUME NEW i \in 1..(Len(s) + 1) PROVE r[i] \in In(u)
      <4>1. (i < m => i \in 1..Len(s)) /\ (i > m => i - 1 \in 1..Len(s))
        BY <1>5
      <4>2. r[i] = IF i < m THEN s[i] ELSE IF i = m THEN b ELSE s[i - 1]
        BY <2>1
      <4>3. CASE i < m
        BY <1>5, <1>6, <4>1, <4>2, <4>3
      <4>4. CASE i = m
        BY <1>5, <1>6, <4>2, <4>4
      <4>5. CASE i > m
        BY <1>5, <1>6, <4>1, <4>2, <4>5
      <4> QED
        BY <1>5, <4>3, <4>4, <4>5
    <3> QED
      BY <2>1, <3>1
  <2>3. r \in Seq(In(u)) /\ Len(r) = Len(s) + 1
    BY <1>5, <2>1, <2>2
  <2>4. \A a \in In(u) : Hash[u.key[a]] = h <=> \E i \in 1..Len(r) : r[i] = a
    <3>1. ASSUME NEW a \in In(t) PROVE Hash[u.key[a]] = h <=> \E i \in 1..Len(r) : r[i] = a
      <4>1. a # b /\ (Hash[u.key[a]] = h <=> \E i \in 1..Len(s) : s[i] = a)
        BY <1>1, <1>2, <1>6 DEF Chained
      <4>2. ASSUME NEW i \in 1..Len(s), s[i] = a PROVE \E j \in 1..Len(r) : r[j] = a
        <5>1. CASE i < m
          <6>1. i \in 1..Len(r) /\ r[i] = a
            BY <1>5, <2>2, <2>3, <4>2, <5>1
          <6> QED
            BY <6>1
        <5>2. CASE i >= m
          <6>1. i + 1 \in 1..Len(r) /\ r[i + 1] = s[(i + 1) - 1]
            BY <1>5, <2>2, <2>3, <5>2
          <6> QED
            BY <1>5, <4>2, <6>1
        <5> QED
          BY <1>5, <5>1, <5>2
      <4>3. ASSUME NEW i \in 1..Len(r), r[i] = a PROVE \E j \in 1..Len(s) : s[j] = a
        BY <1>5, <2>2, <2>3, <4>1, <4>3, SMTT(60)
      <4> QED
        BY <4>1, <4>2, <4>3
    <3>2. Hash[u.key[b]] = h /\ \E i \in 1..Len(r) : r[i] = b
      BY <1>2, <1>5, <1>6, <2>2, <2>3
    <3> QED
      BY <1>6, <3>1, <3>2
  <2>5. ASSUME NEW i \in 1..Len(r), NEW j \in 1..Len(r), r[i] = r[j] PROVE i = j
    <3>1. \A x \in 1..Len(s) : s[x] # b
      BY <1>5
    <3>2. /\ i < m => i \in 1..Len(s) /\ r[i] = s[i]
          /\ i = m => r[i] = b
          /\ i > m => i - 1 \in 1..Len(s) /\ r[i] = s[i - 1]
      BY <1>5, <2>2, <2>3
    <3>3. /\ j < m => j \in 1..Len(s) /\ r[j] = s[j]
          /\ j = m => r[j] = b
          /\ j > m => j - 1 \in 1..Len(s) /\ r[j] = s[j - 1]
      BY <1>5, <2>2, <2>3
    <3> QED
      BY <1>5, <2>3, <2>5, <3>1, <3>2, <3>3
  <2>6. u.base[h] = r[1]
    <3>1. m # 1 => Len(s) # 0 /\ t.base[h] = s[1]
      BY <1>1, <1>2, <1>5 DEF Chained
    <3>2. r[1] = IF 1 < m THEN s[1] ELSE b
      BY <1>5, <2>2
    <3> QED
      BY <1>5, <1>7, <1>12, <3>1, <3>2
  <2>7. ASSUME NEW i \in 1..Len(r) PROVE u.next[r[i]] = IF i = Len(r) THEN NULL ELSE r[i + 1]
    <3>1. \A j \in 1..Len(s) : t.next[s[j]] = IF j = Len(s) THEN NULL ELSE s[j + 1]
      BY <1>1 DEF Chained
    <3>2. CASE i = m
      <4>1. u.next[r[i]] = ptr
        BY <1>10, <2>2, <2>3, <3>2, <1>5
      <4>2. i # Len(r) => r[i + 1] = s[m]
        <5>1. i # Len(r) => i + 1 \in 1..(Len(s) + 1) /\ ~(i + 1 < m) /\ i + 1 # m /\ (i + 1) - 1 = m
          BY <1>5, <2>3, <3>2
        <5> QED
          BY <2>2, <5>1
      <4> QED
        BY <1>1, <2>3, <3>2, <4>1, <4>2
    <3>3. CASE i < m
      <4>1. i \in 1..Len(s) /\ r[i] = s[i] /\ i # Len(r)
        BY <1>5, <2>2, <2>3, <3>3
      <4>2. u.next[r[i]] = n[s[i]]
        BY <1>5, <1>10, <4>1
      <4>3. CASE i = m - 1
        <5>1. prev # NULL /\ s[i] = prev
          BY <1>5, <1>7, <3>3, <4>3
        <5>2. r[i + 1] = b
          <6>1. i + 1 = m /\ m \in 1..(Len(s) + 1) /\ ~(m < m)
            BY <1>5, <4>3
          <6> QED
            BY <2>2, <6>1
        <5> QED
          BY <1>8, <4>1, <4>2, <5>1, <5>2
      <4>4. CASE i # m - 1
        <5>1. s[i] # prev
          <6>1. prev # NULL => m - 1 \in 1..Len(s) /\ prev = s[m - 1]
            BY <1>5, <1>7
          <6> QED
            BY <1>4, <1>5, <4>1, <4>4, <6>1
        <5>2. i + 1 < m /\ i + 1 \in 1..(Len(s) + 1) /\ i # Len(s)
          BY <1>5, <3>3, <4>1, <4>4
        <5>3. r[i + 1] = s[i + 1]
          BY <2>2, <5>2
        <5> QED
          BY <1>5, <1>8, <3>1, <4>1, <4>2, <5>1, <5>2, <5>3
      <4> QED
        BY <4>3, <4>4
    <3>4. CASE i > m
      <4>1. i - 1 \in 1..Len(s) /\ r[i] = s[i - 1]
        BY <1>5, <2>2, <2>3, <3>4
      <4>2. s[i - 1] # prev
        <5>1. prev # NULL => m - 1 \in 1..Len(s) /\ prev = s[m - 1] /\ m - 1 # i - 1
          BY <1>5, <1>7, <3>4
        <5> QED
          BY <1>4, <1>5, <4>1, <5>1
      <4>3. u.next[r[i]] = t.next[s[i - 1]]
        BY <1>5, <1>8, <1>10, <4>1, <4>2
      <4>4. i # Len(r) => r[i + 1] = s[(i - 1) + 1]
        <5>1. i # Len(r) => i + 1 \in 1..(Len(s) + 1) /\ ~(i + 1 < m) /\ i + 1 # m /\ (i + 1) - 1 = (i - 1) + 1
          BY <1>5, <2>3, <3>4
        <5> QED
          BY <2>2, <5>1
      <4>5. i = Len(r) <=> i - 1 = Len(s)
        BY <1>5, <2>3
      <4> QED
        BY <3>1, <4>1, <4>3, <4>4, <4>5
    <3> QED
      BY <1>5, <2>3, <3>2, <3>3, <3>4
  <2>8. ASSUME NEW i \in 1..Len(r) PROVE u.prev[r[i]] = IF i = 1 THEN NULL ELSE r[i - 1]
    <3>1. \A j \in 1..Len(s) : t.prev[s[j]] = IF j = 1 THEN NULL ELSE s[j - 1]
      BY <1>1 DEF Chained
    <3>2. CASE i = m
      <4>1. u.prev[r[i]] = prev
        BY <1>5, <1>11, <2>2, <2>3, <3>2
      <4>2. i # 1 => r[i - 1] = s[m - 1]
        <5>1. i # 1 => i - 1 \in 1..(Len(s) + 1) /\ i - 1 < m /\ i - 1 = m - 1
          BY <1>5, <2>3, <3>2
        <5> QED
          BY <2>2, <5>1
      <4> QED
        BY <1>1, <3>2, <4>1, <4>2
    <3>3. CASE i < m
      <4>1. i \in 1..Len(s) /\ r[i] = s[i]
        BY <1>5, <2>2, <2>3, <3>3
      <4>2. s[i] # ptr
        <5>1. ptr # NULL => m \in 1..Len(s) /\ ptr = s[m] /\ m # i
          BY <1>5, <1>7, <3>3
        <5> QED
          BY <1>4, <1>5, <4>1, <5>1
      <4>3. u.prev[r[i]] = t.prev[s[i]]
        BY <1>5, <1>9, <1>11, <4>1, <4>2
      <4>4. i # 1 => r[i - 1] = s[i - 1]
        <5>1. i # 1 => i - 1 \in 1..(Len(s) + 1) /\ i - 1 < m
          BY <1>5, <2>3, <3>3
        <5> QED
          BY <2>2, <5>1
      <4> QED
        BY <3>1, <4>1, <4>3, <4>4
    <3>4. CASE i > m
      <4>1. i - 1 \in 1..Len(s) /\ r[i] = s[i - 1] /\ i # 1
        BY <1>5, <2>2, <2>3, <3>4
      <4>2. u.prev[r[i]] = q[s[i - 1]]
        BY <1>5, <1>11, <4>1
      <4>3. CASE i = m + 1
        <5>1. ptr # NULL /\ s[i - 1] = ptr
          <6>1. i - 1 = m /\ m # Len(s) + 1
            BY <1>5, <4>1, <4>3
          <6> QED
            BY <1>7, <6>1
        <5>2. r[i - 1] = b
          <6>1. i - 1 = m /\ m \in 1..(Len(s) + 1) /\ ~(m < m)
            BY <1>5, <4>3
          <6> QED
            BY <2>2, <6>1
        <5> QED
          BY <1>9, <4>1, <4>2, <5>1, <5>2
      <4>4. CASE i # m + 1
        <5>1. s[i - 1] # ptr
          <6>1. ptr # NULL => m \in 1..Len(s) /\ ptr = s[m] /\ m # i - 1
            BY <1>5, <1>7, <4>1, <4>4, SMTT(60)
          <6> QED
            BY <1>4, <1>5, <4>1, <6>1
        <5>2. i - 1 \in 1..(Len(s) + 1) /\ ~(i - 1 < m) /\ i - 1 # m /\ i - 1 # 1
          BY <1>5, <3>4, <4>1, <4>4
        <5>3. r[i - 1] = s[(i - 1) - 1]
          BY <2>2, <5>2
        <5> QED
          BY <1>5, <1>9, <3>1, <4>1, <4>2, <5>1, <5>2, <5>3
      <4> QED
        BY <4>3, <4>4
    <3> QED
      BY <1>5, <2>3, <3>2, <3>3, <3>4
  <2>9. Chained(u, h, r)
    <3>1. Len(r) # 0 /\ \A i, j \in 1..Len(r) : r[i] = r[j] => i = j
      BY <1>5, <2>3, <2>5
    <3> QED
      BY <2>3, <2>4, <2>6, <2>7, <2>8, <3>1 DEF Chained
  <2> QED
    BY <2>9
<1>17. \A g \in Indexes : \E r : Chained(u, g, r)
  <2>1. \A g \in Indexes : \E r : Chained(t, g, r)
    BY DEF TableOK
  <2> QED
    BY <1>15, <1>16, <2>1
<1>18. TableOK(u)
  BY <1>10, <1>11, <1>12, <1>13, <1>14, <1>17 DEF TableOK
<1> QED
  BY <1>2, <1>3, <1>18

\* The table stays one of linked chains when a bucket is taken out.
LEMMA RemoveOK ==
    ASSUME NEW t, TableOK(t), NEW b \in In(t)
    PROVE  TableOK(RemoveHash(t, b)) /\ RemoveHash(t, b).key = Without(t.key, b)
<1>1. PICK u, h, s, p, next, prev :
         /\ u = RemoveHash(t, b) /\ h = Hash[t.key[b]] /\ h \in Indexes /\ Chained(t, h, s)
         /\ p \in 1..Len(s) /\ s[p] = b /\ next = t.next[b] /\ prev = t.prev[b]
  <2>1. PICK h : h = Hash[t.key[b]] /\ h \in Indexes
    BY DEF TableOK, Indexes
  <2>2. PICK s : Chained(t, h, s)
    BY <2>1 DEF TableOK
  <2>3. \E p \in 1..Len(s) : s[p] = b
    BY <2>1, <2>2 DEF Chained
  <2> QED
    BY <2>1, <2>2, <2>3
<1>2. PICK n, q : /\ n = IF prev = NULL THEN t.next ELSE [t.next EXCEPT ![prev] = next]
                  /\ q = IF next = NULL THEN t.prev ELSE [t.prev EXCEPT ![next] = prev]
  OBVIOUS
<1>3. /\ u.base = IF prev = NULL THEN [t.base EXCEPT ![h] = next] ELSE t.base
      /\ u.key = Without(t.key, b) /\ u.next = Without(n, b) /\ u.prev = Without(q, b)
      /\ u.nr = t.nr - 1
  BY <1>1, <1>2 DEF RemoveHash
<1>4. /\ NULL \notin In(t) /\ DOMAIN t.next = In(t) /\ DOMAIN t.prev = In(t)
      /\ t.base = [g \in Indexes |-> t.base[g]] /\ t.next = [a \in In(t) |-> t.next[a]]
      /\ t.prev = [a \in In(t) |-> t.prev[a]]
  BY DEF TableOK, NULL
<1>5. /\ s \in Seq(In(t)) /\ Len(s) \in Nat \ {0} /\ \A i \in 1..Len(s) : s[i] \in In(t)
      /\ \A i, j \in 1..Len(s) : s[i] = s[j] => i = j
  <2>1. s \in Seq(In(t)) /\ \A i, j \in 1..Len(s) : s[i] = s[j] => i = j
    BY <1>1 DEF Chained
  <2> QED
    BY <1>1, <2>1
<1>6. /\ next = IF p = Len(s) THEN NULL ELSE s[p + 1]
      /\ prev = IF p = 1 THEN NULL ELSE s[p - 1]
  BY <1>1 DEF Chained
<1>7. In(u) = In(t) \ {b} /\ \A a \in In(u) : u.key[a] = t.key[a]
  <2>1. PICK f : f = t.key
    OBVIOUS
  <2>2. u.key = Without(f, b)
    BY <1>3, <2>1
  <2>3. DOMAIN Without(f, b) = DOMAIN f \ {b} /\ \A a \in DOMAIN f \ {b} : Without(f, b)[a] = f[a]
    BY DEF Without
  <2> QED
    BY <2>1, <2>2, <2>3 DEF In
<1>8. /\ DOMAIN n = In(t) /\ (prev # NULL => prev \in In(t) /\ n[prev] = next)
      /\ \A a \in In(t) \ {prev} : n[a] = t.next[a]
  <2>1. prev # NULL => prev \in In(t)
    BY <1>1, <1>5, <1>6
  <2> QED
    BY <1>2, <1>4, <2>1
<1>9. /\ DOMAIN q = In(t) /\ (next # NULL => next \in In(t) /\ q[next] = prev)
      /\ \A a \in In(t) \ {next} : q[a] = t.prev[a]
  <2>1. next # NULL => next \in In(t)
    BY <1>1, <1>5, <1>6
  <2> QED
    BY <1>2, <1>4, <2>1
<1>10. u.next = [a \in In(u) |-> u.next[a]] /\ \A a \in In(u) : u.next[a] = n[a]
  <2>1. u.next = Without(n, b)
    BY <1>3
  <2>2. /\ \A a \in DOMAIN n \ {b} : Without(n, b)[a] = n[a]
        /\ Without(n, b) = [a \in DOMAIN n \ {b} |-> Without(n, b)[a]]
    BY DEF Without
  <2> QED
    BY <1>7, <1>8, <2>1, <2>2
<1>11. u.prev = [a \in In(u) |-> u.prev[a]] /\ \A a \in In(u) : u.prev[a] = q[a]
  <2>1. u.prev = Without(q, b)
    BY <1>3
  <2>2. /\ \A a \in DOMAIN q \ {b} : Without(q, b)[a] = q[a]
        /\ Without(q, b) = [a \in DOMAIN q \ {b} |-> Without(q, b)[a]]
    BY DEF Without
  <2> QED
    BY <1>7, <1>9, <2>1, <2>2
<1>12. /\ u.base = [g \in Indexes |-> u.base[g]] /\ \A g \in Indexes \ {h} : u.base[g] = t.base[g]
       /\ u.base[h] = IF prev = NULL THEN next ELSE t.base[h]
  BY <1>1, <1>3, <1>4
<1>13. In(u) \subseteq Nat \ {0} /\ IsFiniteSet(In(u)) /\ u.nr = Cardinality(In(u))
  <2>1. IsFiniteSet(In(t)) /\ t.nr = Cardinality(In(t)) /\ In(t) \subseteq Nat \ {0}
    BY DEF TableOK
  <2>2. IsFiniteSet(In(t) \ {b}) /\ Cardinality(In(t) \ {b}) = Cardinality(In(t)) - 1
    BY <2>1, FS_RemoveElement
  <2> QED
    BY <1>3, <1>7, <2>1, <2>2
<1>14. \A a \in In(u) : u.key[a] \in Keys
  BY <1>7 DEF TableOK
<1>15. ASSUME NEW g \in Indexes, g # h, NEW r, Chained(t, g, r) PROVE Chained(u, g, r)
  <2>1. r \in Seq(In(t)) /\ \A i \in 1..Len(r) : r[i] \in In(t) /\ Hash[t.key[r[i]]] = g
    BY <1>15 DEF Chained
  <2>2. \A i \in 1..Len(s) : Hash[t.key[s[i]]] = h
    BY <1>1, <1>5 DEF Chained
  <2>3. \A i \in 1..Len(r) : r[i] # b /\ r[i] # next /\ r[i] # prev
    <3>1. \A i \in 1..Len(r), j \in 1..Len(s) : r[i] # s[j]
      BY <1>15, <2>1, <2>2
    <3>2. \A i \in 1..Len(r) : r[i] # NULL
      BY <1>4, <2>1
    <3>3. (next = NULL \/ p + 1 \in 1..Len(s)) /\ (prev = NULL \/ p - 1 \in 1..Len(s))
      BY <1>1, <1>5, <1>6
    <3> QED
      BY <1>1, <1>6, <3>1, <3>2, <3>3
  <2>4. r \in Seq(In(u))
    BY <1>7, <2>1, <2>3
  <2>5. \A a \in In(u) : Hash[u.key[a]] = g <=> \E i \in 1..Len(r) : r[i] = a
    BY <1>7, <1>15 DEF Chained
  <2>6. u.base[g] = IF Len(r) = 0 THEN NULL ELSE r[1]
    BY <1>12, <1>15 DEF Chained
  <2>7. \A i \in 1..Len(r) : u.next[r[i]] = t.next[r[i]] /\ u.prev[r[i]] = t.prev[r[i]]
    BY <1>7, <1>8, <1>9, <1>10, <1>11, <2>1, <2>3
  <2> QED
    BY <1>15, <2>4, <2>5, <2>6, <2>7 DEF Chained
<1>16. \E r : Chained(u, h, r)
  <2>1. PICK r : r = [i \in 1..(Len(s) - 1) |-> IF i < p THEN s[i] ELSE s[i + 1]]
    OBVIOUS
  <2>2. \A i \in 1..(Len(s) - 1) : r[i] = (IF i < p THEN s[i] ELSE s[i + 1]) /\ r[i] \in In(u)
    BY <1>1, <1>5, <1>7, <2>1
  <2>3. r \in Seq(In(u)) /\ Len(r) = Len(s) - 1
    BY <1>5, <2>1, <2>2
  <2>4. \A a \in In(u) : Hash[u.key[a]] = h <=> \E i \in 1..Len(r) : r[i] = a
    <3> TAKE a \in In(u)
    <3>1. a # b /\ (Hash[u.key[a]] = h <=> \E i \in 1..Len(s) : s[i] = a)
      BY <1>1, <1>7, ZenonT(60) DEF Chained
    <3>2. ASSUME NEW i \in 1..Len(s), s[i] = a PROVE \E j \in 1..Len(r) : r[j] = a
      <4>1. i # p
        BY <1>1, <3>1, <3>2
      <4>2. CASE i < p
        <5>1. i \in 1..Len(r) /\ r[i] = a
          BY <1>1, <1>5, <2>2, <2>3, <3>2, <4>2
        <5> QED
          BY <5>1
      <4>3. CASE i > p
        <5>1. i - 1 \in 1..Len(r) /\ r[i - 1] = s[i]
          BY <1>1, <1>5, <2>2, <2>3, <4>3
        <5> QED
          BY <3>2, <5>1
      <4> QED
        BY <1>1, <1>5, <4>1, <4>2, <4>3
    <3>3. ASSUME NEW i \in 1..Len(r), r[i] = a PROVE \E j \in 1..Len(s) : s[j] = a
      BY <1>1, <1>5, <2>2, <2>3, <3>3
    <3> QED
      BY <3>1, <3>2, <3>3
  <2>5. \A i, j \in 1..Len(r) : r[i] = r[j] => i = j
    BY <1>1, <1>5, <2>2, <2>3
  <2>6. u.base[h] = IF Len(r) = 0 THEN NULL ELSE r[1]
    <3>1. t.base[h] = s[1]
      BY <1>1, <1>5 DEF Chained
    <3>2. CASE p = 1
      BY <1>1, <1>5, <1>6, <1>12, <2>2, <2>3, <3>2
    <3>3. CASE p # 1
      <4>1. prev # NULL
        BY <1>1, <1>4, <1>5, <1>6, <3>3
      <4> QED
        BY <1>1, <1>5, <1>12, <2>2, <2>3, <3>1, <3>3, <4>1
    <3> QED
      BY <3>2, <3>3
  <2>7. ASSUME NEW i \in 1..Len(r) PROVE u.next[r[i]] = IF i = Len(r) THEN NULL ELSE r[i + 1]
    <3>1. \A j \in 1..Len(s) : t.next[s[j]] = IF j = Len(s) THEN NULL ELSE s[j + 1]
      BY <1>1 DEF Chained
    <3>2. u.next[r[i]] = n[r[i]] /\ r[i] \in In(t)
      BY <1>7, <1>10, <2>2, <2>3
    <3>3. CASE i = p - 1
      <4>1. r[i] = prev /\ prev # NULL
        BY <1>1, <1>4, <1>5, <1>6, <2>2, <2>3, <3>3
      <4> QED
        BY <1>1, <1>5, <1>6, <1>8, <2>2, <2>3, <3>2, <3>3, <4>1
    <3>4. CASE i < p - 1
      <4>1. r[i] = s[i] /\ r[i] # prev /\ i + 1 \in 1..Len(r) /\ r[i + 1] = s[i + 1] /\ i # Len(s)
        BY <1>1, <1>4, <1>5, <1>6, <2>2, <2>3, <3>4
      <4> QED
        BY <1>5, <1>8, <2>3, <3>1, <3>2, <3>4, <4>1, <1>1, SMTT(60)
    <3>5. CASE i >= p
      <4>1. r[i] = s[i + 1] /\ r[i] # prev /\ i + 1 \in 1..Len(s)
        BY <1>1, <1>4, <1>5, <1>6, <2>2, <2>3, <3>5
      <4>2. i # Len(r) => r[i + 1] = s[i + 2]
        <5>1. i # Len(r) => i + 1 \in 1..(Len(s) - 1) /\ ~(i + 1 < p) /\ (i + 1) + 1 = i + 2
          BY <1>1, <1>5, <2>3, <3>5
        <5> QED
          BY <2>2, <5>1
      <4>3. u.next[r[i]] = IF i + 1 = Len(s) THEN NULL ELSE s[i + 2]
        BY <1>8, <3>1, <3>2, <4>1
      <4> QED
        BY <1>5, <2>3, <4>2, <4>3
    <3> QED
      BY <1>1, <1>5, <2>3, <3>3, <3>4, <3>5
  <2>8. ASSUME NEW i \in 1..Len(r) PROVE u.prev[r[i]] = IF i = 1 THEN NULL ELSE r[i - 1]
    <3>1. \A j \in 1..Len(s) : t.prev[s[j]] = IF j = 1 THEN NULL ELSE s[j - 1]
      BY <1>1 DEF Chained
    <3>2. u.prev[r[i]] = q[r[i]] /\ r[i] \in In(t)
      BY <1>7, <1>11, <2>2, <2>3
    <3>3. CASE i = p
      <4>1. r[i] = next /\ next # NULL
        BY <1>1, <1>4, <1>5, <1>6, <2>2, <2>3, <3>3
      <4> QED
        BY <1>1, <1>5, <1>6, <1>9, <2>2, <2>3, <3>2, <3>3, <4>1
    <3>4. CASE i < p
      <4>1. i \in 1..Len(s) /\ i \in 1..(Len(s) - 1) /\ i # p + 1 /\ (p # Len(s) => p + 1 \in 1..Len(s))
        BY <1>1, <1>5, <2>3, <3>4
      <4>2. r[i] = s[i] /\ r[i] # next
        BY <1>4, <1>5, <1>6, <2>2, <3>4, <4>1
      <4>3. i # 1 => r[i - 1] = s[i - 1]
        <5>1. i # 1 => i - 1 \in 1..(Len(s) - 1) /\ i - 1 < p
          BY <1>1, <1>5, <2>3, <3>4
        <5> QED
          BY <2>2, <5>1
      <4>4. u.prev[r[i]] = t.prev[s[i]]
        BY <1>9, <3>2, <4>2
      <4> QED
        BY <3>1, <4>1, <4>3, <4>4
    <3>5. CASE i > p
      <4>1. r[i] = s[i + 1] /\ r[i] # next /\ i + 1 \in 1..Len(s) /\ r[i - 1] = s[i] /\ i # 1
        BY <1>1, <1>4, <1>5, <1>6, <2>2, <2>3, <3>5, SMTT(60)
      <4>2. u.prev[r[i]] = s[i]
        <5>1. t.prev[s[i + 1]] = s[i]
          BY <2>3, <3>1, <4>1
        <5> QED
          BY <1>9, <3>2, <4>1, <5>1
      <4> QED
        BY <4>1, <4>2
    <3> QED
      BY <1>1, <1>5, <2>3, <3>3, <3>4, <3>5
  <2>9. Chained(u, h, r)
    BY <2>3, <2>4, <2>5, <2>6, <2>7, <2>8 DEF Chained
  <2> QED
    BY <2>9
<1>17. \A g \in Indexes : \E r : Chained(u, g, r)
  <2>1. \A g \in Indexes : \E r : Chained(t, g, r)
    BY DEF TableOK
  <2> QED
    BY <1>15, <1>16, <2>1
<1>18. TableOK(u)
  BY <1>10, <1>11, <1>12, <1>13, <1>14, <1>17 DEF TableOK
<1> QED
  BY <1>1, <1>3, <1>18
=============================================================================
