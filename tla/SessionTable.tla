---------------------------- MODULE SessionTable ----------------------------
(***************************************************************************)
(* The hash table of beap_hash.c that sessions are kept in: for each hash  *)
(* a doubly linked chain of buckets.  A table is a record of               *)
(*   base         the first bucket of each chain, NULL if it is empty      *)
(*   key          the key of each bucket in the table                      *)
(*   next, prev   its links                                                *)
(*   nr           nr_entries                                               *)
(* and insert_hash, remove_hash and find_hash are operators on tables.     *)
(* Each is one step here; the code takes no lock around them.              *)
(***************************************************************************)
EXTENDS Integers, Sequences, FiniteSets

CONSTANTS Keys,      \* four-tuples of connections
          Hash       \* session_hash of each key, modulo the table's size

ASSUME SessionTableAssumption == Keys # {} /\ DOMAIN Hash = Keys

NULL == 0                           \* buckets are numbered from 1

Indexes == {Hash[k] : k \in Keys}

\* create_hash
CreateHash == [base |-> [h \in Indexes |-> NULL],
               key |-> <<>>, next |-> <<>>, prev |-> <<>>, nr |-> 0]

In(t) == DOMAIN t.key

With(f, x, v) == [y \in DOMAIN f \cup {x} |-> IF y = x THEN v ELSE f[y]]
Without(f, x) == [y \in DOMAIN f \ {x} |-> f[y]]

\* The buckets that a loop meets, from each bucket along next up to the end.
Along(t) ==
    LET from[b \in In(t) \cup {NULL}] == IF b = NULL THEN <<>> ELSE <<b>> \o from[t.next[b]] IN from

Chain(t, h) == Along(t)[t.base[h]]

\* session_comp in the loops of find_hash and insert_hash: the first bucket with
\* key k on a chain, NULL if there is none.
FirstWith(t, chain, k) ==
    LET Hit(i) == t.key[chain[i]] = k
    IN  IF \E i \in DOMAIN chain : Hit(i)
        THEN chain[CHOOSE i \in DOMAIN chain : Hit(i) /\ \A j \in 1..(i - 1) : ~Hit(j)]
        ELSE NULL

FindHash(t, k) == FirstWith(t, Chain(t, Hash[k]), k)

\* insert_hash: in front of a bucket with the same key, else at the end.
InsertHash(t, b, k) ==
    LET chain == Chain(t, Hash[k])
        ptr   == FirstWith(t, chain, k)
        prev  == IF ptr # NULL THEN t.prev[ptr]
                 ELSE IF chain = <<>> THEN NULL ELSE chain[Len(chain)]
    IN  [base |-> IF prev = NULL THEN [t.base EXCEPT ![Hash[k]] = b] ELSE t.base,
         key  |-> With(t.key, b, k),
         next |-> With(IF prev = NULL THEN t.next ELSE [t.next EXCEPT ![prev] = b], b, ptr),
         prev |-> With(IF ptr = NULL THEN t.prev ELSE [t.prev EXCEPT ![ptr] = b], b, prev),
         nr   |-> t.nr + 1]

\* remove_hash
RemoveHash(t, b) ==
    LET next == t.next[b]
        prev == t.prev[b]
    IN  [base |-> IF prev = NULL THEN [t.base EXCEPT ![Hash[t.key[b]]] = next] ELSE t.base,
         key  |-> Without(t.key, b),
         next |-> Without(IF prev = NULL THEN t.next ELSE [t.next EXCEPT ![prev] = next], b),
         prev |-> Without(IF next = NULL THEN t.prev ELSE [t.prev EXCEPT ![next] = prev], b),
         nr   |-> t.nr - 1]

\* The chains of a table hold its buckets, each once and in the chain of its hash,
\* linked in both directions, and nr_entries counts them.
Linked(t) ==
    /\ t.nr = Cardinality(In(t))
    /\ \A h \in Indexes :
        LET chain == Chain(t, h)
        IN  /\ {chain[i] : i \in DOMAIN chain} = {b \in In(t) : Hash[t.key[b]] = h}
            /\ \A i \in DOMAIN chain :
                  t.prev[chain[i]] = IF i = 1 THEN NULL ELSE chain[i - 1]
=============================================================================
