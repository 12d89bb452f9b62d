------------------------------ MODULE NodePool ------------------------------
(***************************************************************************)
(* IMEMNODE of imembase.c, the pool of numbered nodes that pages, slab     *)
(* headers, caches, mutexes and big blocks are kept in.  Two doubly linked *)
(* lists thread the nodes: the open ones and the closed ones, each by the  *)
(* indexes in mprev and mnext.  A pool is a record of                      *)
(*   vec          the vectors vprev, vnext, vnode, vdata, vmode and vmem   *)
(*   ptr          for each of the first five, the block that mprev ...     *)
(*                mmode point to                                           *)
(*   prev, next   the links;  mode: 1 for a node in use                    *)
(*   free, max    node_free and node_max;  open, close: the list heads     *)
(*   mems, mmax   mem_count and mem_max;  limit: grow_limit                *)
(* and the functions are operators on pools.  Their last parameter says    *)
(* which of the allocations a call makes fails: 0 for none.                *)
(***************************************************************************)
EXTENDS Integers, Sequences, FiniteSets

Links == 1..5                       \* vprev, vnext, vnode, vdata, vmode
Vmem  == 6
Block == 7                          \* the memory of the nodes themselves
Allocations == Links \cup {Vmem, Block}

\* A vector: length, block and which allocation its data is (0: none).
EmptyVector == [length |-> 0, block |-> 0, data |-> 0]

\* The smallest power of two that is at least n.
Block2(n) == CHOOSE b \in {2^i : i \in 0..20} : b >= n /\ (b = 1 \/ b \div 2 < n)

\* iv_resize: the vector and whether it returned 0.
Resize(v, newsize, fails) ==
    IF newsize > v.length /\ newsize <= v.block THEN [v |-> [v EXCEPT !.length = newsize], ok |-> TRUE]
    ELSE LET block == Block2(newsize)
         IN  IF block = v.block THEN [v |-> [v EXCEPT !.length = newsize], ok |-> TRUE]
             ELSE IF fails THEN [v |-> v, ok |-> FALSE]
             ELSE [v |-> [length |-> newsize, block |-> block, data |-> v.data + 1], ok |-> TRUE]

\* imnode_init
NodeInit(limit) ==
    [vec |-> [i \in Links \cup {Vmem} |-> EmptyVector], ptr |-> [i \in Links |-> 0],
     prev |-> <<>>, next |-> <<>>, mode |-> <<>>, free |-> 0, max |-> 0,
     open |-> -1, close |-> -1, mems |-> 0, mmax |-> 0, limit |-> limit]

\* imnode_destroy
NodeDestroy(mn) == NodeInit(mn.limit)

\* imnode_mem_add: `grain` is IMROUNDSIZE.
MemAdd(mn, grain, fails) ==
    LET more == IF mn.mmax <= 0 THEN grain ELSE mn.mmax * 2
        r    == Resize(mn.vec[Vmem], more, fails = Vmem)
        full == mn.mems >= mn.mmax
        mn1  == IF full /\ r.ok THEN [mn EXCEPT !.vec[Vmem] = r.v, !.mmax = more] ELSE mn
    IN  IF (full /\ ~r.ok) \/ fails = Block THEN [mn |-> mn1, ok |-> FALSE]
        ELSE [mn |-> [mn1 EXCEPT !.mems = @ + 1], ok |-> TRUE]

\* imnode_node_resize: the vectors in order up to the first that fails; the pointers to
\* their data are only taken when all have been resized.
NodeResize(mn, size, fails) ==
    LET r    == [i \in Links |-> Resize(mn.vec[i], size, fails = i)]
        ok   == \A i \in Links : r[i].ok
        done == {i \in Links : \A j \in 1..i : r[j].ok}
        vec  == [i \in Links \cup {Vmem} |-> IF i \in done THEN r[i].v ELSE mn.vec[i]]
    IN  [mn |-> IF ok THEN [mn EXCEPT !.vec = vec, !.max = size, !.ptr = [i \in Links |-> vec[i].data]]
                ELSE [mn EXCEPT !.vec = vec],
         ok |-> ok]

\* The loop of imnode_grow: the nodes from `first` on go in front of the open list, the
\* first of them foremost.
Spread(mn, first) ==
    LET last == mn.max - 1
    IN  [mn EXCEPT !.prev = [i \in 0..last |-> IF i = mn.open THEN last
                                               ELSE IF i < first THEN mn.prev[i]
                                               ELSE IF i = first THEN -1 ELSE i - 1],
                   !.next = [i \in 0..last |-> IF i < first THEN mn.next[i]
                                               ELSE IF i = last THEN mn.open ELSE i + 1],
                   !.mode = [i \in 0..last |-> IF i < first THEN mn.mode[i] ELSE 0],
                   !.open = first,
                   !.free = @ + mn.max - first]

\* imnode_grow
Grow(mn, grain, fails) ==
    LET want  == IF mn.max <= 0 THEN grain ELSE mn.max
        count == IF mn.limit > 0 /\ want > mn.limit THEN mn.limit ELSE want
        Sized(m) == IF m.ok THEN NodeResize(m.mn, mn.max + count, fails) ELSE m
        Done(r)  == [r EXCEPT !.mn = IF r.ok THEN Spread(@, mn.max) ELSE @]
    IN  Done(Sized(MemAdd(mn, grain, fails)))

Relink(f, i, v) == IF i >= 0 THEN [f EXCEPT ![i] = v] ELSE f

\* imnode_new, after it has grown the pool if it had to.
TakeOpen(g) ==
    LET m    == g.mn
        node == m.open
        next == m.next[node]
    IN  IF ~g.ok THEN [mn |-> m, index |-> -2]
        ELSE IF m.open < 0 \/ m.free <= 0 THEN [mn |-> m, index |-> -3]
        ELSE [mn |-> [m EXCEPT !.prev = Relink(Relink(Relink(@, next, -1), node, -1), m.close, node),
                               !.next = Relink(@, node, m.close),
                               !.mode[node] = 1,
                               !.open = next, !.close = node, !.free = @ - 1],
              index |-> node]

\* imnode_new: the head of the open list becomes the head of the closed one; a negative
\* index when the pool could not grow.
NodeNew(mn, grain, fails) ==
    TakeOpen(IF mn.open < 0 THEN Grow(mn, grain, fails) ELSE [mn |-> mn, ok |-> TRUE])

\* imnode_del, for an index its assertions accept.
NodeDel(mn, i) ==
    LET next == mn.next[i]
        prev == mn.prev[i]
    IN  [mn EXCEPT !.prev = Relink(Relink(Relink(@, next, prev), i, -1), mn.open, i),
                   !.next = Relink(Relink(@, prev, next), i, mn.open),
                   !.mode[i] = 0,
                   !.close = IF prev >= 0 THEN @ ELSE next,
                   !.open = i, !.free = @ + 1]

\* The assertions of imnode_del.
IsNode(mn, i) == i >= 0 /\ i < mn.max /\ mn.mode[i] = 1

InUse(mn) == {i \in DOMAIN mn.mode : mn.mode[i] = 1}

\* The first n + 1 nodes from i along next, -1 past the end.
Walk(mn, i, n) ==
    LET at[k \in 0..n] == IF k = 0 THEN i ELSE IF at[k - 1] < 0 THEN -1 ELSE mn.next[at[k - 1]]
    IN  at

Threaded(mn, head, nodes) ==
    LET n  == Cardinality(nodes)
        at == Walk(mn, head, n)
    IN  /\ {at[k] : k \in 0..(n - 1)} = nodes
        /\ at[n] = -1
        /\ \A k \in 0..(n - 1) : mn.prev[at[k]] = IF k = 0 THEN -1 ELSE at[k - 1]

\* The open list holds the free nodes and the closed list those in use, each once and
\* linked in both directions, node_free counts the first, and no pointer is stale.
WellLinked(mn) ==
    /\ Threaded(mn, mn.open, DOMAIN mn.mode \ InUse(mn))
    /\ Threaded(mn, mn.close, InUse(mn))
    /\ mn.free = Cardinality(DOMAIN mn.mode \ InUse(mn)) /\ mn.max = Cardinality(DOMAIN mn.mode)
    /\ \A i \in Links : mn.ptr[i] = mn.vec[i].data
=============================================================================
