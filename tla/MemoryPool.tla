----------------------------- MODULE MemoryPool -----------------------------
(***************************************************************************)
(* The allocator of imembase.c: caches of objects of one size, cut from    *)
(* slabs, which are pages of the process or objects of a larger cache.     *)
(*                                                                         *)
(* A page of the process is <<i>>, its index in impage_node; object i of   *)
(* the slab on page p is Append(p, i); a slab is known by its page.  So an *)
(* address says which slab it is in, all the way down.  The state s is a   *)
(* record of                                                               *)
(*   pages, headers, big   impage_node, imslabset_node, ikmem_node         *)
(*   cache    the caches by id, with their lists and the array of a CPU    *)
(*   slab     the slab on each page that has one                           *)
(*   magic    the objects handed out, which carry IMCACHE_CHECK_MAGIC      *)
(*   ok       FALSE after an assertion has ended the process, or a block   *)
(*            was used that is none                                        *)
(* The lock of the array of CPU 0, the only one used (current_cpu is NULL),*)
(* is held through each call on a cache, and a cache takes the lock of its *)
(* supplier inside, so a call is one step.  `f` says which allocation      *)
(* fails in it, as in NodePool.                                            *)
(***************************************************************************)
EXTENDS SizeClasses, NodePool

SlabOf(p) == Front(p)
UnitOf(p) == Last(p)

WithKey(f, x, v) == [y \in DOMAIN f \cup {x} |-> IF y = x THEN v ELSE f[y]]
WithoutKey(f, x) == [y \in DOMAIN f \ {x} |-> f[y]]

EmptyPool(k) ==
    [pages |-> NodeInit(32), headers |-> NodeInit(0), big |-> NodeInit(0),
     cache |-> <<>>, slab |-> <<>>, magic |-> {}, ok |-> TRUE]

\* imcache_create and imcache_list_init for one class: nothing in any list.
NewCache(class) ==
    [class |-> class, array |-> <<>>, partial |-> <<>>, full |-> <<>>, free |-> <<>>,
     npartial |-> 0, nfull |-> 0, nfree |-> 0, objects |-> 0, colorNext |-> 0, refcnt |-> 0]

CreateCache(s, id, class) ==
    LET s1 == [s EXCEPT !.cache = WithKey(@, id, NewCache(class))]
    IN  IF class.sup = 0 THEN s1 ELSE [s1 EXCEPT !.cache[class.sup].refcnt = @ + 1]

\* The caches of a table of classes.
CreateCaches(s, array) ==
    FoldLeft(LAMBDA t, i : CreateCache(t, i, array[i]), s, [i \in DOMAIN array |-> i])

Dead(s) == [s EXCEPT !.ok = FALSE]

RECURSIVE CacheAlloc(_, _, _, _), CacheFree(_, _, _)

\* impage_alloc
PageNew(s, r) ==
    IF r.index < 0 THEN [s |-> Dead([s EXCEPT !.pages = r.mn]), at |-> <<>>]
    ELSE [s |-> [s EXCEPT !.pages = r.mn], at |-> <<r.index>>]

\* imgfp_alloc_page
AllocPage(k, s, c, f) ==
    IF s.cache[c].class.sup # 0 THEN CacheAlloc(k, s, s.cache[c].class.sup, f)
    ELSE PageNew(s, NodeNew(s.pages, k.round, f))

\* impage_free
PageDel(s, p) == IF IsNode(s.pages, p[1]) THEN [s EXCEPT !.pages = NodeDel(@, p[1])] ELSE Dead(s)

\* imgfp_free_page
FreePage(k, s, c, p) == IF s.cache[c].class.sup # 0 THEN CacheFree(k, s, p) ELSE PageDel(s, p)

\* imslabset_new
HeaderNew(k, s, f) == NodeNew(s.headers, k.round, f)

\* imslabset_del
HeaderDel(s, i) == IF IsNode(s.headers, i) THEN [s EXCEPT !.headers = NodeDel(@, i)] ELSE Dead(s)

\* imslab_init: the units of a page, in order.
SlabInit(k, class, color) == [i \in 1..SlabCount(k, class, color) |-> i]

\* imcache_slab_create on the page of pg; h is a node of imslabset_node, which holds the
\* header of the slab if the class says "off slab".
Carve(k, pg, c, h) ==
    LET class == pg.s.cache[c].class
        color == pg.s.cache[c].colorNext
        units == SlabInit(k, class, color)
        next  == IF color + k.round >= class.color THEN 0 ELSE color + k.round
        slab  == [cache |-> c, header |-> IF class.off THEN h.index ELSE -1, inuse |-> 0,
                  bufctl |-> units]
    IN  IF (class.off /\ h.index < 0) \/ units = <<>> THEN [s |-> Dead(pg.s), at |-> pg.at]
        ELSE [s |-> [pg.s EXCEPT !.headers = IF class.off THEN h.mn ELSE @,
                                 !.slab = WithKey(@, pg.at, slab),
                                 !.cache[c].colorNext = next],
              at |-> pg.at]

\* imcache_slab_create
SlabCreate(k, s, c, f) ==
    LET On(pg) == IF pg.s.ok THEN Carve(k, pg, c, HeaderNew(k, pg.s, f)) ELSE pg
    IN  On(AllocPage(k, s, c, f))

\* imcache_slab_destry; what is handed out of the slab is lost.
SlabDestroy(k, s, c, p) ==
    LET gone == {q \in s.magic : SlabOf(q) = p}
        s1   == FreePage(k, [s EXCEPT !.slab = WithoutKey(@, p), !.magic = @ \ gone], c, p)
    IN  IF s.cache[c].class.off THEN HeaderDel(s1, s.slab[p].header) ELSE s1

Drop(seq, p) == SelectSeq(seq, LAMBDA q : q # p)

\* imslab_alloc
SlabAlloc(slab) == [slab EXCEPT !.bufctl = Tail(@), !.inuse = @ + 1]

\* imslab_free
SlabFree(slab, i) == [slab EXCEPT !.bufctl = <<i>> \o @, !.inuse = @ - 1]

\* The first half of imcache_list_alloc: a partial slab, else a free one, else a new one,
\* at the front of the partial ones.
PartialSlab(k, s, c, f) ==
    LET l == s.cache[c]
        p == Head(l.free)
        Fresh(r) == IF ~r.s.ok THEN r
                    ELSE [r EXCEPT !.s.cache[c].objects = @ + Len(r.s.slab[r.at].bufctl),
                                   !.s.cache[c].partial = <<r.at>>, !.s.cache[c].npartial = @ + 1]
    IN  IF l.partial # <<>> THEN [s |-> s, at |-> Head(l.partial)]
        ELSE IF l.free # <<>>
             THEN [s |-> [s EXCEPT !.cache[c].free = Tail(@), !.cache[c].nfree = @ - 1,
                                   !.cache[c].partial = <<p>>, !.cache[c].npartial = @ + 1],
                   at |-> p]
        ELSE Fresh(SlabCreate(k, s, c, f))

\* imcache_list_alloc
ListAlloc(k, s, c, f) ==
    LET From(r) ==
            LET slab == r.s.slab[r.at]
                s1   == [r.s EXCEPT !.slab[r.at] = SlabAlloc(@),
                                    !.cache[c].objects = IF @ > 0 THEN @ - 1 ELSE @]
            IN  [s  |-> IF Len(slab.bufctl) > 1 THEN s1
                        ELSE [s1 EXCEPT !.cache[c].partial = Drop(@, r.at), !.cache[c].npartial = @ - 1,
                                        !.cache[c].full = <<r.at>> \o @, !.cache[c].nfull = @ + 1],
                 at |-> Append(r.at, Head(slab.bufctl))]
        Take(r) == IF r.s.ok THEN From(r) ELSE r
    IN  Take(PartialSlab(k, s, c, f))

\* imcache_list_free.  Its own drain is never taken: imcache_create sets NODRAIN.
ListFree(s, q) ==
    LET p    == SlabOf(q)
        c    == s.slab[p].cache
        full == s.slab[p].bufctl = <<>>
        s1   == IF ~full THEN s
                ELSE [s EXCEPT !.cache[c].full = Drop(@, p), !.cache[c].nfull = @ - 1,
                               !.cache[c].partial = Append(@, p), !.cache[c].npartial = @ + 1]
        s2   == [s1 EXCEPT !.slab[p] = SlabFree(@, UnitOf(q)), !.cache[c].objects = @ + 1]
    IN  IF s2.slab[p].inuse > 0 THEN s2
        ELSE [s2 EXCEPT !.cache[c].partial = Drop(@, p), !.cache[c].npartial = @ - 1,
                        !.cache[c].free = <<p>> \o @, !.cache[c].nfree = @ + 1]

\* imcache_fill_batch
RECURSIVE FillBatch(_, _, _, _)
FillBatch(k, s, c, f) ==
    LET More(r) == IF r.s.ok THEN FillBatch(k, [r.s EXCEPT !.cache[c].array = Append(@, r.at)], c, f)
                   ELSE r.s
    IN  IF Len(s.cache[c].array) >= s.cache[c].class.batch THEN s ELSE More(ListAlloc(k, s, c, f))

\* imcache_alloc, with imcache_set_magic
CacheAlloc(k, s, c, f) ==
    LET Last1(s1) == Last(s1.cache[c].array)
        Hand(s1)  == IF ~s1.ok THEN [s |-> s1, at |-> <<>>]
                     ELSE [s  |-> [s1 EXCEPT !.cache[c].array = Front(@), !.magic = @ \cup {Last1(s1)}],
                           at |-> Last1(s1)]
    IN  Hand(IF s.cache[c].array = <<>> THEN FillBatch(k, s, c, f) ELSE s)

\* imcache_drain_list: slabs from the end of one list, at most n of them (all, if n < 0).
RECURSIVE Drain(_, _, _, _, _)
Drain(k, s, c, n, list) ==
    LET l == s.cache[c]
        p == Last(l[list])
        s1 == [s EXCEPT !.cache[c][list] = Front(@),
                        !.cache[c].objects = IF list = "free" THEN @ - Len(s.slab[p].bufctl) ELSE @,
                        !.cache[c].nfree    = IF list = "free" THEN @ - 1 ELSE @,
                        !.cache[c].nfull    = IF list = "full" THEN @ - 1 ELSE @,
                        !.cache[c].npartial = IF list = "partial" THEN @ - 1 ELSE @]
    IN  IF l[list] = <<>> \/ n = 0 THEN s
        ELSE Drain(k, SlabDestroy(k, s1, c, p), c, n - 1, list)

\* The loops of imcache_free and imcache_destroy: objects of the array back to their slabs
\* until `left` remain.
RECURSIVE Flush(_, _, _)
Flush(s, c, left) ==
    LET a == s.cache[c].array
    IN  IF Len(a) <= left THEN s
        ELSE Flush(ListFree([s EXCEPT !.cache[c].array = Front(@)], Last(a)), c, left)

\* imcache_free, with imcache_check_magic
CacheFree(k, s, q) ==
    LET c  == s.slab[SlabOf(q)].cache
        l  == s.cache[c]
        s1 == [s EXCEPT !.magic = @ \ {q}]
        Settle(s2) == IF s2.cache[c].objects >= l.class.freeLimit /\ s2.cache[c].nfree > 1
                      THEN Drain(k, s2, c, s2.cache[c].nfree \div 2, "free") ELSE s2
    IN  IF q \notin s.magic THEN Dead(s)
        ELSE IF Len(l.array) < l.class.limit THEN [s1 EXCEPT !.cache[c].array = Append(@, q)]
        ELSE Settle(ListFree(Flush(s1, c, l.class.batch), q))

\* imcache_list_destroy: every page goes back to the supplier, those in use too.
ListDestroy(k, s, c) ==
    FoldLeft(LAMBDA t, list : Drain(k, t, c, -1, list), s, <<"free", "full", "partial">>)

\* The end of imcache_destroy and imcache_release.
Retire(s, c) ==
    LET sup == s.cache[c].class.sup
        s1  == [s EXCEPT !.cache = WithoutKey(@, c)]
    IN  IF sup \in DOMAIN s.cache THEN [s1 EXCEPT !.cache[sup].refcnt = @ - 1] ELSE s1

\* imcache_destroy, and imcache_release: what is in the array goes back to its slabs first.
DestroyCache(k, s, c) == Retire(ListDestroy(k, Flush(s, c, 0), c), c)

\* ikmem_quit for the caches of ikmem_array, the last first.
DestroyCaches(k, s, ids) ==
    FoldLeft(LAMBDA t, c : DestroyCache(k, t, c), s, SortSeq(SetToSeq(ids), LAMBDA a, b : a > b))

\* A block of malloc's is <<-1, i>> for node i of ikmem_node; <<>> is NULL.
IsBig(at) == at[1] = -1

\* ikmem_malloc.  A request of less than 4 bytes fails an assertion.
Malloc(k, table, s, size, waterMark, f) ==
    LET c == ClassFor(k, table, size, waterMark)
        Big(r) == IF r.index < 0 THEN [s |-> Dead([s EXCEPT !.big = r.mn]), at |-> <<>>]
                  ELSE [s |-> [s EXCEPT !.big = r.mn], at |-> <<-1, r.index>>]
    IN  IF size < k.fine THEN [s |-> Dead(s), at |-> <<>>]
        ELSE IF c # 0 THEN CacheAlloc(k, s, c, f)
        ELSE IF f = Block THEN [s |-> s, at |-> <<>>]
        ELSE Big(NodeNew(s.big, k.round, f))

\* ikmem_free
Free(k, s, at) ==
    IF ~IsBig(at) THEN CacheFree(k, s, at)
    ELSE IF ~IsNode(s.big, at[2]) THEN Dead(s)
    ELSE [s EXCEPT !.big = NodeDel(@, at[2])]

\* ikmem_ptr_size of a block that was asked for with `size`
PtrSize(s, at, size) == IF IsBig(at) THEN size ELSE s.cache[s.slab[SlabOf(at)].cache].class.obj

\* Mutant: any block that is not much too large is kept.
KeepsSmall(old, size) == old * 3 < size * 4

\* ikmem_realloc keeps a block that is large enough, and less than a third too large.
Keeps(old, size) == old >= size /\ old * 3 < size * 4

(***************************************************************************)
(* What holds of a pool between calls.                                     *)
(***************************************************************************)

InSlab(s, c, list) == {s.cache[c][list][i] : i \in DOMAIN s.cache[c][list]}
Objects(s, p) == {Append(p, i) : i \in 1..(Len(s.slab[p].bufctl) + s.slab[p].inuse)}
Idle(s, p)    == {Append(p, s.slab[p].bufctl[i]) : i \in DOMAIN s.slab[p].bufctl}
Cached(s, c)  == {s.cache[c].array[i] : i \in DOMAIN s.cache[c].array}

\* Each object of each slab is on its slab's list, in its cache's array or handed out, one
\* of the three, and never twice; what is handed out is a page of another slab or a block
\* of `held`, not both; and pages of the process are in use where a slab is on them.
Apart(s, held) ==
    LET roots    == {p \in DOMAIN s.slab : Len(p) = 1}
        inside   == DOMAIN s.slab \ roots
        cached   == UNION {Cached(s, c) : c \in DOMAIN s.cache}
    IN  /\ s.magic = held \cup inside /\ held \cap inside = {}
        /\ InUse(s.pages) = {p[1] : p \in roots}
        /\ InUse(s.headers) = {s.slab[p].header : p \in DOMAIN s.slab} \ {-1}
        /\ \A c \in DOMAIN s.cache : Cardinality(Cached(s, c)) = Len(s.cache[c].array)
        /\ \A p \in DOMAIN s.slab :
            LET objs == Objects(s, p)
                out  == {q \in s.magic : SlabOf(q) = p}
                idle == Idle(s, p)
                kept == {q \in cached : SlabOf(q) = p}
            IN  /\ objs = out \cup idle \cup kept
                /\ Cardinality(objs) = Cardinality(out) + Cardinality(idle) + Cardinality(kept)
                /\ kept \subseteq Cached(s, s.slab[p].cache)
                /\ s.cache[s.slab[p].cache].class.num <= Cardinality(objs)

\* Each slab is on the list of its cache that its state calls for, the counters are the
\* lengths of the lists, free_objects counts the objects on the slabs' lists, the array
\* keeps its limit, and refcnt counts the caches supplied.
Tallied(s) ==
    \A c \in DOMAIN s.cache :
        LET l    == s.cache[c]
            mine == {p \in DOMAIN s.slab : s.slab[p].cache = c}
            Where(list, P(_)) == InSlab(s, c, list) = {p \in mine : P(s.slab[p])}
        IN  /\ Where("full", LAMBDA b : b.bufctl = <<>>)
            /\ Where("free", LAMBDA b : b.inuse = 0)
            /\ Where("partial", LAMBDA b : b.bufctl # <<>> /\ b.inuse > 0)
            /\ l.nfull = Len(l.full) /\ l.npartial = Len(l.partial) /\ l.nfree = Len(l.free)
            /\ l.nfull + l.npartial + l.nfree = Cardinality(mine)
            /\ l.objects = Cardinality(UNION {Idle(s, p) : p \in mine})
            /\ Len(l.array) <= l.class.limit
            /\ l.refcnt = Cardinality({d \in DOMAIN s.cache : s.cache[d].class.sup = c})

\* The pools of nodes under it are well linked.
NodesLinked(s) == WellLinked(s.pages) /\ WellLinked(s.headers) /\ WellLinked(s.big)
=============================================================================
