----------------------------- MODULE PacketRing -----------------------------
(***************************************************************************)
(* The pool of imembase.c and who uses it.  The packet ring (PacketQueue)  *)
(* keeps each packet in a block of the pool.  Another user allocates,      *)
(* frees and resizes blocks, and makes caches of its own, through the rest *)
(* of the interface of imembase.c.                                         *)
(*                                                                         *)
(* A scene says which of this a behaviour shows: the size classes of a     *)
(* configuration, the pool and its user, or the pool and the ring.         *)
(***************************************************************************)
EXTENDS MemoryPool, PacketQueue

CONSTANTS Scenes,        \* records: a configuration k of SizeClasses, the sizelist of ikmem_init,
                         \* use ("sizes", "user" or "ring"), and, for a user, the sizes it asks
                         \* for (requests), how many blocks it holds (holds), how many calls it
                         \* makes (calls), and whether it only allocates and frees (plain)
          Asks,          \* the requests tried in a scene of sizes
          MaxCreates,    \* how many caches the user makes of its own
          Names,         \* their names
          Faults         \* which allocations may fail, a subset of Allocations

VARIABLES scene,         \* the scene
          defaults,      \* the classes ikmem_init(NULL) sets up for its configuration
          inited,        \* ikmem_inited
          table,         \* ikmem_array and ikmem_lookup
          pool,          \* the pool
          mark,          \* ikmem_water_mark
          held,          \* what was asked for, by the block of the user that answers it
          own,           \* the user's caches: name and links, and the head ikmem_head as 0
          calls,         \* how many calls the user has made
          ask            \* the last request of a scene of sizes and its class

user  == <<table, pool, mark, held, own, inited, calls>>
setting == <<scene, defaults>>
vars  == <<setting, ask, user, queueVars>>

k == scene.k

NoTable == [array |-> <<>>, lookup |-> <<>>]
NoOwn   == [name |-> <<>>, next |-> [c \in {0} |-> 0], prev |-> [c \in {0} |-> 0]]

Init ==
    /\ scene \in Scenes /\ defaults = IkmemInit(scene.k, <<>>)
    /\ inited = FALSE /\ table = NoTable /\ pool = EmptyPool(scene.k)
    /\ mark = 0
    /\ held = <<>> /\ own = NoOwn /\ calls = 0 /\ ask = [size |-> 0, class |-> 0]
    /\ InitQueue

Failing == Faults \cup {0}

\* The pool and its classes after ikmem_init, which ikmem_malloc and ikmem_create call when
\* nobody has.
Classes == IF inited THEN table ELSE defaults
Mark    == IF inited THEN mark ELSE 0
Ready   == IF inited THEN pool ELSE CreateCaches(pool, Classes.array)

Blocks == DOMAIN held
Sought == IF scene.use = "user" THEN scene.requests ELSE {}
Pooled(bs) == {b \in bs : ~IsBig(b)}
Alive == pool.ok /\ ~spoiled

(***************************************************************************)
(* The sizes.                                                              *)
(***************************************************************************)

\* ikmem_init with a list of sizes
InitSizes ==
    /\ Alive /\ ~inited
    /\ inited' = TRUE
    /\ table' \in {IkmemInit(k, scene.sizelist)}
    /\ pool' = CreateCaches(pool, table'.array) /\ mark' = 0
    /\ UNCHANGED <<setting, ask, held, own, calls, queueVars>>

\* The class ikmem_malloc would take a block of this size from.
Ask(size) ==
    /\ scene.use = "sizes" /\ inited
    /\ ask' = [size |-> size, class |-> ClassFor(k, table, size, mark)]
    /\ UNCHANGED <<setting, user, queueVars>>

(***************************************************************************)
(* The user of the pool.                                                   *)
(***************************************************************************)

UserCall ==
    /\ Alive /\ scene.use = "user" /\ calls < scene.calls
    /\ calls' = calls + 1
    /\ UNCHANGED <<setting, ask, queueVars>>

\* ikmem_malloc
UserMalloc(size, f) ==
    \E r \in {Malloc(k, Classes, Ready, size, Mark, f)} :
        /\ UserCall /\ Cardinality(Blocks) < scene.holds
        /\ inited' = TRUE /\ table' = Classes /\ pool' = r.s /\ mark' = Mark
        /\ held' = IF r.at = <<>> THEN held ELSE WithKey(held, r.at, size)
        /\ UNCHANGED own

\* ikmem_free
UserFree(b) ==
    /\ UserCall
    /\ pool' = Free(k, pool, b)
    /\ held' = WithoutKey(held, b)
    /\ UNCHANGED <<inited, table, mark, own>>

\* ikmem_realloc: the assertion on what ikmem_malloc returns ends the process.
UserRealloc(b, size, f) ==
    \E r \in {Malloc(k, table, pool, size, mark, f)}, old \in {PtrSize(pool, b, held[b])} :
        /\ UserCall /\ ~scene.plain
        /\ IF Keeps(old, size)
           THEN pool' = pool /\ held' = [held EXCEPT ![b] = size]
           ELSE IF r.at = <<>> THEN pool' = Dead(r.s) /\ held' = held
           ELSE /\ pool' = Free(k, r.s, b)
                /\ held' = WithKey(WithoutKey(held, b), r.at, size)
        /\ UNCHANGED <<inited, table, mark, own>>

\* ikmem_option
UserOption(size) ==
    /\ UserCall /\ ~scene.plain
    /\ mark' = size
    /\ UNCHANGED <<inited, table, pool, held, own>>

\* The caches on the queue of ikmem_head, from its next on.
RECURSIVE QueueFrom(_, _)
QueueFrom(o, c) == IF c = 0 THEN <<>> ELSE <<c>> \o QueueFrom(o, o.next[c])
Queued(o) == QueueFrom(o, o.next[0])

OwnCaches == DOMAIN own.name

\* iqueue_del
Unlink(o, c) ==
    LET next == [o.next EXCEPT ![o.prev[c]] = o.next[c]]
        prev == [o.prev EXCEPT ![o.next[c]] = o.prev[c]]
    IN  [name |-> WithoutKey(o.name, c), next |-> WithoutKey(next, c), prev |-> WithoutKey(prev, c)]

\* ikmem_create.  iqueue_add_tail is called with its parameters swapped: the head goes into
\* the queue of the new cache, and the caches that were on the head's are off it.
UserCreate(name, size) ==
    LET c     == 100 + Cardinality(OwnCaches)
        class == NewClass(k, Classes, size, ChooseGfp(k, Classes, size))
        taken == \E i \in DOMAIN Queued(own) : own.name[Queued(own)[i]] = name
    IN  /\ UserCall /\ ~scene.plain /\ Cardinality(OwnCaches) < MaxCreates /\ c \notin OwnCaches
        /\ size < k.page
        /\ inited' = TRUE /\ table' = Classes /\ mark' = Mark
        /\ IF taken THEN pool' = Ready /\ own' = own
           ELSE /\ pool' = CreateCache(Ready, c, class)
                /\ own' = [name |-> WithKey(own.name, c, name),
                           next |-> WithKey([own.next EXCEPT ![0] = c], c, 0),
                           prev |-> WithKey([own.prev EXCEPT ![0] = c], c, 0)]
        /\ UNCHANGED held

\* ikmem_cache_alloc
UserCacheAlloc(c, f) ==
    \E r \in {CacheAlloc(k, pool, c, f)} :
        /\ UserCall /\ Cardinality(Blocks) < scene.holds
        /\ pool' = r.s
        /\ held' = IF r.at = <<>> THEN held ELSE WithKey(held, r.at, pool.cache[c].class.obj)
        /\ UNCHANGED <<inited, table, mark, own>>

From(c) == {b \in Pooled(Blocks) : pool.slab[SlabOf(b)].cache = c}

\* ikmem_delete, of a cache nothing is held from
UserDelete(c) ==
    /\ UserCall /\ From(c) = {}
    /\ own' = Unlink(own, c)
    /\ pool' = DestroyCache(k, pool, c)
    /\ UNCHANGED <<inited, table, mark, held>>

\* The loops of ikmem_quit over ikmem_array and of imcache_quit over the caches left, which
\* return their pages to suppliers that are gone.
QuitRest(s, left) ==
    IF \E c \in left : s.cache[c].class.sup # 0 /\ \E p \in DOMAIN s.slab : s.slab[p].cache = c
    THEN Dead(s)
    ELSE FoldLeft(LAMBDA t, ids : DestroyCaches(k, t, ids), s, <<DOMAIN table.array, left>>)

\* ikmem_quit: the caches on the queue first.  What is held is lost.
UserQuit ==
    LET queued == {Queued(own)[i] : i \in DOMAIN Queued(own)}
    IN  /\ UserCall /\ inited
        /\ inited' = FALSE /\ table' = NoTable
        /\ pool' = [QuitRest(DestroyCaches(k, pool, queued), OwnCaches \ queued) EXCEPT !.big = NodeDestroy(@)]
        /\ own' = NoOwn /\ held' = <<>>
        /\ UNCHANGED <<mark>>

(***************************************************************************)
(* The ring.                                                               *)
(***************************************************************************)

Ringing == Alive /\ scene.use = "ring" /\ UNCHANGED <<setting, ask, mark, held, own, calls>>

\* A step of the ring that calls nothing of the pool.
NoCall == Ringing /\ UNCHANGED <<inited, table, pool>>

\* rbuff_putdata with ikmem_malloc, which it only calls for a packet that is valid.
PutMalloc(f) ==
    \E r \in {IF Valid THEN Malloc(k, Classes, Ready, putter.caplen, Mark, f)
                        ELSE [s |-> pool, at |-> NoBlock]} :
        /\ Ringing /\ PutFill(r.at)
        /\ inited' = (inited \/ Valid) /\ table' = (IF Valid THEN Classes ELSE table) /\ pool' = r.s

\* ikmem_free of the block at the head, if there is one
FreeHead ==
    /\ Ringing /\ UNCHANGED <<inited, table>>
    /\ pool' = IF HeadData = NoBlock THEN pool ELSE Free(k, pool, HeadData)

\* rbuff_destroy, with ikmem_free of each block
DestroyFree ==
    /\ Ringing /\ Destroy /\ UNCHANGED <<inited, table>>
    /\ pool' = FoldLeft(LAMBDA s, b : Free(k, s, b), pool, SetToSeq(RingBlocks))

Next ==
    \/ InitSizes
    \/ \E size \in Asks : Ask(size)
    \/ \E f \in Failing :
        \/ \E size \in Sought :
            \/ UserMalloc(size, f)
            \/ \E b \in Blocks : UserRealloc(b, size, f)
        \/ \E c \in OwnCaches : UserCacheAlloc(c, f)
        \/ PutMalloc(f)
    \/ \E b \in Blocks : UserFree(b)
    \/ \E size \in Sought : UserOption(size) \/ \E n \in Names : UserCreate(n, size)
    \/ \E c \in OwnCaches : UserDelete(c)
    \/ UserQuit
    \/ NoCall /\ Create
    \/ NoCall /\ \E caplen \in Caplens : PutWait(caplen)
    \/ NoCall /\ PutDropped
    \/ NoCall /\ PutPost
    \/ NoCall /\ GetWait
    \/ NoCall /\ GetPost
    \/ GetInterrupted /\ FreeHead
    \/ GetTake /\ FreeHead
    \/ DestroyFree

Spec == Init /\ [][Next]_vars

(***************************************************************************)
(* Properties                                                              *)
(***************************************************************************)

\* The lists of slabs, their counters and free_objects, which decide when pages are given
\* back, agree with the slabs, and the lists of nodes under them are whole.
ListsTallied == pool.ok => Tallied(pool) /\ NodesLinked(pool)

\* When the ring is destroyed nothing of the pool is left to it, and when the pool is closed
\* nothing of the process's pages is left to the pool.
AllGivenBack ==
    /\ Alive /\ ~inited => InUse(pool.pages) = {} /\ InUse(pool.headers) = {} /\ DOMAIN pool.cache = {}
    /\ Alive /\ scene.use = "ring" /\ ~Made => pool.magic = DOMAIN pool.slab \ {p \in DOMAIN pool.slab : Len(p) = 1}

\* No object of the pool is in two places or in none, whatever mix of classes, suppliers
\* and arrays it went through: each is on its slab's list, kept for the next call, a page
\* of a smaller class, or one block of one user that is as large as was asked for.
\* And what was taken is given back.
BlocksApart ==
    /\ ListsTallied /\ AllGivenBack
    /\ Alive =>
        /\ Apart(pool, Pooled(Blocks \cup RingBlocks))
        /\ InUse(pool.big) = {b[2] : b \in (Blocks \cup RingBlocks) \ Pooled(Blocks \cup RingBlocks)}
        /\ \A b \in Blocks : PtrSize(pool, b, held[b]) >= held[b]
        /\ \A i \in DOMAIN rbuff.base :
            LET slot == rbuff.base[i]
            IN  slot.data # <<>> => PtrSize(pool, slot.data, slot.caplen) >= slot.caplen
        /\ inited \/ DOMAIN pool.slab = {}

\* Every request is served by a class that fits, the smallest that fits what it is rounded
\* to, and by malloc only when none does; each class's pages come from an earlier class,
\* and hold as many objects as it counts on, whatever the colour.
BestFit ==
    /\ ask.size > 0 =>
        LET fits   == {i \in DOMAIN table.array : table.array[i].obj >= ask.size}
            grain  == IF UpTo(ask.size, k.fine) <= k.fineMax THEN k.fine ELSE k.coarse
            whole  == {i \in fits : table.array[i].obj >= UpTo(ask.size, grain)}
        IN  IF ask.class = 0 THEN fits = {}
            ELSE /\ ask.class \in fits
                 /\ \A i \in whole : table.array[i].obj >= table.array[ask.class].obj
    /\ \A i \in DOMAIN table.array :
        LET c == table.array[i]
        IN  /\ c.sup < i /\ c.num > 0
            /\ \A color \in {n \in 0..c.color : n % k.round = 0 /\ (n < c.color \/ n = 0)} :
                    SlabCount(k, c, color) >= c.num
=============================================================================
