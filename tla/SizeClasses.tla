---------------------------- MODULE SizeClasses ----------------------------
(***************************************************************************)
(* The size classes of imembase.c: which caches ikmem_init sets up, how    *)
(* many objects fit in a page of each, which cache supplies the pages of   *)
(* which (the "GFP-Tree"), and which class serves a request.               *)
(*                                                                         *)
(* A configuration k is a record of                                        *)
(*   page, shift      impage_psize and impage_shift                        *)
(*   ptr, slab, round sizeof(void * ), sizeof(struct IMEMSLAB), IMROUNDSIZE*)
(*   lowShift         the 10 of ikmem_init;  minShift: the 2 of            *)
(*                    ikmem_setup_caches;  fib: IKMEM_USEFIB is defined    *)
(*   fine, fineMax    the step and the end of ikmem_sizemap_l1 (4, 1024)   *)
(*   coarse, coarseMax those of ikmem_sizemap_l2 (1024, 256 << 10)         *)
(*   limits           the limit imcache_calculate gives an object: a       *)
(*                    sequence of <<at least this size, limit>>; a page or *)
(*                    more that is below the first has pageLimit           *)
(*   alim             IMCACHE_ARRAYLIMIT                                   *)
(* and the table of classes one of                                         *)
(*   array    ikmem_array, a sequence of classes                           *)
(*   lookup   ikmem_lookup, a sequence of indexes into it                  *)
(***************************************************************************)
EXTENDS Integers, Sequences, SequencesExt, FiniteSets

UpTo(n, step) == ((n + step - 1) \div step) * step

Up(k, n) == UpTo(n, k.round)                                 \* IMROUNDUP

Unit(k, obj) == Up(k, obj + k.ptr)

\* imcache_calculate: where the slab's header goes, how many objects a page holds and
\* what room is left for colouring.
Calculate(k, obj, page) ==
    LET unit   == Unit(k, obj)
        onslab == unit > Up(k, k.slab) /\ page % unit >= Up(k, k.slab + k.round)
        off    == obj >= page \div 8 /\ ~onslab
        num    == IF off THEN page \div unit ELSE (page - Up(k, k.slab) - k.round) \div unit
        spare  == IF off THEN page - num * unit
                  ELSE page - num * unit - Up(k, k.slab) - k.round
        fits   == {i \in DOMAIN k.limits : unit >= k.limits[i][1]}
        first  == CHOOSE i \in fits : \A j \in fits : i <= j
        limit  == IF first > 1 /\ unit >= page THEN k.pageLimit ELSE k.limits[first][2]
    IN  [off |-> off, num |-> num, color |-> IF spare > unit THEN unit ELSE spare,
         batch |-> (limit + 1) \div 2]

\* imcache_create, as far as the classes go: sup is the index of the supplier, 0 for the
\* pages of the process.  The array of a CPU holds at most `limit` objects.
NewClass(k, table, obj, sup) ==
    LET page  == IF sup = 0 THEN k.page ELSE table.array[sup].obj
        c     == Calculate(k, obj, page)
        free  == c.batch + c.num
        upper == IF free >= k.alim THEN k.alim ELSE free
        limit == IF upper < 2 THEN 2 ELSE upper
    IN  [obj |-> obj, page |-> page, sup |-> sup, off |-> c.off, num |-> c.num,
         color |-> c.color, freeLimit |-> free, limit |-> limit, batch |-> limit \div 2]

\* ikmem_insert
Insert(k, table, obj, sup) ==
    [array  |-> Append(table.array, NewClass(k, table, obj, sup)),
     lookup |-> Append(table.lookup, Len(table.array) + 1)]

\* ikmem_waste
Waste(k, obj, page) ==
    LET c == Calculate(k, obj, page)
    IN  page - Unit(k, obj) * c.num + (IF c.off THEN Up(k, k.slab) ELSE 0)

\* ikmem_cost
RECURSIVE Cost(_, _, _, _)
Cost(k, table, obj, sup) ==
    IF sup = 0 THEN Waste(k, obj, k.page)
    ELSE LET s == table.array[sup]
         IN  Waste(k, obj, s.obj) * s.num + Cost(k, table, s.obj, s.sup)

\* ikmem_choose_gfp: the first of the cheapest suppliers that hold between 8 and 64 units
\* and cost less than a page; 0 for none.
ChooseGfp(k, table, obj) ==
    LET near == {i \in DOMAIN table.array : /\ table.array[i].obj >= Unit(k, obj) * 8
                                            /\ table.array[i].obj <= Unit(k, obj) * 64}
        cost == [i \in near |-> Cost(k, table, obj, i)]
        good == {i \in near : cost[i] < k.page}
        best == {i \in good : \A j \in good : cost[i] <= cost[j]}
    IN  IF good = {} THEN 0 ELSE CHOOSE i \in best : \A j \in best : i <= j

\* Moves the last entry of the lookup table before those of smaller classes, or of equal
\* ones; the first entry never moves.
Sink(table) ==
    LET n     == Len(table.lookup)
        Size(i) == table.array[table.lookup[i]].obj
        stops == {i \in 1..(n - 1) : i = 1 \/ Size(n) < Size(i)}
        at    == CHOOSE i \in stops : \A j \in stops : j <= i
    IN  [table EXCEPT !.lookup = [i \in 1..n |-> IF i <= at THEN @[i]
                                                 ELSE IF i = at + 1 THEN @[n] ELSE @[i - 1]]]

\* ikmem_append: nothing, when a class of that size is there or, if `approxy`, one that is
\* larger by at most an eighth.
AppendClass(k, table, obj, approxy) ==
    IF \E i \in DOMAIN table.array :
            LET o == table.array[i].obj
            IN  o = obj \/ (o > obj /\ approxy /\ o - obj <= obj \div 8)
    THEN table
    ELSE Sink(Insert(k, table, obj, ChooseGfp(k, table, obj)))

\* The sizes below an eighth of a page that ikmem_setup_caches adds when IKMEM_USEFIB is
\* defined.
RECURSIVE FibFrom(_, _, _)
FibFrom(k, fib1, fib2) ==
    IF fib2 >= k.page \div 8 THEN <<>>
    ELSE <<fib1 + fib2>> \o FibFrom(k, fib2, fib1 + fib2)

\* The powers of two (and the others), the largest first.
DefaultSizes(k) ==
    LET powers == [i \in 1..(k.shift - k.minShift + 1) |-> 2^(k.shift - i + 1)]
        fibs   == IF k.fib THEN FibFrom(k, k.round, 2 * k.round) ELSE <<>>
    IN  SortSeq(powers \o fibs, LAMBDA a, b : a > b)

\* ikmem_init: the largest class, one of half, a quarter ... of a page and a pointer, and
\* what ikmem_setup_caches appends, the sizes asked for last.
IkmemInit(k, sizelist) ==
    LET root   == Insert(k, [array |-> <<>>, lookup |-> <<>>], k.page - Up(k, k.ptr), 0)
        low    == IF k.shift - 4 < k.lowShift THEN k.lowShift ELSE k.shift - 4
        halves == [i \in 1..(k.shift - low) |-> 2^(k.shift - i) + k.ptr]
        first  == FoldLeft(LAMBDA t, s : Insert(k, t, s, 0), root, halves)
        setup  == FoldLeft(LAMBDA t, s : AppendClass(k, t, s, TRUE), first, DefaultSizes(k))
    IN  FoldLeft(LAMBDA t, s : AppendClass(k, t, s, FALSE), setup, sizelist)

\* Mutant: the largest class comes last, so the first that fits is not the smallest.
ChooseSizeFromFront(table, size) ==
    LET fits == {i \in DOMAIN table.lookup : table.array[table.lookup[i]].obj >= size}
    IN  IF fits = {} THEN 0
        ELSE table.lookup[CHOOSE i \in fits : \A j \in fits : i <= j]

\* ikmem_choose_size: the last of the lookup table that fits, 0 for none.
ChooseSize(table, size) ==
    LET fits == {i \in DOMAIN table.lookup : table.array[table.lookup[i]].obj >= size}
    IN  IF fits = {} THEN 0
        ELSE table.lookup[CHOOSE i \in fits : \A j \in fits : j <= i]

\* The class ikmem_malloc takes a block from: ikmem_sizemap_l1 up to fineMax, then
\* ikmem_sizemap_l2 below coarseMax, and ikmem_choose_size where they say nothing.
ClassFor(k, table, size, waterMark) ==
    LET fine   == UpTo(size, k.fine)
        coarse == UpTo(size, k.coarse)
        mapped == IF fine <= k.fineMax THEN ChooseSize(table, fine)
                  ELSE IF coarse < k.coarseMax THEN ChooseSize(table, coarse) ELSE 0
    IN  IF waterMark > 0 /\ size > waterMark THEN 0
        ELSE IF mapped = 0 THEN ChooseSize(table, size) ELSE mapped

\* The slab imslab_init makes of a page: how many units fit behind the colour and, when it
\* is in the page, the header.
SlabCount(k, c, color) ==
    LET start == IF c.off THEN color ELSE Up(k, color) + k.slab
    IN  (c.page - start) \div Unit(k, c.obj)
=============================================================================
