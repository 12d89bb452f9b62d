---------------------------- MODULE MCPacketRing ----------------------------
(* Instances of PacketRing for TLC. *)
EXTENDS PacketRing

\* The defaults of imembase.c and imembase.h on a 64-bit machine.
Real == [page |-> 65792, shift |-> 16, ptr |-> 8, slab |-> 64, round |-> 8, lowShift |-> 10,
         minShift |-> 2, fib |-> FALSE, fine |-> 4, fineMax |-> 1024, coarse |-> 1024,
         coarseMax |-> 262144, alim |-> 8, pageLimit |-> 8,
         limits |-> <<<<131072, 1>>, <<1024, 24>>, <<256, 56>>, <<0, 120>>>>]

\* A page of 36 units: classes of 34, 18, 8, 4 and 2, the last supplied by the first.
Small == [page |-> 36, shift |-> 5, ptr |-> 2, slab |-> 4, round |-> 2, lowShift |-> 4,
          minShift |-> 1, fib |-> FALSE, fine |-> 2, fineMax |-> 16, coarse |-> 16,
          coarseMax |-> 64, alim |-> 2, pageLimit |-> 1, limits |-> <<<<72, 1>>, <<0, 1>>>>]

Settings == {[k |-> [Real EXCEPT !.fib = f], sizelist |-> l, use |-> "sizes"] :
                f \in BOOLEAN, l \in {<<>>, <<1500, 100, 40000>>}}
User(requests, holds, count, plain) ==
    [k |-> Small, sizelist |-> <<>>, use |-> "user",
     requests |-> requests, holds |-> holds, calls |-> count, plain |-> plain]
Users    == {User({34}, 3, 8, TRUE), User({2, 8}, 4, 6, TRUE), User({2, 18, 60}, 2, 5, FALSE)}
Rings    == {[k |-> Small, sizelist |-> <<>>, use |-> "ring"]}
AllScenes == Settings \cup Users \cup Rings

Boundaries == UNION {{2^i - 1, 2^i, 2^i + 1, 2^i + 8, 2^i + 9} : i \in 3..17}
                \cup {4, 5, 6, 7, 100, 101, 1500, 1501, 1505, 40000, 40001, 65784, 65785}
=============================================================================
