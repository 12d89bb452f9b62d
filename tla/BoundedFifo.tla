---------------------------- MODULE BoundedFifo ----------------------------
(***************************************************************************)
(* What a ring of session_buf.c promises its callers: a channel of at most *)
(* Capacity entries that hands out, in order, exactly what was put.        *)
(***************************************************************************)
EXTENDS Integers, Sequences

CONSTANTS Entry,      \* what is put
          Capacity    \* how many entries wait at most

VARIABLES put,        \* every entry put so far
          got         \* every entry handed out so far

Init == put = <<>> /\ got = <<>>

Put(e) ==
    /\ Len(put) - Len(got) < Capacity
    /\ put' = Append(put, e)
    /\ UNCHANGED got

Get ==
    /\ Len(got) < Len(put)
    /\ got' = Append(got, put[Len(got) + 1])
    /\ UNCHANGED put

Next == (\E e \in Entry : Put(e)) \/ Get

Spec == Init /\ [][Next]_<<put, got>>
=============================================================================
