---------------------------- MODULE MCExtraction ----------------------------
(* The calls of the model-checking runs.  MaxFilesize is 3. *)
EXTENDS Extraction

Full(size)  == [exists |-> TRUE, size |-> size, tika |-> Fields, silent |-> FALSE]
Good        == Full(2)
Bare        == [Good EXCEPT !.tika = {}]
Silent      == [Good EXCEPT !.silent = TRUE]
Missing     == [Good EXCEPT !.exists = FALSE]
Empty       == Full(0)
Big         == Full(5)
Wrapping    == Full(2 * (IntMax + 1) + 1)    \* an int makes it 1

\* The first call is made with every list of up to three files that are kept or
\* dropped, and with every pair of a good file and another one; the others are short.
Lists(files, n) == UNION {[1..k -> files] : k \in 0..n}

Other == {Bare, Silent, Empty, Big, Wrapping}
Pairs == {<<Good, f>> : f \in Other} \cup {<<f, Good>> : f \in Other}
Long  == [prt : {FTP}, files : Lists({Good, Missing}, 3)] \cup [prt : {7}, files : Pairs]
Short == {[prt |-> 7, files |-> <<Good>>]}

LongThenShort == <<Long, Short, Short>>
=============================================================================
