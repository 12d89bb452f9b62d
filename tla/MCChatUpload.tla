---------------------------- MODULE MCChatUpload ----------------------------
(* The plans of the model-checking run. *)
EXTENDS ChatUpload

CONSTANTS c1, c2

MCKeys == {c1, c2}
MCHash == [k \in MCKeys |-> 1]

Of(kind, f, c, name, parts, block, marked) ==
    [kind |-> kind, note |-> f, conn |-> c, name |-> name, parts |-> parts,
     block |-> block, marked |-> marked]

Q(kind, f, c, n, parts, block) == Of(kind, f, c, n, parts, block, {})
Fei(f, c, n, parts, marked)    == Of("Fei", f, c, n, parts, 0, marked)

\* One file of each kind, in one part, two and three.
Singles ==
    {<<Q(k, "f", c1, 1, p, 0)>> : k \in {"Q13", "Fei5"}, p \in {<<2>>, <<1, 2>>, <<1, 1, 1>>}}
    \cup {<<Q("Q14", "f", c1, 1, p, 2)>> : p \in {<<1>>, <<1, 1>>, <<1, 2, 1>>}}
    \cup {<<Q("GOS", "f", c1, 1, p, 2)>> : p \in {<<1>>, <<2, 1>>, <<2, 2, 1>>}}
    \cup {<<Q("GOS", "f", c1, 1, p, 4)>> : p \in {<<2>>, <<4>>, <<4, 1>>, <<4, 4, 3>>}}
    \cup {<<Of(k, "f", c1, 1, <<2>>, 0, m)>> : k \in {"Yahoo", "Blog"}, m \in {{}, {1}}}

\* Fei: one block, a block of two parts, two blocks.
Sessions ==
    {<<Fei("f", c1, 1, <<2>>, {1})>>, <<Fei("f", c1, 1, <<1, 1>>, {2})>>,
     <<Fei("f", c1, 1, <<1, 1, 1>>, {2, 3})>>, <<Fei("f", c1, 1, <<1, 1>>, {1, 2})>>}

\* Two files under one note, over one session, and over two.
Pairs ==
    {<<Q("Q14", "f", c1, 1, <<1, 1>>, 2), Q("GOS", "f", c1, 2, <<2, 1>>, 2)>>,
     <<Q("GOS", "f", c1, 1, <<4, 1>>, 4), Q("GOS", "f", c1, 2, <<2>>, 2)>>,
     <<Q("Q13", "f", c1, 1, <<1>>, 0), Q("Q13", "f", c1, 2, <<1>>, 0)>>,
     <<Fei("f", c1, 1, <<1>>, {1}), Fei("g", c1, 2, <<1, 1>>, {2})>>,
     <<Fei("f", c1, 1, <<1>>, {1}), Fei("g", c2, 2, <<1>>, {1})>>}

AllPlans == Singles \cup Sessions \cup Pairs
=============================================================================
