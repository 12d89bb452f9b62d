-------------------------- MODULE MCUploadAssembly --------------------------
(* The plans of the model-checking run. *)
EXTENDS UploadAssembly

Of(kind, file, ends) == [kind |-> kind, file |-> file, ends |-> ends]

Kinds == Appending \cup Positioned

\* One attachment of each kind, in one part, two unequal ones, and three.
Singles == {<<Of(k, "f", p)>> : k \in Kinds, p \in {<<2>>, <<2, 3>>, <<1, 2, 3>>}}

\* Two attachments under the same name: two uploads of one client, or one twice, or one
\* after a longer one.
Pairs ==
    {<<Of(k, "f", <<1, 2>>), Of(l, "f", p)>> :
        k \in Appending, l \in Appending, p \in {<<1>>, <<1, 2>>}}
    \cup {<<Of(k, "f", p), Of(k, "f", p)>> : k \in Positioned, p \in {<<2>>, <<1, 2>>}}
    \cup {<<Of(k, "f", <<2>>), Of(k, "f", <<1>>)>> : k \in Positioned}

AllPlans == Singles \cup Pairs
=============================================================================
