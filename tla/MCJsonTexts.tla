---------------------------- MODULE MCJsonTexts ----------------------------
(* Uploads, and mails with up to three files. *)
EXTENDS JsonTexts
Lists == {<<>>, <<1>>, <<1, 2>>, <<2, 1, 2>>, <<1, NULL>>, <<NULL>>}
Bytes == {Absent, 0, 1, 1535, 1536, 5000}
Outputs == {[au |-> 1, ft |-> 3, ep |-> 1], [au |-> 2, ft |-> 4, ep |-> 0],
            [au |-> None, ft |-> 3, ep |-> None], [au |-> BadUtf8, ft |-> BadUtf8, ep |-> 2]}
=============================================================================
