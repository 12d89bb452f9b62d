--------------------------- MODULE MCDlpPipeline ---------------------------
(* The requests of the model-checking run. *)
EXTENDS DlpPipeline

Post(u, s, p) == [headers |-> TRUE, info |-> TRUE, method |-> "POST", url |-> u,
                  size |-> s, preview |-> p]

Upload == Post({"8080", "/upload"}, 2, 1)
Plain  == Post({"mail", "163.com", "compose"}, 1, 1)

\* One request for each way out of the preview handler: a gated upload, a mail that
\* is not gated, no headers, nothing of interest, and no preview.
Ways ==
    {Upload, Plain, [Upload EXCEPT !.headers = FALSE], Post({"mail"}, 1, 1),
     Post({"8080", "/upload"}, 1, 0)}
=============================================================================
