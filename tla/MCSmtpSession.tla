--------------------------- MODULE MCSmtpSession ---------------------------
(* Two connections whose four-tuples hash to the same chain: two mails with every verb  *)
(* and one fault, and three plain mails, which workers that come late overtake.         *)
EXTENDS SmtpSession
OneChain == [k \in Keys |-> 1]

OneWild == {CHOOSE c \in Keys : TRUE}
Every(p) == [pick |-> p, wild |-> OneWild, verbs |-> {"RSET", "BDAT", "STARTTLS"},
             faults |-> {"malloc", "store", "parse", "extract"}, mails |-> 2]
Late == [pick |-> "newest", wild |-> {}, verbs |-> {}, faults |-> {}, mails |-> 3]
TheScenes == {Every("oldest"), Every("newest"), Late}
=============================================================================
