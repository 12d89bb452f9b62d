---------------------------- MODULE MCMailParts ----------------------------
(* Mails of up to four parts and three levels. *)
EXTENDS MailParts

At(part) == [p \in {<<>>} |-> part]
Text    == At([kind |-> "part", filename |-> NULL, parts |-> 0])
File(n) == At([kind |-> "part", filename |-> n, parts |-> 0])
Mail(n) == At([kind |-> "message", filename |-> n, parts |-> 0])

\* The trees of a sequence, put together.
Multi(s) ==
    [p \in {<<>>} \cup UNION {{<<n>> \o q : q \in DOMAIN s[n]} : n \in DOMAIN s} |->
        IF p = <<>> THEN [kind |-> "multipart", filename |-> NULL, parts |-> Len(s)] ELSE s[Head(p)][Tail(p)]]

Leaf == {Text, File("a"), File(BadUtf8), Mail("m"), Mail(NULL)}
UpTo(S, n) == UNION {[1..k -> S] : k \in 0..n}
Flat == {Multi(s) : s \in UpTo(Leaf, 2)}
Mails == Leaf \cup {Multi(s) : s \in UpTo(Leaf \cup Flat, 2)}
         \cup {Multi(<<Multi(<<Multi(<<x, Text>>), y>>), Text>>) : x, y \in Leaf}
=============================================================================
