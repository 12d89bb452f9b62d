----------------------------- MODULE MailParts -----------------------------
(***************************************************************************)
(* The parts of a mail: mysmtp of gmime_smtp.c.  write_part goes through   *)
(* the tree that gmime made of the mail (external), writes each leaf into  *)
(* a file and notes the file's name in a list; pro_smtp_jsonstr then makes *)
(* the JSON text of the list.  A part without a file name is taken for the *)
(* text of the mail; the first is named in "plain" and further ones are    *)
(* removed.  A mail inside a mail is one file, not gone through.           *)
(*                                                                         *)
(* A tree is a function: the part at each place, <<>> the root and         *)
(* Append(p, n) the n-th part of the one at p.  A file is known by the     *)
(* place of its part; its uuid makes it unique.  What can fail is memory,  *)
(* a file that cannot be opened or written, and a mail that gmime does not *)
(* parse.                                                                  *)
(***************************************************************************)
EXTENDS Integers, Sequences, FiniteSets

CONSTANTS Messages,   \* trees of parts
          MailFaults  \* what may fail, once

NULL == "NULL"
BadUtf8 == "bad"     \* a name that json_string refuses

\* What gmime makes of a mail: the place of a part tells how to come to it.
IsTree(m) ==
    /\ IsFiniteSet(DOMAIN m) /\ <<>> \in DOMAIN m
    /\ \A p \in DOMAIN m :
          /\ p \in Seq(Nat) /\ m[p].kind \in {"multipart", "message", "part"}
          /\ m[p].parts \in Nat /\ (m[p].kind # "multipart" => m[p].parts = 0)
          /\ \A n \in 1..m[p].parts : Append(p, n) \in DOMAIN m
          /\ \A n \in 1..Len(p) : \E q \in DOMAIN m : q = SubSeq(p, 1, n - 1) /\ p[n] \in 1..m[q].parts

ASSUME MailPartsAssumption ==
    /\ \A m \in Messages : IsTree(m)
    /\ MailFaults \subseteq {"parse", "list", "node", "open", "write", "dump"}

VARIABLES
    message,   \* the mail: its tree of parts
    at,        \* where mysmtp is
    todo,      \* places of the parts still to go through, the next one first
    hasList,   \* init_name_nodelist gave a list
    nodes,     \* the list: file, filename, contentflag
    disk,      \* files written
    streams,   \* files left open
    lost,      \* blocks nobody points at any more
    converted, \* nodes turned into JSON
    objectmsg, \* the object that entries are copied from: its fn
    json,      \* the text: plain, a file or none, and flist
    failed

mailVars == <<message, at, todo, hasList, nodes, disk, streams, lost, converted, objectmsg, json, failed>>

\* The part that write_part is called with.
Part == message[Head(todo)]

Fault(f) == f \in MailFaults /\ failed = NULL /\ failed' = f
NoFault == UNCHANGED failed

InitMail ==
    /\ message \in Messages
    /\ at = "mysmtp" /\ todo = <<>> /\ hasList = FALSE /\ nodes = <<>>
    /\ disk = {} /\ streams = 0 /\ lost = 0 /\ converted = 0
    /\ objectmsg = [fn |-> NULL, fs |-> 0]
    /\ json = [is |-> FALSE, plain |-> {}, flist |-> <<>>]
    /\ failed = NULL

\* mysmtp: the mail is parsed and the list begun.
Mysmtp ==
    /\ at = "mysmtp"
    /\ \/ at' = "write" /\ todo' = <<<<>>>> /\ hasList' = TRUE /\ NoFault
       \/ Fault("list") /\ at' = "write" /\ todo' = <<<<>>>> /\ UNCHANGED hasList
       \/ Fault("parse") /\ at' = "free" /\ hasList' \in {hasList, TRUE} /\ UNCHANGED todo
    /\ UNCHANGED <<message, nodes, disk, streams, lost, converted, objectmsg, json>>

\* write_part of a multipart: each of its parts, in order.
Multipart ==
    /\ at = "write" /\ todo # <<>> /\ Part.kind = "multipart"
    /\ todo' = [n \in 1..Part.parts |-> Append(Head(todo), n)] \o Tail(todo)
    /\ UNCHANGED <<message, at, hasList, nodes, disk, streams, lost, converted, objectmsg, json, failed>>

BlocksOf(node) == 3 + IF node.filename = NULL THEN 0 ELSE 1

\* add_name_nodelist: a node at the end.  If a block cannot be had the ones before it
\* are lost; with no list, the one it begins is not handed back.
AddNameNodelist(node) ==
    \/ hasList /\ nodes' = Append(nodes, node) /\ UNCHANGED lost /\ NoFault
    \/ hasList /\ Fault("node") /\ lost' \in lost..(lost + BlocksOf(node) - 1) /\ UNCHANGED nodes
    \/ ~hasList /\ lost' = lost + BlocksOf(node) + 1 /\ UNCHANGED nodes /\ NoFault

\* write_part of a mail inside the mail: what goes wrong with its file is not noticed.
MessagePart ==
    /\ at = "write" /\ todo # <<>> /\ Part.kind = "message"
    /\ todo' = Tail(todo)
    /\ LET node == [file |-> Head(todo), filename |-> Part.filename, contentflag |-> FALSE]
       IN  \/ AddNameNodelist(node) /\ disk' = disk \cup {node.file}
           \/ hasList /\ Fault("open") /\ nodes' = Append(nodes, node) /\ UNCHANGED <<disk, lost>>
           \/ /\ hasList /\ Fault("write") /\ nodes' = Append(nodes, node)
              /\ disk' = disk \cup {node.file} /\ UNCHANGED lost
    /\ UNCHANGED <<message, at, hasList, streams, converted, objectmsg, json>>

ContentFlag(part) == part.filename = NULL

\* Mutant: a part that cannot be written ends the walk.
LeafPartStopping ==
    /\ at = "write" /\ todo # <<>> /\ Part.kind = "part"
    /\ LET node == [file |-> Head(todo), filename |-> Part.filename,
                    contentflag |-> ContentFlag(Part)]
       IN  \/ /\ AddNameNodelist(node) /\ disk' = disk \cup {node.file} /\ UNCHANGED streams
              /\ todo' = Tail(todo)
           \/ /\ hasList /\ Fault("write") /\ nodes' = Append(nodes, node)
              /\ disk' = disk \cup {node.file} /\ streams' = streams + 1 /\ UNCHANGED lost
              /\ todo' = <<>>
    /\ UNCHANGED <<message, at, hasList, converted, objectmsg, json>>

\* write_part of a leaf.  After a failed write the file is not closed.
LeafPart ==
    /\ at = "write" /\ todo # <<>> /\ Part.kind = "part"
    /\ todo' = Tail(todo)
    /\ LET node == [file |-> Head(todo), filename |-> Part.filename,
                    contentflag |-> ContentFlag(Part)]
       IN  \/ AddNameNodelist(node) /\ disk' = disk \cup {node.file} /\ UNCHANGED streams
           \/ /\ hasList /\ Fault("open") /\ nodes' = Append(nodes, node)
              /\ UNCHANGED <<disk, streams, lost>>
           \/ /\ hasList /\ Fault("write") /\ nodes' = Append(nodes, node)
              /\ disk' = disk \cup {node.file} /\ streams' = streams + 1 /\ UNCHANGED lost
    /\ UNCHANGED <<message, at, hasList, converted, objectmsg, json>>

\* pro_smtp_jsonstr goes along the list; without one it follows a null pointer.
Written ==
    /\ at = "write" /\ todo = <<>>
    /\ at' = IF hasList THEN "json" ELSE "crashed"
    /\ UNCHANGED <<message, todo, hasList, nodes, disk, streams, lost, converted, objectmsg, json, failed>>

\* A text of the mail: the first is named, the others removed.
Content ==
    /\ at = "json" /\ converted < Len(nodes) /\ nodes[converted + 1].contentflag
    /\ converted' = converted + 1
    /\ IF json.plain = {}
       THEN json' = [json EXCEPT !.plain = {nodes[converted + 1].file}] /\ UNCHANGED disk
       ELSE disk' = disk \ {nodes[converted + 1].file} /\ UNCHANGED json
    /\ UNCHANGED <<message, at, todo, hasList, nodes, streams, lost, objectmsg, failed>>

\* Mutant: an attachment without a name gets the name of the one before.
FnKept(node) == IF node.filename \in {BadUtf8, NULL} THEN objectmsg.fn ELSE node.filename

\* An attachment: objectmsg is used again, so a name that is not UTF-8 leaves the name
\* of the entry before.
Fn(node) == IF node.filename = BadUtf8 THEN objectmsg.fn
            ELSE IF node.filename = NULL THEN "" ELSE node.filename

\* smtp_get_file_size: 1 stands for any size; that of no file is not tested.
Attachment ==
    /\ at = "json" /\ converted < Len(nodes) /\ ~nodes[converted + 1].contentflag
    /\ converted' = converted + 1
    /\ LET node == nodes[converted + 1]
       IN  /\ objectmsg' = [fn |-> Fn(node), fs |-> IF node.file \in disk THEN 1 ELSE -1]
           /\ json' = [json EXCEPT !.flist = Append(@, [fp |-> node.file, fn |-> objectmsg'.fn,
                                                        fs |-> objectmsg'.fs])]
    /\ UNCHANGED <<message, at, todo, hasList, nodes, disk, streams, lost, failed>>

\* The text is made; when it cannot be copied, it and the trees are lost.
Finish ==
    /\ at = "json" /\ converted = Len(nodes)
    /\ at' = "free"
    /\ \/ json' = [json EXCEPT !.is = TRUE] /\ NoFault /\ UNCHANGED lost
       \/ Fault("dump") /\ lost' \in {lost, lost + 3} /\ UNCHANGED json
    /\ UNCHANGED <<message, todo, hasList, nodes, disk, streams, converted, objectmsg>>

\* The end of mysmtp, which returns 0 in any case.
FreeNameNodelist ==
    /\ at = "free"
    /\ at' = "done"
    /\ nodes' = <<>> /\ hasList' = FALSE
    /\ UNCHANGED <<message, todo, disk, streams, lost, converted, objectmsg, json, failed>>

NextMail == Mysmtp \/ Multipart \/ MessagePart \/ LeafPart \/ Written
            \/ Content \/ Attachment \/ Finish \/ FreeNameNodelist

MailSpec == InitMail /\ [][NextMail]_mailVars

-----------------------------------------------------------------------------
\* Place p comes before place q in the mail's text: they part somewhere.
Before(p, q) ==
    \E n \in DOMAIN p \cap DOMAIN q : p[n] < q[n] /\ \A m \in 1..(n - 1) : p[m] = q[m]

\* Places of the leaves, of texts of the mail and of attachments.
Leaves      == {p \in DOMAIN message : message[p].kind # "multipart"}
MailTexts   == {p \in Leaves : message[p].kind = "part" /\ message[p].filename = NULL}
Attachments == Leaves \ MailTexts

Done == at = "done" /\ json.is
Named == {json.flist[n].fp : n \in DOMAIN json.flist} \cup json.plain

MailTypeOK ==
    /\ at \in {"mysmtp", "write", "json", "free", "done", "crashed"}
    /\ converted \in 0..Cardinality(Leaves) /\ disk \subseteq Leaves

\* If nothing fails every file on disk is named in the text and every file named there
\* is on disk: nothing is judged that is not there, nothing stays that nobody judges.
DiskIsNamed == (Done /\ failed = NULL) => disk = Named

\* If nothing fails the text names what is on disk and has the mail's attachments in the order of the mail, the
\* first text of the mail in "plain", and each with its own name, if it is UTF-8.
AttachmentsInOrder ==
    /\ DiskIsNamed
    /\ Done /\ failed = NULL =>
        /\ {json.flist[n].fp : n \in DOMAIN json.flist} = Attachments
        /\ \A m, n \in DOMAIN json.flist : m < n => Before(json.flist[m].fp, json.flist[n].fp)
        /\ \A n \in DOMAIN json.flist : \E a \in {message[json.flist[n].fp]} :
              /\ a.filename = NULL => json.flist[n].fn = ""
              /\ a.filename \notin {NULL, BadUtf8} => json.flist[n].fn = a.filename
        /\ json.plain = {t \in MailTexts : \A x \in MailTexts : ~Before(x, t)}

\* At the end the list is freed and nothing is lost or open but what the failure took.
AllReturned ==
    at = "done" =>
        /\ MailTypeOK
        /\ nodes = <<>> /\ ~hasList
        /\ failed \notin {"node", "dump", "list"} => lost = 0
        /\ failed # "write" => streams = 0

\* If one thing goes wrong with one part, the other attachments are still named and on
\* disk, and all is given back but what the failure took.
FailureStaysLocal ==
    /\ AllReturned
    /\ (Done /\ failed \in {"node", "open", "write"}) =>
          Cardinality({a \in Attachments : a \notin Named \cap disk}) <= 1
=============================================================================
