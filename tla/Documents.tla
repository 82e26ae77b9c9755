------------------------------ MODULE Documents ------------------------------
(***************************************************************************)
(* What the start of the program makes of a document: what jsmn.c and      *)
(* cfg.c read is compared with the tree, which the tokens do not carry,    *)
(* only counts.  A node is a token and its kids: a key has its value as    *)
(* its only kid.  The circuit that a document declares (Declared) and      *)
(* whether it is wrong (Rejected) are defined over the tree.               *)
(***************************************************************************)
EXTENDS Startup, SequencesExt

Leaf(type, text) == [type |-> type, text |-> text, kids |-> <<>>]
Node(type, text, kids) == [type |-> type, text |-> text, kids |-> kids]

RECURSIVE Text(_), Preorder(_)

\* The text of nodes that follow each other, as lexemes.
Text(nodes) ==
    IF nodes = <<>> THEN <<>>
    ELSE LET node == Head(nodes)
             kids == Text(node.kids)
         IN  (CASE node.type \in Containers ->
                     <<Lexeme(Opens(node.type))>> \o kids \o <<Lexeme(Closes(node.type))>>
                [] node.type = "primitive" -> <<Prim>>
                [] OTHER -> IF kids = <<>> THEN <<Str(node.text)>>
                            ELSE <<Str(node.text), Lexeme(":")>> \o kids)
             \o (IF Len(nodes) = 1 THEN <<>> ELSE <<Lexeme(",")>> \o Text(Tail(nodes)))
TextOf(d) == Text(<<d>>)

\* All nodes from these downwards, in the order of the text.
Preorder(nodes) ==
    IF nodes = <<>> THEN <<>>
    ELSE <<Head(nodes)>> \o Preorder(Head(nodes).kids) \o Preorder(Tail(nodes))
NodesOf(d) == Preorder(<<d>>)

\* The token stands for the node, with the number of its kids.
StandsFor(token, node) ==
    /\ token.type = node.type /\ token.text = node.text
    /\ token.size = Len(node.kids) /\ ~token.open

Kids(node) == { node.kids[i] : i \in 1..Len(node.kids) }
IsKey(node, name) == node.type = "string" /\ node.text = name /\ node.kids # <<>>
Members(key, name) == SelectSeq(key.kids[1].kids, LAMBDA k : IsKey(k, name))
ValueOf(key) == key.kids[1].text

\* The chip that a member "chip" declares.
ChipAt(key) ==
    LET addrs == Members(key, "addr")
        type == ValueOf(Members(key, "type")[1])
    IN  [type |-> type, regsize |-> RegSize(type),
         address |-> IF addrs = <<>> THEN Unassigned
                     ELSE Address(ValueOf(Last(addrs)))]

\* The chips it declares, in its order.  One without a type is no chip.
Declared(d) ==
    LET IsChip(node) == IsKey(node, "chip") /\ Members(node, "type") # <<>>
        keys == SelectSeq(NodesOf(d), IsChip)
    IN  [i \in 1..Len(keys) |-> ChipAt(keys[i])]

OneOf(key, texts) == key.kids[1].type = "string" /\ ValueOf(key) \in texts

\* A cpu is an object with no type but "6502", a chip one with exactly one
\* type, that of a chip there is, and each addr a string behind it.
WrongCpu(key) ==
    \/ key.kids[1].type # "object"
    \/ \E k \in Kids(key.kids[1]) : IsKey(k, "type") /\ ~OneOf(k, {"6502"})

WrongChip(key) ==
    \/ key.kids[1].type # "object"
    \/ Len(Members(key, "type")) > 1
    \/ LET ks == key.kids[1].kids IN \E i \in 1..Len(ks) :
         \/ IsKey(ks[i], "type") /\ ~OneOf(ks[i], ChipTypes)
         \/ IsKey(ks[i], "addr") /\ \/ ks[i].kids[1].type # "string"
                                    \/ ~ \E j \in 1..(i - 1) : IsKey(ks[j], "type")

Rejected(d) ==
    \E node \in Range(NodesOf(d)) : \/ IsKey(node, "cpu") /\ WrongCpu(node)
                                    \/ IsKey(node, "chip") /\ WrongChip(node)

\* No string that is a value or an element reads as a keyword.
NoReservedValue(d) ==
    \A node \in Range(NodesOf(d)) :
        node.type = "string" /\ node.kids = <<>> => node.text \notin Keywords

\* No chip has a container for a value, except that of its last member.
FlatChips(d) ==
    \A node \in Range(NodesOf(d)) : IsKey(node, "chip") =>
        LET ks == node.kids[1].kids
        IN  \A i \in 1..(Len(ks) - 1) : \A v \in Kids(ks[i]) : v.type \notin Containers

-----------------------------------------------------------------------------
\* The text is read up to a limit; what stands in jbuffer behind it was never
\* written, so that the text goes on with whatever is found there.
Read(d, cut, tail) ==
    LET text == TextOf(d)
    IN  (IF cut < Len(text) THEN SubSeq(text, 1, cut) ELSE text) \o tail

-----------------------------------------------------------------------------
(***************************************************************************)
(* Properties.                                                             *)
(***************************************************************************)

\* The file was not empty, and what is found behind its text does not begin
\* with a colon, which would make it the child of the last token.
NothingAdded ==
    LET text == TextOf(doc)
    IN  /\ js # <<>> /\ js[1] = text[1]
        /\ Len(js) > Len(text) => js[Len(text) + 1].is # ":"

\* When jsmn_parse succeeds, the tokens are those of the document, each with
\* the number of its children, whatever the nesting; what stands behind the
\* text adds tokens at the end and changes no count.
TokensOfTree ==
    jtk = "count" /\ NothingAdded =>
        LET nodes == NodesOf(doc)
        IN  /\ Len(nodes) <= Len(tokens)
            /\ \A i \in 1..Len(nodes) : StandsFor(tokens[i], nodes[i])

\* The circuit is the one that the document declares, in its order and with
\* its addresses, and a document is turned down exactly when it is wrong:
\* through three functions that share one token pointer, for every document
\* whose chips are flat and whose values are no keywords.
ChipsAsDeclared ==
    NothingAdded /\ FlatChips(doc) /\ NoReservedValue(doc) =>
        /\ cres = "0" => ~Rejected(doc) /\ circuit = Declared(doc)
        /\ cres = "EINVAL" /\ jtk = "count" => Rejected(doc)
=============================================================================
