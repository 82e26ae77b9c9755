----------------------------- MODULE MCStartup ------------------------------
(***************************************************************************)
(* Documents for Startup: those like system1.json, all chips of up to      *)
(* three members, right and wrong, alone and in front of another, and      *)
(* documents that were cut anywhere or have something behind them.         *)
(***************************************************************************)
EXTENDS Documents

Object(members) == Node("object", "", members)
Array(elements) == Node("array", "", elements)
Member(name, value) == Node("string", name, <<value>>)
S(text) == Leaf("string", text)
P == Leaf("primitive", "")

\* What a chip may have for members; "pins" are containers.
ChipMembers ==
    { Member("type", S(t)) : t \in {"6522", "6551", "AY-3-8910", "Z80"} }
    \cup { Member("addr", S(a)) : a \in {"8040", "18020"} }
    \cup { Member("type", P), Member("addr", P), Member("port", S("P1")),
           Member("port", S("chip")),
           Member("pins", Array(<<P, S("6522")>>)),
           Member("pins", Object(<<Member("type", S("6551"))>>)) }

ChipOf(members) == Member("chip", Object(members))

Chip6522 == ChipOf(<<Member("type", S("6522")), Member("addr", S("8040")),
                     Member("port", S("P1"))>>)
Chip6551 == ChipOf(<<Member("type", S("6551")), Member("addr", S("8020"))>>)
ChipAY == ChipOf(<<Member("type", S("AY-3-8910")),
                   Member("pins", Array(<<S("P1"), P>>))>>)

\* Chips of up to n members, most of them wrong in some way.
OddChips(n) == { ChipOf(m) : m \in BoundedSeq(ChipMembers, n) }
                   \cup {Member("chip", S("6522")), Member("chip", P)}

Cpu == Member("cpu", Object(<<Member("type", S("6502")), Member("speed", P)>>))

Others == { Cpu, Chip6522, Chip6551, ChipAY,
            Member("name", S("system1")), Member("name", S("cpu")),
            Member("ram", Object(<<Member("start", S("0000")), Member("end", P)>>)),
            Member("list", Array(<<S("6502"), Object(<<>>)>>)),
            Member("board", Object(<<Chip6522>>)),
            Member("cpu", S("6502")), Member("cpu", Object(<<>>)),
            Member("cpu", Object(<<Member("type", S("Z80"))>>)),
            Member("cpu", Object(<<Member("type", P)>>)),
            Member("cpu", Object(<<Member("bus", Object(<<ChipAY>>)),
                                   Member("type", S("6502"))>>)) }

Like == Object(<<Cpu, Chip6522, Chip6551>>)

Docs == { Object(<<m>>) : m \in OddChips(3) }
    \cup { Object(<<m, Chip6551>>) : m \in OddChips(2) }
    \cup { Object(<<m, n>>) : m, n \in Others }
    \cup { Object(<<>>), Array(<<Object(<<Chip6522>>), P>>), P, Like,
           Object(<<Cpu, Chip6522, Chip6551, ChipAY>>) }

Whole == 100

\* A document, how many lexemes of it are read, at most, and what follows.
Files ==
    [doc : Docs, cut : {Whole}, tail : {<<>>}]
    \cup [doc : {Like}, cut : 0..Whole, tail : {<<>>, <<Lexeme("]")>>}]
    \cup [doc : {Like, Object(<<ChipAY>>)}, cut : {0, Whole},
          tail : { <<Prim>>, <<Str("chip")>>, <<Lexeme(":"), Prim>>,
                   <<Lexeme(":"), Str("chip")>>,
                   <<Lexeme("}")>>, <<Lexeme("[")>>, <<Lexeme("binary")>>,
                   <<Lexeme("quote")>> }]

MCInputs == { [doc |-> f.doc, text |-> Read(f.doc, f.cut, f.tail)] : f \in Files }
=============================================================================
