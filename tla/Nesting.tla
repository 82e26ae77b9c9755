------------------------------- MODULE Nesting -------------------------------
(***************************************************************************)
(* The tree of a text, from the positions of its lexemes alone: which      *)
(* brackets a position is within, and which value another belongs to.      *)
(* jsmn.c keeps no tree, but a token to count in; that these are the same  *)
(* thing is the subject of TokensAreTree in Startup.                       *)
(***************************************************************************)
EXTENDS Jsmn

Opening(q) == js[q].is \in {"{", "["}
Closing(q) == js[q].is \in {"}", "]"}
IsScalar(q) == js[q].is \in {"string", "primitive"}
IsValue(q) == Opening(q) \/ IsScalar(q)

\* How deep the lexeme at q is nested.
Depth(q) == Cardinality({ r \in 1..(q - 1) : Opening(r) })
                - Cardinality({ r \in 1..(q - 1) : Closing(r) })

\* The brackets that are open in front of q.
Within(q) == { o \in 1..(q - 1) : /\ Opening(o)
                                  /\ \A r \in (o + 1)..q : Depth(r) > Depth(o) }

\* What a value at q belongs to: its key, or else the innermost bracket; 0 for
\* nothing.
Parent(q) == IF q > 1 /\ js[q - 1].is = ":" THEN q - 2 ELSE Innermost(Within(q))

\* The values up to n that belong to the one at q.
Children(q, n) == { r \in 1..n : IsValue(r) /\ Parent(r) = q }

\* The token has the type and the text of the lexeme at q.
TokenAt(token, q) ==
    /\ js[q].is = IF token.type \in Containers THEN Opens(token.type) ELSE token.type
    /\ js[q].text = token.text

\* A bracket closes the innermost one, which is of its type.
Matched(q) == \E type \in Containers : /\ js[q].is = Closes(type)
                                       /\ Within(q) # {}
                                       /\ js[Innermost(Within(q))].is = Opens(type)

\* All brackets are closed.
Balanced == /\ \A q \in 1..Len(js) : Closing(q) => Matched(q)
            /\ Within(Len(js) + 1) = {}

\* Something stands between two values, a string in front of a colon, and
\* commas within brackets.
Separated ==
    \A q \in 1..Len(js) :
        /\ IsValue(q) /\ q > 1 => ~IsScalar(q - 1)
        /\ js[q].is = ":" => q > 1 /\ js[q - 1].is = "string"
        /\ js[q].is = "," => Within(q) # {}

\* The members of an object are strings with a value.
MembersNamed ==
    \A q \in 1..Len(js) :
        IsValue(q) /\ Parent(q) # 0 /\ js[Parent(q)].is = "{" =>
            /\ js[q].is = "string"
            /\ q + 2 <= Len(js) /\ js[q + 1].is = ":" /\ IsValue(q + 2)
=============================================================================
