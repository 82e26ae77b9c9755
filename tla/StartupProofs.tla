---------------------------- MODULE StartupProofs ----------------------------
(***************************************************************************)
(* Proofs about Startup, for every text and every length of the token      *)
(* array: the tokenizer keeps the counts within the tokens, the reader its *)
(* pointer and its chips, and main makes everything ready, in its order,   *)
(* before there is a thread that could see it.  The tokens are the tree of *)
(* the text, the pointer stays among them, and all of it comes to an end.  *)
(***************************************************************************)
EXTENDS Startup, TLAPS, WellFoundedInduction, FiniteSetTheorems

\* A set of natural numbers that is not empty has a least one.
LEMMA Least ==
    ASSUME NEW T \in SUBSET Nat, T # {}
    PROVE  \E x \in T : \A y \in T : x <= y
<1> DEFINE R == OpToRel(<, Nat)
<1>1. IsWellFoundedOn(R, Nat)
    BY NatLessThanWellFounded
<1>2. \A x, y \in Nat : x < y => <<x, y>> \in R
    BY DEF OpToRel
<1> HIDE DEF R
<1>3. PICK x \in T : \A y \in T : ~(<<y, x>> \in R)
    BY <1>1, WFMin
<1>4. ASSUME NEW y \in T PROVE x <= y
    <2>1. x \in Nat /\ y \in Nat
        OBVIOUS
    <2>2. ~(y < x)
        BY <1>2, <1>3, <2>1
    <2> QED BY <2>1, <2>2
<1> QED
    BY <1>3, <1>4

\* Max, which is a choice, is the greatest of a set of token numbers.
LEMMA MaxIs ==
    ASSUME NEW n \in Nat, NEW S \in SUBSET (1..n), S # {}
    PROVE  Max(S) \in S /\ \A y \in S : y <= Max(S)
<1> DEFINE T == { n - x : x \in S }
<1>1. T \in SUBSET Nat /\ T # {}
    <2>1. \A x \in S : x \in Int /\ 1 <= x /\ x <= n
        OBVIOUS
    <2>2. \A x \in S : n - x \in Nat
        BY <2>1
    <2> QED BY <2>2
<1> HIDE DEF T
<1>2. PICK t \in T : \A y \in T : t <= y
    BY <1>1, Least
<1>3. PICK x \in S : t = n - x
    BY <1>2 DEF T
<1>4. ASSUME NEW y \in S PROVE x >= y
    <2>1. x \in Int /\ y \in Int /\ n - y \in T
        BY DEF T
    <2>2. t <= n - y
        BY <1>2, <2>1
    <2> QED BY <1>3, <2>1, <2>2
<1>5. Max(S) \in S /\ \A y \in S : Max(S) >= y
    BY <1>3, <1>4 DEF Max
<1>6. \A y \in S : y \in Int
    OBVIOUS
<1> QED
    BY <1>5, <1>6

-----------------------------------------------------------------------------
\* The innermost of a set of positions is its greatest, 0 when there is none.
LEMMA InnermostOf ==
    ASSUME NEW n \in Nat, NEW S \in SUBSET (1..n)
    PROVE  /\ Innermost(S) \in 0..n
           /\ S = {} => Innermost(S) = 0
           /\ S # {} => Innermost(S) \in S
           /\ \A y \in S : y <= Innermost(S)
<1>1. CASE S = {}
    BY <1>1 DEF Innermost
<1>2. CASE S # {}
    <2>1. Max(S) \in S /\ (\A y \in S : y <= Max(S)) /\ Innermost(S) = Max(S)
        BY <1>2, MaxIs DEF Innermost
    <2>2. \A y \in S : y \in 0..n
        OBVIOUS
    <2>3. Max(S) \in 0..n
        BY <2>1, <2>2
    <2> QED BY <1>2, <2>1, <2>3
<1> QED
    BY <1>1, <1>2

\* The greatest of the set is the only one that no other exceeds.
LEMMA InnermostUnique ==
    ASSUME NEW n \in Nat, NEW S \in SUBSET (1..n), NEW m \in S, \A y \in S : y <= m
    PROVE  Innermost(S) = m
<1>1. Innermost(S) \in S /\ m <= Innermost(S)
    BY InnermostOf
<1>2. Innermost(S) <= m
    BY <1>1
<1>3. \A y \in S : y \in Int
    OBVIOUS
<1>4. Innermost(S) \in Int /\ m \in Int
    BY <1>1, <1>3
<1> QED
    BY <1>1, <1>2, <1>4

\* How many up to a position have a property, and how many up to the next.
LEMMA CountStep ==
    ASSUME NEW T, NEW q \in Nat, q >= 1
    PROVE  /\ Cardinality((1..q) \cap T) =
                Cardinality((1..(q - 1)) \cap T) + (IF q \in T THEN 1 ELSE 0)
           /\ Cardinality((1..(q - 1)) \cap T) \in Nat
           /\ IsFiniteSet((1..(q - 1)) \cap T)
<1> DEFINE A == (1..(q - 1)) \cap T
           B == (1..q) \cap T
<1>1. IsFiniteSet(1..(q - 1))
    BY FS_Interval
<1>2. IsFiniteSet(A) /\ A \in SUBSET (1..(q - 1))
    BY <1>1, FS_Subset
<1>3. Cardinality(A) \in Nat
    BY <1>2, FS_CardinalityType
<1>4. q \notin A
    BY <1>2
<1>5. CASE q \in T
    <2>1. B = A \cup {q}
        BY <1>5
    <2>2. Cardinality(B) = Cardinality(A) + 1
        BY <1>2, <1>4, <2>1, FS_AddElement
    <2> QED BY <1>2, <1>3, <1>5, <2>2
<1>6. CASE q \notin T
    <2>1. B = A
        BY <1>6
    <2> QED BY <1>2, <1>3, <1>6, <2>1
<1> QED
    BY <1>5, <1>6

\* The text and a position of it, or the one behind it.
TextOK == js \in Seq(Lexemes)
Positions == 1..(Len(js) + 1)

\* The depth is an integer, and changes at brackets only.
LEMMA DepthIs == ASSUME TextOK, NEW q \in Positions PROVE Depth(q) \in Int
<1> DEFINE O == { r \in Nat : Opening(r) }
           C == { r \in Nat : Closing(r) }
<1>1. q \in Nat /\ q >= 1
    BY DEF TextOK, Positions
<1>2. /\ { r \in 1..(q - 1) : Opening(r) } = (1..(q - 1)) \cap O
      /\ { r \in 1..(q - 1) : Closing(r) } = (1..(q - 1)) \cap C
    BY <1>1
<1> HIDE DEF O, C
<1>3. /\ Cardinality((1..(q - 1)) \cap O) \in Nat
      /\ Cardinality((1..(q - 1)) \cap C) \in Nat
    BY <1>1, CountStep
<1> QED
    BY <1>2, <1>3 DEF Depth

\* The depth of nesting behind a lexeme: one more, one less, or the same.
LEMMA DepthStep ==
    ASSUME TextOK, NEW q \in 1..Len(js)
    PROVE  Depth(q + 1) = Depth(q) + (IF Opening(q) THEN 1 ELSE IF Closing(q) THEN -1 ELSE 0)
<1> DEFINE O == { r \in Nat : Opening(r) }
           C == { r \in Nat : Closing(r) }
<1>1. q \in Nat /\ q >= 1 /\ (q + 1) - 1 = q
    BY DEF TextOK
<1>2. \A n \in {q - 1, q} : /\ { r \in 1..n : Opening(r) } = (1..n) \cap O
                            /\ { r \in 1..n : Closing(r) } = (1..n) \cap C
    BY <1>1
<1>3. /\ q \in O <=> Opening(q)
      /\ q \in C <=> Closing(q)
      /\ ~(Opening(q) /\ Closing(q))
    BY <1>1 DEF Opening, Closing
<1> HIDE DEF O, C
<1> DEFINE o == Cardinality((1..(q - 1)) \cap O)
           c == Cardinality((1..(q - 1)) \cap C)
<1>4. /\ o \in Nat /\ Cardinality((1..q) \cap O) = o + (IF q \in O THEN 1 ELSE 0)
      /\ c \in Nat /\ Cardinality((1..q) \cap C) = c + (IF q \in C THEN 1 ELSE 0)
    BY <1>1, CountStep
<1>5. Depth(q) = o - c
    BY <1>2 DEF Depth
<1>6. Depth(q + 1) = Cardinality((1..q) \cap O) - Cardinality((1..q) \cap C)
    BY <1>1, <1>2 DEF Depth
<1> HIDE DEF o, c
<1> QED
    BY <1>3, <1>4, <1>5, <1>6

\* What is open in front of a position is in front of it, and less deep.
LEMMA WithinIs ==
    ASSUME TextOK, NEW q \in Positions
    PROVE  /\ Within(q) \in SUBSET (1..(q - 1))
           /\ \A o \in Within(q) : Opening(o) /\ Depth(o) < Depth(q) /\ Depth(o) \in Int
<1>1. Within(q) \in SUBSET (1..(q - 1))
    BY DEF Within
<1>2. ASSUME NEW o \in Within(q)
      PROVE  Opening(o) /\ Depth(o) < Depth(q) /\ Depth(o) \in Int
    <2>1. o \in 1..(q - 1) /\ Opening(o) /\ \A r \in (o + 1)..q : Depth(r) > Depth(o)
        BY DEF Within
    <2>2. q \in (o + 1)..q /\ o \in Positions
        BY <2>1 DEF TextOK, Positions
    <2>3. Depth(o) \in Int /\ Depth(q) \in Int
        BY <2>2, DepthIs
    <2> QED BY <2>1, <2>2, <2>3
<1> QED
    BY <1>1, <1>2

\* A bracket that is open stays open up to a lexeme that is less deep.
LEMMA WithinStep ==
    ASSUME TextOK, NEW q \in 1..Len(js)
    PROVE  Within(q + 1) = { o \in Within(q) : Depth(q + 1) > Depth(o) }
                               \cup (IF Opening(q) THEN {q} ELSE {})
<1>1. q \in Positions /\ q + 1 \in Positions /\ q \in Nat
    BY DEF TextOK, Positions
<1>2. Opening(q) => Depth(q + 1) > Depth(q)
    BY <1>1, DepthStep, DepthIs
<1>3. ASSUME NEW o PROVE o \in Within(q + 1) <=>
        \/ o \in Within(q) /\ Depth(q + 1) > Depth(o)
        \/ o = q /\ Opening(q)
    <2>1. CASE o \in 1..(q - 1)
        <3>1. (o + 1)..(q + 1) = ((o + 1)..q) \cup {q + 1}
            BY <1>1, <2>1
        <3>2. o # q /\ o \in 1..((q + 1) - 1)
            BY <1>1, <2>1
        <3> QED BY <2>1, <3>1, <3>2 DEF Within
    <2>2. CASE o = q
        <3>1. (o + 1)..(q + 1) = {q + 1} /\ o \in 1..((q + 1) - 1) /\ o \notin 1..(q - 1)
            BY <1>1, <2>2
        <3> QED BY <1>2, <2>2, <3>1 DEF Within
    <2>3. CASE o \notin 1..(q - 1) /\ o # q
        <3>1. o \notin 1..((q + 1) - 1)
            BY <1>1, <2>3
        <3> QED BY <2>3, <3>1 DEF Within
    <2> QED BY <2>1, <2>2, <2>3
<1> QED
    BY <1>3

\* What is open behind a lexeme that closes nothing.
LEMMA WithinKept ==
    ASSUME TextOK, NEW q \in 1..Len(js), ~Closing(q)
    PROVE  Within(q + 1) = Within(q) \cup (IF Opening(q) THEN {q} ELSE {})
<1>1. q \in Positions
    BY DEF TextOK, Positions
<1>2. ASSUME NEW o \in Within(q) PROVE Depth(q + 1) > Depth(o)
    <2>1. Depth(o) < Depth(q) /\ Depth(o) \in Int /\ Depth(q) \in Int
        BY <1>1, WithinIs, DepthIs
    <2>2. Depth(q + 1) = Depth(q) \/ Depth(q + 1) = Depth(q) + 1
        BY <2>1, DepthStep
    <2> QED BY <2>1, <2>2
<1> QED
    BY <1>2, WithinStep

\* The innermost of the open brackets is one level up.
LEMMA InnermostDepth ==
    ASSUME TextOK, NEW q \in Positions, Within(q) # {}
    PROVE  Depth(q) = Depth(Innermost(Within(q))) + 1
<1> DEFINE m == Innermost(Within(q))
           d == Depth(q) - 1
           T == { o \in m..(q - 1) : Depth(o) <= d }
           t == Innermost(T)
<1>1. q \in Nat /\ Depth(q) \in Int /\ \A o \in 1..q : o \in Positions /\ Depth(o) \in Int
    BY DepthIs DEF TextOK, Positions
<1>2. m \in Within(q) /\ m \in 1..(q - 1) /\ Depth(m) < Depth(q)
    BY <1>1, WithinIs, InnermostOf
<1>3. \A o \in Within(q) : o <= m
    BY <1>1, WithinIs, InnermostOf
<1> HIDE DEF m
<1>4. m \in T /\ T \in SUBSET (1..(q - 1))
    BY <1>1, <1>2
<1>5. t \in T /\ \A o \in T : o <= t
    BY <1>1, <1>4, InnermostOf
<1>6. t \in m..(q - 1) /\ Depth(t) <= d
    BY <1>5
<1>7. ASSUME NEW r \in (t + 1)..q PROVE Depth(r) > d
    <2>1. CASE r = q
        BY <1>1, <2>1
    <2>2. CASE r # q
        <3>1. r \in m..(q - 1) /\ ~(r <= t)
            BY <1>1, <1>2, <1>6, <2>2
        <3>2. r \notin T
            BY <1>5, <3>1
        <3>3. Depth(r) \in Int
            BY <1>1, <1>2, <3>1
        <3> QED BY <1>1, <3>1, <3>2, <3>3
    <2> QED BY <2>1, <2>2
<1>8. t \in 1..Len(js) /\ t + 1 \in (t + 1)..q /\ t \in 1..q /\ t \in 1..(q - 1)
    BY <1>1, <1>2, <1>6 DEF TextOK, Positions
<1>9. Opening(t) /\ Depth(t) = d
    <2>1. Depth(t + 1) > d /\ Depth(t) <= d /\ Depth(t) \in Int
        BY <1>1, <1>6, <1>7, <1>8
    <2>2. Depth(t + 1) = Depth(t) + (IF Opening(t) THEN 1 ELSE IF Closing(t) THEN -1 ELSE 0)
        BY <1>8, DepthStep
    <2> HIDE DEF t
    <2> QED BY <1>1, <2>1, <2>2
<1> HIDE DEF t, T
<1>10. t \in Within(q)
    BY <1>7, <1>8, <1>9 DEF Within
<1>11. t = m
    <2>1. t <= m /\ m <= t
        BY <1>3, <1>6, <1>10, <1>1, <1>2
    <2> QED BY <2>1, <1>1, <1>2, <1>6
<1> QED
    BY <1>1, <1>9, <1>11 DEF m

\* A bracket that closes, closes the innermost.
LEMMA WithinClosed ==
    ASSUME TextOK, NEW q \in 1..Len(js), Closing(q), Within(q) # {}
    PROVE  Within(q + 1) = Within(q) \ {Innermost(Within(q))}
<1> DEFINE m == Innermost(Within(q))
<1>1. q \in Positions /\ Depth(q) \in Int /\ q \in Nat
    BY DepthIs DEF TextOK, Positions
<1>2. m \in Within(q) /\ \A o \in Within(q) : o <= m
    <2>1. Within(q) \in SUBSET (1..(q - 1)) /\ q - 1 \in Nat
        BY <1>1, WithinIs
    <2> QED BY <2>1, InnermostOf
<1>3. ~Opening(q) /\ Depth(q + 1) = Depth(q) - 1 /\ Depth(q) = Depth(m) + 1 /\ Depth(m) \in Int
    <2>1. ~Opening(q)
        BY DEF Opening, Closing
    <2>2. Depth(q) = Depth(m) + 1 /\ Depth(m) \in Int
        BY <1>1, <1>2, WithinIs, InnermostDepth
    <2> QED BY <1>1, <2>1, <2>2, DepthStep
<1> HIDE DEF m
<1>4. ASSUME NEW o \in Within(q), o # m PROVE Depth(m) > Depth(o)
    <2>1. o < m
        BY <1>1, <1>2, <1>4, WithinIs
    <2>2. m \in (o + 1)..q
        BY <1>1, <1>2, <2>1, WithinIs
    <2> QED BY <2>2 DEF Within
<1>5. Within(q + 1) = { o \in Within(q) : Depth(m) > Depth(o) }
    <2>1. Depth(q + 1) = Depth(m)
        BY <1>3
    <2> QED BY <1>3, <2>1, WithinStep
<1>6. ~(Depth(m) > Depth(m))
    BY <1>3
<1> QED
    BY <1>4, <1>5, <1>6 DEF m

\* What a value belongs to stands in front of it.
LEMMA ParentIs == ASSUME TextOK, NEW q \in Positions PROVE Parent(q) \in 0..(q - 1)
<1>1. q \in Nat /\ q - 1 \in Nat
    BY DEF TextOK, Positions
<1>2. Innermost(Within(q)) \in 0..(q - 1)
    BY <1>1, WithinIs, InnermostOf
<1> QED
    BY <1>1, <1>2 DEF Parent

-----------------------------------------------------------------------------
\* The calls while there are n chips, the tokens, the chips.
FrameOf(n) == [fn : {"parse", "cpu", "chip"}, left : Nat, chip : 0..n]
Token == [type : {"object", "array", "string", "primitive"}, text : STRING,
          start : Nat, size : Nat, open : BOOLEAN]
Chip == [type : ChipTypes, regsize : {0, 4, 16}, address : Word \cup {Unassigned}]

\* jsmn_parse: each count is covered by the tokens behind it.
TokensOK ==
    /\ js \in Seq(Lexemes) /\ pos \in 1..(Len(js) + 1)
    /\ tokens \in Seq(Token) /\ Len(tokens) <= MaxTokens
    /\ \A i \in 1..Len(tokens) : tokens[i].size <= Len(tokens) - i
    /\ toksuper \in 0..Len(tokens)
    /\ jtk \in {"busy", "count", "INVAL", "NOMEM", "PART"}

\* The reader: an active call has a token to look back at.
ReaderOK ==
    /\ jtok \in 0..(Len(tokens) + 1)
    /\ frames \in Seq(FrameOf(Len(circuit)))
    /\ frames # <<>> => jtok >= 1
    /\ circuit \in Seq(Chip)
    /\ cres \in {"busy", "0", "EINVAL", "ENOMEM", "EIO", "exit", "undefined"}

\* At least one chip, and each reset once, in order.
AllReset == circuit # <<>> /\ resets = [i \in 1..Len(circuit) |-> i]

\* What main has done when it is at a place.
MainOK ==
    /\ main \in {"rom", "fopen", "tokens", "config", "reset", "calibrate", "key",
                 "timer", "sync", "gui", "loop", "exit", "crash", "undefined"}
    /\ running \in BOOLEAN /\ delays \in BOOLEAN
    /\ threads \subseteq {"timer", "sync", "gui"}
    /\ main \in {"rom", "fopen", "tokens"} =>
         frames = <<>> /\ circuit = <<>> /\ cres = "busy" /\ jtok = 0
    /\ main \in {"rom", "fopen", "tokens", "config"} => resets = <<>>
    /\ main = "reset" => /\ resets = [i \in 1..Len(resets) |-> i]
                         /\ circuit = <<>> \/ Len(resets) < Len(circuit)
    /\ main \in {"calibrate", "key", "timer", "sync", "gui", "loop"} => AllReset
    /\ main \in {"key", "timer", "sync", "gui", "loop"} => delays
    /\ main \in {"timer", "sync", "gui", "loop"} => running
    /\ threads # {} => main \in {"sync", "gui", "loop", "exit"} /\ running /\ delays /\ AllReset

-----------------------------------------------------------------------------
\* The innermost of some open tokens is one of them, or 0 for none.
LEMMA InnermostIs ==
    ASSUME TokensOK, NEW S \in SUBSET OpenTokens
    PROVE  Innermost(S) \in 0..Len(tokens) /\ (S # {} => Innermost(S) \in S)
<1>1. Len(tokens) \in Nat /\ S \in SUBSET (1..Len(tokens))
    BY DEF TokensOK, OpenTokens
<1>2. CASE S = {}
    BY <1>1, <1>2 DEF Innermost
<1>3. CASE S # {}
    <2>1. Max(S) \in S
        BY <1>1, <1>3, MaxIs
    <2>2. Innermost(S) = Max(S)
        BY <1>3 DEF Innermost
    <2>3. Max(S) \in 1..Len(tokens)
        BY <1>1, <2>1
    <2> QED BY <1>1, <2>1, <2>2, <2>3
<1> QED
    BY <1>2, <1>3

\* A lexeme is looked at where there is one, and the next position is at most
\* one behind the text.
LEMMA AtIs ==
    ASSUME TokensOK, NEW is, At(is)
    PROVE  pos + 1 \in 1..(Len(js) + 1) /\ js[pos].text \in STRING /\ jtk = "busy"
<1>1. pos \in 1..Len(js) /\ jtk = "busy"
    BY DEF At, TokensOK
<1>2. js[pos] \in Lexemes
    BY <1>1 DEF TokensOK
<1> QED
    BY <1>1, <1>2 DEF TokensOK, Lexemes

\* jsmn_parse returns an error.
LEMMA FailsOK ==
    ASSUME TokensOK, NEW error \in {"INVAL", "NOMEM", "PART"}, JsmnFails(error)
    PROVE  TokensOK'
    BY DEF TokensOK, JsmnFails

\* A new token has nothing behind it, and the one that it is counted in gets
\* one more token behind it and one more in its size.
LEMMA AllocOK ==
    ASSUME TokensOK, NEW is, At(is), NEW type \in {"object", "array", "string", "primitive"},
           NEW open \in BOOLEAN, Alloc(type, open)
    PROVE  TokensOK'
<1>1. pos + 1 \in 1..(Len(js) + 1) /\ js[pos].text \in STRING
    BY AtIs
<1>2. CASE Len(tokens) >= MaxTokens
    BY <1>2, FailsOK DEF Alloc
<1>3. CASE ~(Len(tokens) >= MaxTokens)
    <2> DEFINE n == Len(tokens)
               new == [type |-> type, text |-> js[pos].text, start |-> pos,
                       size |-> 0, open |-> open]
               counted == IF toksuper = 0 THEN tokens
                          ELSE [tokens EXCEPT ![toksuper].size = @ + 1]
    <2>1. /\ tokens' = Append(counted, new) /\ pos' = pos + 1
          /\ toksuper' = IF open THEN Len(tokens) + 1 ELSE toksuper
          /\ js' = js /\ jtk' = jtk
        BY <1>3 DEF Alloc
    <2>2. new \in Token
        <3>1. pos \in Nat
            BY DEF TokensOK
        <3> QED BY <1>1, <3>1 DEF Token
    <2>3. n \in Nat /\ n + 1 <= MaxTokens /\ toksuper \in 0..n
        BY <1>3, MaxTokensAssumption DEF TokensOK
    <2>4. \A i \in 1..n : /\ tokens[i] \in Token /\ tokens[i].size \in Int
                           /\ tokens[i].size <= n - i
        <3>1. tokens \in Seq(Token) /\ \A i \in 1..n : tokens[i].size <= n - i
            BY DEF TokensOK
        <3>2. \A t \in Token : t.size \in Int
            BY DEF Token
        <3>3. \A i \in 1..n : tokens[i] \in Token
            BY <3>1
        <3> QED BY <3>1, <3>2, <3>3
    <2>5. counted \in Seq(Token) /\ Len(counted) = n
          /\ \A i \in 1..n : counted[i].size <= n + 1 - i
        <3>1. CASE toksuper = 0
            <4>1. counted = tokens
                BY <3>1
            <4> HIDE DEF counted
            <4>2. tokens \in Seq(Token) /\ Len(tokens) = n
                BY DEF TokensOK
            <4>3. ASSUME NEW i \in 1..n PROVE tokens[i].size <= n + 1 - i
                <5>1. tokens[i].size \in Int /\ tokens[i].size <= n - i
                    BY <2>4
                <5> QED BY <2>3, <5>1
            <4> QED BY <4>1, <4>2, <4>3
        <3>2. CASE toksuper # 0
            <4>1. toksuper \in 1..n /\ tokens[toksuper] \in Token
                BY <2>3, <3>2 DEF TokensOK
            <4> DEFINE t == [tokens[toksuper] EXCEPT !.size = @ + 1]
            <4>2. t \in Token /\ t.size = tokens[toksuper].size + 1
                BY <4>1 DEF Token
            <4>3. counted = [tokens EXCEPT ![toksuper] = t]
                BY <3>2
            <4> HIDE DEF t, counted
            <4>4. counted \in Seq(Token) /\ Len(counted) = n
                BY <4>1, <4>2, <4>3 DEF TokensOK
            <4>5. ASSUME NEW i \in 1..n PROVE counted[i].size <= n + 1 - i
                <5>1. tokens[i] \in Token /\ tokens[i].size \in Int /\ tokens[i].size <= n - i
                    BY <2>4
                <5>2. counted[i] = IF i = toksuper THEN t ELSE tokens[i]
                    BY <4>1, <4>3 DEF TokensOK
                <5> QED BY <2>3, <4>2, <5>1, <5>2
            <4> QED BY <4>4, <4>5
        <3> QED BY <3>1, <3>2
    <2> HIDE DEF counted, new
    <2>6. tokens' \in Seq(Token) /\ Len(tokens') = n + 1
        BY <2>1, <2>2, <2>5
    <2>7. ASSUME NEW i \in 1..(n + 1) PROVE tokens'[i].size <= n + 1 - i
        <3>1. CASE i = n + 1
            <4>1. tokens'[i] = new /\ new.size = 0
                BY <2>1, <2>5, <3>1 DEF new
            <4> QED BY <2>3, <3>1, <4>1
        <3>2. CASE i # n + 1
            <4>1. i \in 1..n /\ tokens'[i] = counted[i]
                BY <2>1, <2>3, <2>5, <3>2
            <4> QED BY <2>5, <4>1
        <3> QED BY <3>1, <3>2
    <2>8. toksuper' \in 0..(n + 1)
        BY <2>1, <2>3
    <2> QED BY <1>1, <2>1, <2>3, <2>6, <2>7, <2>8 DEF TokensOK
<1> QED
    BY <1>2, <1>3

\* A container ends: the counts stay.
LEMMA CloseOK ==
    ASSUME TokensOK, NEW type \in Containers, Close(type)
    PROVE  TokensOK'
<1> DEFINE i == Innermost(OpenTokens)
<1>1. pos + 1 \in 1..(Len(js) + 1)
    BY AtIs DEF Close
<1>2. CASE JsmnFails("INVAL")
    BY <1>2, FailsOK
<1>3. CASE ~JsmnFails("INVAL")
    <2>1. /\ i # 0 /\ tokens' = [tokens EXCEPT ![i].open = FALSE]
          /\ toksuper' = Innermost(OpenTokens \ {i})
          /\ pos' = pos + 1 /\ js' = js /\ jtk' = jtk
        BY <1>3 DEF Close
    <2>2. i \in 1..Len(tokens)
        <3>1. i \in 0..Len(tokens)
            BY InnermostIs
        <3> QED BY <2>1, <3>1
    <2>3. toksuper' \in 0..Len(tokens)
        BY <2>1, InnermostIs
    <2> HIDE DEF i
    <2>4. tokens[i] \in Token
        BY <2>2 DEF TokensOK
    <2> DEFINE t == [tokens[i] EXCEPT !.open = FALSE]
    <2>5. t \in Token /\ t.size = tokens[i].size
        BY <2>4 DEF Token
    <2>6. tokens' = [tokens EXCEPT ![i] = t]
        BY <2>1
    <2> HIDE DEF t
    <2>7. tokens' \in Seq(Token) /\ Len(tokens') = Len(tokens)
          /\ \A j \in 1..Len(tokens) : tokens'[j].size = tokens[j].size
        BY <2>2, <2>5, <2>6 DEF TokensOK
    <2> QED BY <1>1, <2>1, <2>3, <2>7 DEF TokensOK
<1> QED
    BY <1>2, <1>3

\* A step of jsmn_parse keeps every count covered by the tokens behind it.
LEMMA TokenizeOK == TokensOK /\ jsmn_parse => TokensOK'
<1> SUFFICES ASSUME TokensOK, jsmn_parse PROVE TokensOK'
    OBVIOUS
<1>1. ASSUME NEW type \in Containers, Open(type) PROVE TokensOK'
    BY <1>1, AllocOK DEF Open, Containers
<1>2. ASSUME NEW type \in Containers, Close(type) PROVE TokensOK'
    BY <1>2, CloseOK
<1>3. CASE StringToken \/ PrimitiveToken
    BY <1>3, AllocOK DEF StringToken, PrimitiveToken
<1>4. CASE Colon
    <2>1. pos + 1 \in 1..(Len(js) + 1)
        BY <1>4, AtIs DEF Colon
    <2> QED BY <1>4, <2>1 DEF Colon, TokensOK
<1>5. CASE Comma
    <2>1. pos + 1 \in 1..(Len(js) + 1)
        BY <1>5, AtIs DEF Comma
    <2>2. toksuper' \in {toksuper, Innermost(OpenTokens)}
        BY <1>5 DEF Comma
    <2>3. toksuper' \in 0..Len(tokens)
        BY <2>2, InnermostIs DEF TokensOK
    <2> QED BY <1>5, <2>1, <2>3 DEF Comma, TokensOK
<1>6. CASE BadLexeme
    BY <1>6, FailsOK DEF BadLexeme
<1>7. CASE End
    BY <1>7 DEF End, TokensOK
<1> QED
    BY <1>1, <1>2, <1>3, <1>4, <1>5, <1>6, <1>7 DEF jsmn_parse

-----------------------------------------------------------------------------
\* The position at which a token starts, 0 for no token.
StartOf(i) == IF i = 0 THEN 0 ELSE tokens[i].start

\* The tokens are the values in front of the position, in the order of the text.
StartsOK ==
    /\ \A i \in 1..Len(tokens) : /\ tokens[i].start \in 1..(pos - 1)
                                 /\ IsValue(tokens[i].start)
                                 /\ TokenAt(tokens[i], tokens[i].start)
    /\ \A i, j \in 1..Len(tokens) : i < j => tokens[i].start < tokens[j].start
    /\ \A q \in 1..(pos - 1) : IsValue(q) => \E i \in 1..Len(tokens) : tokens[i].start = q

\* The open tokens are the brackets that the position is within.
OpenOK ==
    /\ { tokens[i].start : i \in OpenTokens } = Within(pos)
    /\ \A q \in 1..(pos - 1) : Closing(q) => Matched(q)

\* toksuper is what a value at the position belongs to, or else a string, which
\* the next comma or colon leaves behind.
Left(i) == i # 0 /\ tokens[i].type \notin Containers
SuperOK ==
    /\ StartOf(toksuper) = Parent(pos) \/ (pos > 1 /\ IsScalar(pos - 1) /\ Left(toksuper))
    /\ pos > 1 /\ js[pos - 1].is = ":" => Left(toksuper)

\* The sizes count the values in front of the position.
SizesOK == \A i \in 1..Len(tokens) :
    tokens[i].size = Cardinality(Children(tokens[i].start, pos - 1))

\* The part of the inductive invariant that is about the tree of the text.
TreeOK == StartsOK /\ OpenOK /\ (Separated => SuperOK /\ SizesOK)

\* A count is only returned behind the text, with nothing open.
EndOK == jtk = "count" => pos = Len(js) + 1 /\ OpenTokens = {}

\* A position up to another is in front of it or the same.
LEMMA UpTo == ASSUME NEW n \in Nat PROVE \A q \in 1..n : q \in 1..(n - 1) \/ q = n
    OBVIOUS

\* What is said of the text stays true.
LEMMA SameText ==
    ASSUME js' = js
    PROVE  /\ \A q : (IsValue(q)' <=> IsValue(q)) /\ (Closing(q)' <=> Closing(q))
                     /\ (IsScalar(q)' <=> IsScalar(q))
           /\ \A q : Within(q)' = Within(q) /\ Parent(q)' = Parent(q)
                     /\ (Matched(q)' <=> Matched(q))
           /\ \A p, n : Children(p, n)' = Children(p, n)
           /\ \A t, q : TokenAt(t, q)' <=> TokenAt(t, q)
           /\ Separated' <=> Separated
<1>1. \A q : (IsValue(q)' <=> IsValue(q)) /\ (Closing(q)' <=> Closing(q))
             /\ (IsScalar(q)' <=> IsScalar(q))
    BY DEF IsValue, Closing, IsScalar, Opening
<1>2. \A q : Within(q)' = Within(q)
    BY DEF Within, Depth, Opening, Closing
<1>3. \A q : Parent(q)' = Parent(q)
    BY <1>2 DEF Parent
<1>4. \A q : Matched(q)' <=> Matched(q)
    BY <1>2 DEF Matched
<1>5. \A p, n : Children(p, n)' = Children(p, n)
    BY <1>1, <1>3 DEF Children
<1>6. \A t, q : TokenAt(t, q)' <=> TokenAt(t, q)
    BY DEF TokenAt
<1>7. Separated' <=> Separated
    BY <1>1, <1>2 DEF Separated
<1> QED
    BY <1>1, <1>2, <1>3, <1>4, <1>5, <1>6, <1>7

\* What belongs to the value of a token, as the position goes on.
LEMMA NextChildren ==
    ASSUME js' = js, pos \in Nat, pos' = pos + 1
    PROVE  \A i : Children(tokens[i].start, pos - 1)' = Children(tokens'[i].start, pos)
<1>1. pos' - 1 = pos
    OBVIOUS
<1> QED
    BY <1>1 DEF Children, IsValue, IsScalar, Parent, Within, Depth, Opening, Closing

\* Tokens are in the order of their starts: the innermost of some is the one
\* with the innermost start.
LEMMA InnermostStart ==
    ASSUME TokensOK, StartsOK, NEW S \in SUBSET (1..Len(tokens))
    PROVE  StartOf(Innermost(S)) = Innermost({ tokens[i].start : i \in S })
<1> DEFINE W == { tokens[i].start : i \in S }
           m == Innermost(S)
<1>1. Len(tokens) \in Nat /\ pos - 1 \in Nat
    BY DEF TokensOK
<1>2. W \in SUBSET (1..(pos - 1))
    BY DEF StartsOK
<1>3. CASE S = {}
    <2>1. m = 0 /\ Innermost(W) = 0
        BY <1>3 DEF Innermost
    <2> QED BY <2>1 DEF StartOf
<1>4. CASE S # {}
    <2>1. m \in S /\ m \in 1..Len(tokens) /\ \A i \in S : i <= m
        BY <1>1, <1>4, InnermostOf
    <2> HIDE DEF m
    <2>2. tokens[m].start \in W /\ StartOf(m) = tokens[m].start
        BY <2>1 DEF StartOf
    <2>3. ASSUME NEW y \in W PROVE y <= tokens[m].start
        <3>1. PICK i \in S : y = tokens[i].start
            OBVIOUS
        <3>2. i \in 1..Len(tokens) /\ (i = m \/ i < m)
            <4>1. i \in 1..Len(tokens) /\ m \in 1..Len(tokens) /\ i <= m
                BY <2>1
            <4> QED BY <1>1, <4>1
        <3>3. y \in Int /\ tokens[m].start \in Int
            BY <1>2, <2>2
        <3> QED BY <2>1, <3>1, <3>2, <3>3 DEF StartsOK
    <2> DEFINE last == tokens[m].start
    <2> HIDE DEF W, last
    <2>4. last \in W /\ \A y \in W : y <= last
        BY <2>2, <2>3 DEF last
    <2>5. Innermost(W) = last
        BY <1>1, <1>2, <2>4, InnermostUnique
    <2> QED BY <2>2, <2>5 DEF last, W, m
<1> QED
    BY <1>3, <1>4 DEF W

\* The values that belong to another, up to a position and up to the next.
LEMMA ChildrenStep ==
    ASSUME TextOK, NEW q \in 1..Len(js), NEW p
    PROVE  /\ Cardinality(Children(p, q)) = Cardinality(Children(p, q - 1))
                + (IF IsValue(q) /\ Parent(q) = p THEN 1 ELSE 0)
           /\ Cardinality(Children(p, q - 1)) \in Nat
<1> DEFINE T == { r \in Nat : IsValue(r) /\ Parent(r) = p }
<1>1. q \in Nat /\ q >= 1
    BY DEF TextOK
<1>2. Children(p, q) = (1..q) \cap T /\ Children(p, q - 1) = (1..(q - 1)) \cap T
    BY <1>1 DEF Children
<1>3. q \in T <=> IsValue(q) /\ Parent(q) = p
    BY <1>1
<1> HIDE DEF T
<1> QED
    BY <1>1, <1>2, <1>3, CountStep

\* Nothing belongs to a value yet when it is reached.
LEMMA NoChildrenYet ==
    ASSUME TextOK, NEW q \in 1..Len(js)
    PROVE  Cardinality(Children(q, q)) = 0
<1>1. ASSUME NEW r \in 1..q PROVE Parent(r) # q
    <2>1. r \in Positions /\ r \in Nat /\ q \in Nat
        BY DEF TextOK, Positions
    <2>2. Parent(r) \in 0..(r - 1)
        BY <2>1, ParentIs
    <2> QED BY <2>1, <2>2
<1>2. Children(q, q) = {}
    BY <1>1 DEF Children
<1> QED
    BY <1>2, FS_EmptySet

\* What a value behind the lexeme at q belongs to.
LEMMA ParentNext ==
    ASSUME TextOK, NEW q \in 1..Len(js)
    PROVE  /\ js[q].is = ":" => Parent(q + 1) = q - 1
           /\ js[q].is # ":" => Parent(q + 1) = Innermost(Within(q + 1))
<1>1. q \in Nat /\ q + 1 > 1 /\ (q + 1) - 1 = q /\ (q + 1) - 2 = q - 1
    BY DEF TextOK
<1> QED
    BY <1>1 DEF Parent

\* What kind of lexeme is at the position.
LEMMA KindOf ==
    ASSUME TokensOK, NEW is, At(is)
    PROVE  /\ pos \in 1..Len(js) /\ pos \in Positions /\ TextOK /\ js[pos].is = is
           /\ pos \in Nat /\ pos - 1 \in Nat /\ (pos + 1) - 1 = pos /\ pos + 1 > 1
    BY DEF At, TokensOK, TextOK, Positions

\* A step that leaves the parser where it is.
LEMMA TreeUnchanged ==
    ASSUME TreeOK, UNCHANGED <<js, pos, tokens, toksuper>>
    PROVE  TreeOK'
<1>1. OpenTokens' = OpenTokens /\ StartOf(toksuper)' = StartOf(toksuper)
      /\ (Left(toksuper)' <=> Left(toksuper))
    BY DEF OpenTokens, StartOf, Left
<1>2. Within(pos)' = Within(pos) /\ Parent(pos)' = Parent(pos)
      /\ (IsScalar(pos - 1)' <=> IsScalar(pos - 1))
    BY DEF Within, Parent, IsScalar, Depth, Opening, Closing
<1>3. StartsOK'
    BY DEF TreeOK, StartsOK, TokenAt, IsValue, IsScalar, Opening
<1>4. OpenOK'
    BY <1>1, <1>2, SameText DEF TreeOK, OpenOK
<1>5. ASSUME Separated PROVE SuperOK' /\ SizesOK'
    <2>1. \A i : Children(tokens[i].start, pos - 1)' = Children(tokens[i].start, pos - 1)
        BY DEF Children, IsValue, IsScalar, Parent, Within, Depth, Opening, Closing
    <2>2. SizesOK'
        BY <1>5, <2>1 DEF TreeOK, SizesOK
    <2> QED BY <1>1, <1>2, <1>5, <2>2 DEF TreeOK, SuperOK
<1> QED
    BY <1>3, <1>4, <1>5, SameText DEF TreeOK

\* A token is filled: the others keep their place, and the one that it is
\* counted in gets one more.
LEMMA Allocated ==
    ASSUME TokensOK, NEW is, At(is), NEW type \in {"object", "array", "string", "primitive"},
           NEW open \in BOOLEAN, Alloc(type, open), ~(Len(tokens) >= MaxTokens)
    PROVE  /\ Len(tokens') = Len(tokens) + 1
           /\ tokens'[Len(tokens) + 1] = [type |-> type, text |-> js[pos].text, start |-> pos,
                                          size |-> 0, open |-> open]
           /\ \A i \in 1..Len(tokens) :
                /\ tokens'[i].type = tokens[i].type /\ tokens'[i].text = tokens[i].text
                /\ tokens'[i].start = tokens[i].start /\ tokens'[i].open = tokens[i].open
                /\ tokens'[i].size = tokens[i].size + (IF i = toksuper THEN 1 ELSE 0)
           /\ toksuper' = IF open THEN Len(tokens) + 1 ELSE toksuper
           /\ pos' = pos + 1 /\ js' = js /\ jtk' = jtk
<1> DEFINE n == Len(tokens)
           new == [type |-> type, text |-> js[pos].text, start |-> pos,
                   size |-> 0, open |-> open]
           counted == IF toksuper = 0 THEN tokens
                      ELSE [tokens EXCEPT ![toksuper].size = @ + 1]
<1>1. /\ tokens' = Append(counted, new) /\ pos' = pos + 1
      /\ toksuper' = IF open THEN n + 1 ELSE toksuper
      /\ js' = js /\ jtk' = jtk
    BY DEF Alloc
<1>2. n \in Nat /\ toksuper \in 0..n /\ tokens \in Seq(Token)
    BY DEF TokensOK
<1>3. \A i \in 1..n : tokens[i] \in Token /\ tokens[i].size \in Int
    <2>1. \A t \in Token : t.size \in Int
        BY DEF Token
    <2> QED BY <1>2, <2>1
<1> HIDE DEF new
<1>4. /\ DOMAIN counted = 1..n
      /\ \A i \in 1..n : counted[i] = IF i = toksuper THEN [tokens[i] EXCEPT !.size = @ + 1]
                                      ELSE tokens[i]
    BY <1>2
<1>5. \A i \in 1..n : [tokens[i] EXCEPT !.size = @ + 1] \in Token
    <2>1. ASSUME NEW t \in Token PROVE [t EXCEPT !.size = @ + 1] \in Token
        BY DEF Token
    <2> QED BY <1>3, <2>1
<1>6. counted \in Seq(Token) /\ Len(counted) = n
    <2>1. \A i \in 1..n : counted[i] \in Token
        BY <1>3, <1>4, <1>5
    <2>2. counted = [i \in 1..n |-> counted[i]]
        BY <1>2
    <2> HIDE DEF counted
    <2> QED BY <1>2, <1>4, <2>1, <2>2
<1> HIDE DEF counted
<1>7. Len(tokens') = n + 1 /\ tokens'[n + 1] = new /\ \A i \in 1..n : tokens'[i] = counted[i]
    BY <1>1, <1>2, <1>6
<1>8. \A i \in 1..n : /\ counted[i].type = tokens[i].type /\ counted[i].text = tokens[i].text
                      /\ counted[i].start = tokens[i].start /\ counted[i].open = tokens[i].open
                      /\ counted[i].size = tokens[i].size + (IF i = toksuper THEN 1 ELSE 0)
    <2> SUFFICES ASSUME NEW i \in 1..n
                 PROVE  /\ counted[i].type = tokens[i].type /\ counted[i].text = tokens[i].text
                        /\ counted[i].start = tokens[i].start
                        /\ counted[i].open = tokens[i].open
                        /\ counted[i].size = tokens[i].size + (IF i = toksuper THEN 1 ELSE 0)
        OBVIOUS
    <2>1. tokens[i] \in Token
        BY <1>3
    <2> QED BY <1>3, <1>4, <2>1 DEF Token
<1> QED
    BY <1>1, <1>7, <1>8 DEF new

\* A new token for a value: it starts there, and is open where it opens.
LEMMA AllocTree ==
    ASSUME TokensOK, TreeOK, NEW is, At(is), NEW type \in {"object", "array", "string", "primitive"},
           NEW open \in BOOLEAN, Alloc(type, open),
           is = (IF open THEN Opens(type) ELSE type), open <=> type \in Containers
    PROVE  TreeOK'
<1> DEFINE n == Len(tokens)
<1>1. CASE Len(tokens) >= MaxTokens
    BY <1>1, TreeUnchanged DEF Alloc, JsmnFails
<1>2. CASE ~(Len(tokens) >= MaxTokens)
    <2>1. /\ Len(tokens') = n + 1
          /\ tokens'[n + 1] = [type |-> type, text |-> js[pos].text, start |-> pos,
                               size |-> 0, open |-> open]
          /\ \A i \in 1..n :
               /\ tokens'[i].type = tokens[i].type /\ tokens'[i].text = tokens[i].text
               /\ tokens'[i].start = tokens[i].start /\ tokens'[i].open = tokens[i].open
               /\ tokens'[i].size = tokens[i].size + (IF i = toksuper THEN 1 ELSE 0)
          /\ toksuper' = IF open THEN n + 1 ELSE toksuper
          /\ pos' = pos + 1 /\ js' = js
        BY <1>2, Allocated
    <2>2. /\ pos \in 1..Len(js) /\ pos \in Positions /\ TextOK /\ js[pos].is = is
          /\ pos \in Nat /\ pos - 1 \in Nat /\ (pos + 1) - 1 = pos /\ pos + 1 > 1
        BY KindOf
    <2>3. n \in Nat /\ toksuper \in 0..n
        BY DEF TokensOK
    <2>4. /\ IsValue(pos) /\ ~Closing(pos) /\ (Opening(pos) <=> open)
          /\ is # ":" /\ (IsScalar(pos) <=> ~open)
        BY <2>2 DEF IsValue, Closing, Opening, IsScalar, Opens, Containers
    <2> HIDE DEF n
    <2>5. StartsOK'
        <3>1. ASSUME NEW i \in 1..(n + 1)
              PROVE  /\ tokens'[i].start \in 1..pos /\ IsValue(tokens'[i].start)
                     /\ js[tokens'[i].start].is = IF tokens'[i].type \in Containers
                                                  THEN Opens(tokens'[i].type)
                                                  ELSE tokens'[i].type
                     /\ js[tokens'[i].start].text = tokens'[i].text
            <4>1. CASE i = n + 1
                BY <2>1, <2>2, <2>4, <4>1
            <4>2. CASE i # n + 1
                <5>1. i \in 1..n
                    BY <2>3, <4>2
                <5>2. /\ tokens[i].start \in 1..(pos - 1) /\ IsValue(tokens[i].start)
                      /\ TokenAt(tokens[i], tokens[i].start)
                    BY <5>1 DEF TreeOK, StartsOK, n
                <5>3. tokens'[i].start \in 1..pos
                    BY <2>1, <2>2, <5>1, <5>2
                <5>4. /\ tokens'[i].type = tokens[i].type /\ tokens'[i].text = tokens[i].text
                      /\ tokens'[i].start = tokens[i].start
                    BY <2>1, <5>1
                <5> QED BY <5>2, <5>3, <5>4 DEF TokenAt
            <4> QED BY <4>1, <4>2
        <3>2. ASSUME NEW i \in 1..(n + 1), NEW j \in 1..(n + 1), i < j
              PROVE  tokens'[i].start < tokens'[j].start
            <4>1. i \in 1..n /\ tokens'[i].start = tokens[i].start
                BY <2>1, <2>3, <3>2
            <4>2. CASE j = n + 1
                <5>1. tokens'[j].start = pos /\ tokens[i].start \in 1..(pos - 1)
                    BY <2>1, <4>1, <4>2 DEF TreeOK, StartsOK, n
                <5> QED BY <2>2, <4>1, <5>1
            <4>3. CASE j # n + 1
                <5>1. j \in 1..n
                    BY <2>3, <4>3
                <5> QED BY <2>1, <3>2, <4>1, <5>1 DEF TreeOK, StartsOK, n
            <4> QED BY <4>2, <4>3
        <3>3. ASSUME NEW q \in 1..pos, IsValue(q)
              PROVE  \E i \in 1..(n + 1) : tokens'[i].start = q
            <4>1. CASE q = pos
                BY <2>1, <2>3, <4>1
            <4>2. CASE q # pos
                <5>1. q \in 1..(pos - 1)
                    BY <2>2, <4>2
                <5>2. PICK i \in 1..n : tokens[i].start = q
                    BY <3>3, <5>1 DEF TreeOK, StartsOK, n
                <5>3. i \in 1..(n + 1) /\ tokens'[i].start = q
                    BY <2>1, <2>3, <5>2
                <5> QED BY <5>3
            <4> QED BY <4>1, <4>2
        <3>4. pos' - 1 = pos
            BY <2>1, <2>2
        <3>5. \A q : IsValue(q)' <=> IsValue(q)
            BY <2>1, SameText
        <3> QED BY <2>1, <3>1, <3>2, <3>3, <3>4, <3>5
                DEF StartsOK, TokenAt, IsValue, Opening, IsScalar
    <2>6. OpenOK'
        <3>1. Within(pos + 1) = Within(pos) \cup (IF open THEN {pos} ELSE {})
            BY <2>2, <2>4, WithinKept
        <3>2. OpenTokens' = OpenTokens \cup (IF open THEN {n + 1} ELSE {})
            <4>1. ASSUME NEW i
                  PROVE  i \in OpenTokens' <=> i \in OpenTokens \/ (i = n + 1 /\ open)
                <5>1. i \in 1..(n + 1) <=> i \in 1..n \/ i = n + 1
                    BY <2>3
                <5>2. n + 1 \notin 1..n /\ tokens'[n + 1].open = open
                    BY <2>1, <2>3
                <5> QED BY <2>1, <5>1, <5>2 DEF OpenTokens, n
            <4> QED BY <4>1
        <3>3. \A i \in OpenTokens : tokens'[i].start = tokens[i].start
            BY <2>1 DEF OpenTokens, n
        <3>4. tokens'[n + 1].start = pos
            BY <2>1
        <3>5. { tokens'[i].start : i \in OpenTokens' }
                = { tokens[i].start : i \in OpenTokens } \cup (IF open THEN {pos} ELSE {})
            BY <3>2, <3>3, <3>4
        <3>6. { tokens'[i].start : i \in OpenTokens' } = Within(pos + 1)
            BY <3>1, <3>5 DEF TreeOK, OpenOK
        <3>7. \A q \in 1..pos : Closing(q) => Matched(q)
            <4>1. \A q \in 1..pos : q \in 1..(pos - 1) \/ q = pos
                BY <2>2, UpTo
            <4> QED BY <2>4, <4>1 DEF TreeOK, OpenOK
        <3>8. pos' - 1 = pos /\ Within(pos)' = Within(pos + 1)
              /\ \A q : (Closing(q)' <=> Closing(q)) /\ (Matched(q)' <=> Matched(q))
            <4>1. Within(pos)' = Within(pos + 1)
                BY <2>1 DEF Within, Depth, Opening, Closing
            <4> QED BY <2>1, <2>2, <4>1, SameText
        <3> QED BY <3>6, <3>7, <3>8 DEF OpenOK
    <2>7. ASSUME Separated PROVE SuperOK' /\ SizesOK'
        <3>1. SuperOK /\ SizesOK
            BY <2>7 DEF TreeOK
        <3>2. StartOf(toksuper) = Parent(pos)
            <4>1. pos > 1 => ~IsScalar(pos - 1)
                BY <2>2, <2>4, <2>7 DEF Separated
            <4> QED BY <3>1, <4>1 DEF SuperOK
        <3>3. Parent(pos + 1) = Innermost(Within(pos + 1))
            BY <2>2, <2>4, ParentNext
        <3>4. SuperOK'
            <4>1. Parent(pos)' = Parent(pos + 1) /\ pos' = pos + 1
                BY <2>1 DEF Parent, Within, Depth, Opening, Closing
            <4>2. CASE open
                <5>1. Innermost(Within(pos + 1)) = pos
                    <6>1. Within(pos + 1) = Within(pos) \cup {pos}
                        BY <2>2, <2>4, <4>2, WithinKept
                    <6>2. Within(pos) \in SUBSET (1..(pos - 1))
                        BY <2>2, WithinIs
                    <6>3. Within(pos + 1) \in SUBSET (1..pos) /\ pos \in Within(pos + 1)
                          /\ \A y \in Within(pos + 1) : y <= pos
                        BY <2>2, <6>1, <6>2
                    <6> QED BY <2>2, <6>3, InnermostUnique
                <5>2. toksuper' = n + 1 /\ n + 1 # 0 /\ tokens'[n + 1].start = pos
                    BY <2>1, <2>3, <4>2
                <5>3. StartOf(toksuper)' = pos
                    BY <5>2 DEF StartOf
                <5>4. js'[pos' - 1].is # ":"
                    BY <2>1, <2>2, <2>4
                <5> QED BY <3>3, <4>1, <5>1, <5>3, <5>4 DEF SuperOK
            <4>3. CASE ~open
                <5>1. toksuper' = toksuper /\ js'[pos' - 1].is # ":"
                    BY <2>1, <2>2, <2>4, <4>3
                <5>2. toksuper = 0 => StartOf(toksuper)' = 0
                    BY <5>1 DEF StartOf
                <5>3. toksuper # 0 => /\ toksuper \in 1..n
                                      /\ StartOf(toksuper)' = StartOf(toksuper)
                                      /\ tokens'[toksuper].type = tokens[toksuper].type
                    BY <2>1, <2>3, <5>1 DEF StartOf
                <5>4. StartOf(toksuper)' = StartOf(toksuper)
                    BY <5>2, <5>3 DEF StartOf
                <5>5. IsScalar(pos - 1)' /\ pos' > 1
                    BY <2>1, <2>2, <2>4, <4>3 DEF IsScalar
                <5>6. CASE pos > 1 /\ js[pos - 1].is = ":"
                    <6>1. Left(toksuper)
                        BY <3>1, <5>6 DEF SuperOK
                    <6>2. Left(toksuper)'
                        BY <5>1, <5>3, <6>1 DEF Left
                    <6> QED BY <5>1, <5>5, <6>2 DEF SuperOK
                <5>7. CASE ~(pos > 1 /\ js[pos - 1].is = ":")
                    <6>1. Parent(pos) = Innermost(Within(pos))
                        BY <5>7 DEF Parent
                    <6>2. Within(pos + 1) = Within(pos)
                        BY <2>2, <2>4, <4>3, WithinKept
                    <6>3. StartOf(toksuper)' = Parent(pos)'
                        BY <3>2, <3>3, <4>1, <5>4, <6>1, <6>2
                    <6> QED BY <5>1, <6>3 DEF SuperOK
                <5> QED BY <5>6, <5>7
            <4> QED BY <4>2, <4>3
        <3>5. SizesOK'
            <4>1. ASSUME NEW i \in 1..(n + 1)
                  PROVE  tokens'[i].size = Cardinality(Children(tokens'[i].start, pos))
                <5>1. CASE i = n + 1
                    <6>1. tokens'[i].size = 0 /\ tokens'[i].start = pos
                        BY <2>1, <5>1
                    <6> QED BY <2>2, <6>1, NoChildrenYet
                <5>2. CASE i # n + 1
                    <6>1. i \in 1..n /\ i \in Nat /\ i # 0
                        BY <2>3, <5>2
                    <6>2. tokens[i].size = Cardinality(Children(tokens[i].start, pos - 1))
                        BY <3>1, <6>1 DEF SizesOK, n
                    <6>3. i = toksuper <=> Parent(pos) = tokens[i].start
                        <7>1. i = toksuper => Parent(pos) = tokens[i].start
                            BY <3>2, <6>1 DEF StartOf
                        <7>2. ASSUME i # toksuper, Parent(pos) = tokens[i].start PROVE FALSE
                            <8>1. tokens[i].start \in 1..(pos - 1)
                                BY <6>1 DEF TreeOK, StartsOK, n
                            <8>2. toksuper # 0
                                BY <2>2, <3>2, <7>2, <8>1 DEF StartOf
                            <8>3. toksuper \in 1..n /\ tokens[toksuper].start = tokens[i].start
                                BY <2>3, <3>2, <7>2, <8>2 DEF StartOf
                            <8>4. i < toksuper \/ toksuper < i
                                BY <2>3, <6>1, <7>2, <8>3
                            <8>5. tokens[i].start # tokens[toksuper].start
                                <9>1. tokens[toksuper].start \in 1..(pos - 1)
                                    BY <8>1, <8>3
                                <9>2. \/ tokens[i].start < tokens[toksuper].start
                                      \/ tokens[toksuper].start < tokens[i].start
                                    BY <6>1, <8>3, <8>4 DEF TreeOK, StartsOK, n
                                <9> QED BY <2>2, <8>1, <9>1, <9>2
                            <8> QED BY <8>3, <8>5
                        <7> QED BY <7>1, <7>2
                    <6>4. Cardinality(Children(tokens[i].start, pos)) =
                             Cardinality(Children(tokens[i].start, pos - 1))
                               + (IF Parent(pos) = tokens[i].start THEN 1 ELSE 0)
                        BY <2>2, <2>4, ChildrenStep
                    <6> QED BY <2>1, <6>1, <6>2, <6>3, <6>4
                <5> QED BY <5>1, <5>2
            <4>2. \A i : Children(tokens[i].start, pos - 1)' = Children(tokens'[i].start, pos)
                BY <2>1, <2>2, NextChildren
            <4> QED BY <2>1, <4>1, <4>2 DEF SizesOK
        <3> QED BY <3>4, <3>5
    <2>8. Separated' <=> Separated
        BY <2>1, SameText
    <2> QED BY <2>5, <2>6, <2>7, <2>8 DEF TreeOK
<1> QED
    BY <1>1, <1>2

\* The tokens stay when the position moves over what is no value.
LEMMA StartsKept ==
    ASSUME TextOK, pos \in 1..Len(js), StartsOK, js' = js, pos' = pos + 1, ~IsValue(pos),
           Len(tokens') = Len(tokens),
           \A i \in 1..Len(tokens) :
             /\ tokens'[i].type = tokens[i].type /\ tokens'[i].text = tokens[i].text
             /\ tokens'[i].start = tokens[i].start
    PROVE  StartsOK'
<1>1. pos \in Nat /\ pos' - 1 = pos /\ \A q \in 1..pos : q \in 1..(pos - 1) \/ q = pos
    BY UpTo DEF TextOK
<1>2. \A q : IsValue(q)' <=> IsValue(q)
    BY SameText
<1>3. ASSUME NEW i \in 1..Len(tokens)
      PROVE  /\ tokens'[i].start \in 1..pos
             /\ IsValue(tokens[i].start)' /\ TokenAt(tokens[i], tokens[i].start)'
    <2>1. /\ tokens[i].start \in 1..(pos - 1) /\ IsValue(tokens[i].start)
          /\ TokenAt(tokens[i], tokens[i].start)
        BY DEF StartsOK
    <2>2. tokens[i].start \in 1..pos
        BY <1>1, <2>1
    <2>3. IsValue(tokens[i].start)'
        BY <2>1 DEF IsValue, IsScalar, Opening
    <2> QED BY <2>1, <2>2, <2>3 DEF TokenAt
<1>4. \A q \in 1..pos : IsValue(q) => \E i \in 1..Len(tokens) : tokens'[i].start = q
    BY <1>1 DEF StartsOK
<1>5. \A i, j \in 1..Len(tokens) : i < j => tokens'[i].start < tokens'[j].start
    BY DEF StartsOK
<1> QED
    BY <1>1, <1>2, <1>3, <1>4, <1>5 DEF StartsOK

\* So do their sizes.
LEMMA SizesKept ==
    ASSUME TextOK, pos \in 1..Len(js), StartsOK, SizesOK, js' = js, pos' = pos + 1, ~IsValue(pos),
           Len(tokens') = Len(tokens),
           \A i \in 1..Len(tokens) :
             tokens'[i].start = tokens[i].start /\ tokens'[i].size = tokens[i].size
    PROVE  SizesOK'
<1>1. pos \in Nat /\ pos' - 1 = pos
    BY DEF TextOK
<1>2. ASSUME NEW i \in 1..Len(tokens)
      PROVE  tokens'[i].size = Cardinality(Children(tokens'[i].start, pos))
    <2>1. Cardinality(Children(tokens[i].start, pos)) =
            Cardinality(Children(tokens[i].start, pos - 1))
          /\ Cardinality(Children(tokens[i].start, pos - 1)) \in Nat
        BY ChildrenStep
    <2> QED BY <2>1 DEF SizesOK
<1>3. \A i : Children(tokens[i].start, pos - 1)' = Children(tokens'[i].start, pos)
    BY <1>1, NextChildren
<1> QED
    BY <1>2, <1>3 DEF SizesOK

\* A container ends: so does the bracket, which is the innermost and of its type.
LEMMA CloseTree ==
    ASSUME TokensOK, TreeOK, NEW type \in Containers, Close(type)
    PROVE  TreeOK'
<1> DEFINE c == Innermost(OpenTokens)
           m == Innermost(Within(pos))
<1>1. CASE JsmnFails("INVAL")
    BY <1>1, TreeUnchanged DEF JsmnFails
<1>2. CASE ~JsmnFails("INVAL")
    <2>1. /\ c # 0 /\ tokens[c].type = type /\ tokens' = [tokens EXCEPT ![c].open = FALSE]
          /\ toksuper' = Innermost(OpenTokens \ {c})
          /\ pos' = pos + 1 /\ js' = js
        BY <1>2 DEF Close
    <2>2. /\ pos \in 1..Len(js) /\ pos \in Positions /\ TextOK /\ js[pos].is = Closes(type)
          /\ pos \in Nat /\ pos - 1 \in Nat /\ (pos + 1) - 1 = pos /\ pos + 1 > 1
        BY KindOf DEF Close
    <2>3. Closing(pos) /\ ~IsValue(pos) /\ ~IsScalar(pos) /\ js[pos].is # ":"
        BY <2>2 DEF Closing, IsValue, IsScalar, Opening, Closes, Containers
    <2>4. c \in OpenTokens /\ c \in 1..Len(tokens) /\ Len(tokens) \in Nat
          /\ OpenTokens \in SUBSET (1..Len(tokens))
        <3>0. OpenTokens \in SUBSET (1..Len(tokens)) /\ Len(tokens) \in Nat
            BY DEF OpenTokens, TokensOK
        <3>1. OpenTokens # {}
            BY <2>1 DEF Innermost
        <3>2. c \in OpenTokens
            BY <3>1, InnermostIs
        <3> HIDE DEF c
        <3> QED BY <3>0, <3>2
    <2>5. StartOf(c) = m /\ tokens[c].start = m
        BY <2>1, <2>4, InnermostStart DEF TreeOK, OpenOK, StartOf
    <2> HIDE DEF c, m
    <2>6. m \in Within(pos) /\ Within(pos + 1) = Within(pos) \ {m}
        <3>1. m \in Within(pos)
            BY <2>4, <2>5 DEF TreeOK, OpenOK
        <3> QED BY <2>2, <2>3, <3>1, WithinClosed DEF m
    <2>7. /\ Len(tokens') = Len(tokens)
          /\ \A i \in 1..Len(tokens) :
               /\ tokens'[i].type = tokens[i].type /\ tokens'[i].text = tokens[i].text
               /\ tokens'[i].start = tokens[i].start /\ tokens'[i].size = tokens[i].size
               /\ tokens'[i].open = IF i = c THEN FALSE ELSE tokens[i].open
        <3>1. \A i \in 1..Len(tokens) : tokens[i] \in Token
            BY DEF TokensOK
        <3> DEFINE t == [tokens[c] EXCEPT !.open = FALSE]
        <3>2. /\ t \in Token /\ t.type = tokens[c].type /\ t.text = tokens[c].text
              /\ t.start = tokens[c].start /\ t.size = tokens[c].size /\ t.open = FALSE
            BY <2>4, <3>1 DEF Token
        <3>3. tokens' = [tokens EXCEPT ![c] = t]
            BY <2>1
        <3> HIDE DEF t
        <3>4. /\ Len(tokens') = Len(tokens)
              /\ \A i \in 1..Len(tokens) : tokens'[i] = IF i = c THEN t ELSE tokens[i]
            BY <2>4, <3>2, <3>3 DEF TokensOK
        <3> QED BY <3>2, <3>4
    <2>8. StartsOK'
        BY <2>1, <2>2, <2>3, <2>7, StartsKept DEF TreeOK
    <2>9. OpenTokens' = OpenTokens \ {c}
        BY <2>7 DEF OpenTokens
    <2>10. { tokens[i].start : i \in OpenTokens \ {c} } = Within(pos + 1)
        <3>1. \A i \in OpenTokens : i # c => tokens[i].start # m
            <4> SUFFICES ASSUME NEW i \in OpenTokens, i # c PROVE tokens[i].start # m
                OBVIOUS
            <4>1. i \in 1..Len(tokens) /\ (i < c \/ c < i)
                BY <2>4
            <4>2. tokens[i].start \in Int /\ tokens[c].start \in Int
                BY <2>4, <4>1 DEF TreeOK, StartsOK
            <4> QED BY <2>4, <2>5, <4>1, <4>2 DEF TreeOK, StartsOK
        <3> QED BY <2>4, <2>5, <2>6, <3>1 DEF TreeOK, OpenOK
    <2>11. OpenOK'
        <3>1. { tokens'[i].start : i \in OpenTokens' } = Within(pos + 1)
            BY <2>4, <2>7, <2>9, <2>10
        <3>2. Matched(pos)
            <4>1. js[m].is = Opens(type)
                BY <2>1, <2>4, <2>5 DEF TreeOK, StartsOK, TokenAt
            <4> QED BY <2>2, <2>6, <4>1 DEF Matched, m
        <3>3. \A q \in 1..pos : Closing(q) => Matched(q)
            <4>1. \A q \in 1..pos : q \in 1..(pos - 1) \/ q = pos
                BY <2>2, UpTo
            <4> QED BY <3>2, <4>1 DEF TreeOK, OpenOK
        <3>4. pos' - 1 = pos /\ Within(pos)' = Within(pos + 1)
              /\ \A q : (Closing(q)' <=> Closing(q)) /\ (Matched(q)' <=> Matched(q))
            <4>1. Within(pos)' = Within(pos + 1)
                BY <2>1 DEF Within, Depth, Opening, Closing
            <4> QED BY <2>1, <2>2, <4>1, SameText
        <3> QED BY <3>1, <3>3, <3>4 DEF OpenOK
    <2>12. StartOf(toksuper)' = Parent(pos)'
        <3>1. StartOf(toksuper') = Innermost(Within(pos + 1))
            <4>1. OpenTokens \ {c} \in SUBSET (1..Len(tokens))
                BY <2>4
            <4> QED BY <2>1, <2>10, <4>1, InnermostStart DEF TreeOK
        <3>2. StartOf(toksuper)' = StartOf(toksuper')
            <4>1. toksuper' \in 0..Len(tokens)
                BY <2>1, InnermostIs
            <4>2. toksuper' # 0 => toksuper' \in 1..Len(tokens)
                BY <2>4, <4>1
            <4> QED BY <2>7, <4>2 DEF StartOf
        <3>3. Parent(pos + 1) = Innermost(Within(pos + 1))
            BY <2>2, <2>3, ParentNext
        <3>4. Parent(pos)' = Parent(pos + 1)
            BY <2>1 DEF Parent, Within, Depth, Opening, Closing
        <3> QED BY <3>1, <3>2, <3>3, <3>4
    <2>13. SuperOK'
        <3>1. js'[pos' - 1].is # ":"
            BY <2>1, <2>2, <2>3
        <3> QED BY <2>12, <3>1 DEF SuperOK
    <2>14. ASSUME Separated PROVE SizesOK'
        BY <2>1, <2>2, <2>3, <2>7, <2>14, SizesKept DEF TreeOK
    <2>15. Separated' <=> Separated
        BY <2>1, SameText
    <2> QED BY <2>8, <2>11, <2>13, <2>14, <2>15 DEF TreeOK
<1> QED
    BY <1>1, <1>2

\* A colon or a comma: no token changes but the one that is counted in.
LEMMA SeparatorTree ==
    ASSUME TokensOK, TreeOK, NEW is \in {":", ","}, At(is),
           tokens' = tokens, js' = js, pos' = pos + 1,
           Separated => SuperOK'
    PROVE  TreeOK'
<1>1. /\ pos \in 1..Len(js) /\ pos \in Positions /\ TextOK /\ js[pos].is = is
      /\ pos \in Nat /\ pos - 1 \in Nat /\ (pos + 1) - 1 = pos /\ pos + 1 > 1
    BY KindOf
<1>2. ~Closing(pos) /\ ~IsValue(pos) /\ ~Opening(pos)
    BY <1>1 DEF Closing, IsValue, IsScalar, Opening
<1>3. StartsOK'
    BY <1>1, <1>2, StartsKept DEF TreeOK
<1>4. Within(pos + 1) = Within(pos)
    BY <1>1, <1>2, WithinKept
<1>5. OpenOK'
    <2>1. OpenTokens' = OpenTokens
        BY DEF OpenTokens
    <2>2. \A q \in 1..pos : Closing(q) => Matched(q)
        <3>1. \A q \in 1..pos : q \in 1..(pos - 1) \/ q = pos
            BY <1>1, UpTo
        <3> QED BY <1>2, <3>1 DEF TreeOK, OpenOK
    <2>3. pos' - 1 = pos /\ Within(pos)' = Within(pos + 1)
          /\ \A q : (Closing(q)' <=> Closing(q)) /\ (Matched(q)' <=> Matched(q))
        <3>1. js' = js /\ pos' = pos + 1
            BY <1>1
        <3>2. Within(pos)' = Within(pos + 1)
            BY <3>1 DEF Within, Depth, Opening, Closing
        <3> QED BY <1>1, <3>2, SameText
    <2> QED BY <1>4, <2>1, <2>2, <2>3 DEF TreeOK, OpenOK
<1>6. ASSUME Separated PROVE SizesOK'
    BY <1>1, <1>2, <1>6, SizesKept DEF TreeOK
<1> QED
    BY <1>3, <1>5, <1>6, SameText DEF TreeOK

\* What follows a colon belongs to the string in front of it.
LEMMA ColonTree == ASSUME TokensOK, TreeOK, Colon PROVE TreeOK'
<1>1. /\ pos \in 1..Len(js) /\ pos \in Positions /\ TextOK /\ js[pos].is = ":"
      /\ pos \in Nat /\ pos - 1 \in Nat /\ (pos + 1) - 1 = pos /\ pos + 1 > 1
    BY KindOf DEF Colon
<1>2. At(":") /\ tokens' = tokens /\ js' = js /\ pos' = pos + 1 /\ toksuper' = Len(tokens)
    BY DEF Colon
<1>3. ASSUME Separated PROVE SuperOK'
    <2> DEFINE n == Len(tokens)
    <2>1. pos > 1 /\ js[pos - 1].is = "string" /\ pos - 1 \in 1..(pos - 1)
        <3>1. pos > 1 /\ js[pos - 1].is = "string"
            BY <1>1, <1>3 DEF Separated
        <3> QED BY <1>1, <3>1
    <2>2. IsValue(pos - 1) /\ n \in Nat
        BY <2>1 DEF IsValue, IsScalar, TokensOK
    <2>3. PICK i \in 1..n : tokens[i].start = pos - 1
        BY <2>1, <2>2 DEF TreeOK, StartsOK
    <2>4. i = n
        <3>1. n \in 1..n /\ tokens[n].start \in 1..(pos - 1)
            BY <2>2, <2>3 DEF TreeOK, StartsOK
        <3>2. i < n => tokens[i].start < tokens[n].start
            BY <2>3, <3>1 DEF TreeOK, StartsOK
        <3> QED BY <1>1, <2>2, <2>3, <3>1, <3>2
    <2>5. n # 0 /\ tokens[n].start = pos - 1 /\ tokens[n].type \notin Containers
        <3>1. n # 0 /\ TokenAt(tokens[n], pos - 1)
            BY <2>2, <2>3, <2>4 DEF TreeOK, StartsOK
        <3> QED BY <2>1, <2>3, <2>4, <3>1 DEF TokenAt, Containers, Opens
    <2>6. Parent(pos + 1) = pos - 1
        BY <1>1, ParentNext
    <2>7. Parent(pos)' = Parent(pos + 1)
        BY <1>2 DEF Parent, Within, Depth, Opening, Closing
    <2>8. toksuper' = n /\ tokens' = tokens
        BY <1>2
    <2> HIDE DEF n
    <2>9. StartOf(toksuper)' = pos - 1
        BY <2>5, <2>8 DEF StartOf
    <2>10. Left(toksuper)'
        BY <2>5, <2>8 DEF Left
    <2> QED BY <2>6, <2>7, <2>9, <2>10 DEF SuperOK
<1> QED
    BY <1>2, <1>3, SeparatorTree

\* What follows a comma belongs to the innermost bracket.
LEMMA CommaTree == ASSUME TokensOK, TreeOK, Comma PROVE TreeOK'
<1>1. /\ pos \in 1..Len(js) /\ pos \in Positions /\ TextOK /\ js[pos].is = ","
      /\ pos \in Nat /\ pos - 1 \in Nat /\ (pos + 1) - 1 = pos /\ pos + 1 > 1
    BY KindOf DEF Comma
<1>2. /\ At(",") /\ tokens' = tokens /\ js' = js /\ pos' = pos + 1
      /\ toksuper' = IF toksuper # 0 /\ tokens[toksuper].type \notin Containers /\ OpenTokens # {}
                     THEN Innermost(OpenTokens) ELSE toksuper
    BY DEF Comma
<1>3. ASSUME Separated PROVE SuperOK'
    <2>1. Within(pos) # {} /\ SuperOK
        BY <1>1, <1>3 DEF Separated, TreeOK
    <2>2. OpenTokens # {} /\ OpenTokens \in SUBSET (1..Len(tokens))
        BY <2>1 DEF TreeOK, OpenOK, OpenTokens
    <2>3. StartOf(Innermost(OpenTokens)) = Innermost(Within(pos))
        BY <2>2, InnermostStart DEF TreeOK, OpenOK
    <2>4. Innermost(Within(pos)) # 0
        <3>1. Within(pos) \in SUBSET (1..(pos - 1))
            BY <1>1, WithinIs
        <3>2. Innermost(Within(pos)) \in Within(pos)
            BY <1>1, <2>1, <3>1, InnermostOf
        <3>3. \A y \in Within(pos) : y # 0
            BY <3>1
        <3> QED BY <3>2, <3>3
    <2>5. StartOf(toksuper') = Innermost(Within(pos))
        <3>1. CASE Left(toksuper)
            BY <1>2, <2>2, <2>3, <3>1 DEF Left
        <3>2. CASE ~Left(toksuper)
            <4>1. StartOf(toksuper) = Parent(pos) /\ Parent(pos) = Innermost(Within(pos))
                BY <2>1, <3>2 DEF SuperOK, Parent
            <4>2. toksuper' = toksuper
                BY <1>2, <3>2 DEF Left
            <4> QED BY <4>1, <4>2
        <3> QED BY <3>1, <3>2
    <2>6. Within(pos + 1) = Within(pos)
        <3>1. ~Closing(pos) /\ ~Opening(pos)
            BY <1>1 DEF Closing, Opening
        <3> QED BY <1>1, <3>1, WithinKept
    <2>7. Parent(pos + 1) = Innermost(Within(pos + 1))
        BY <1>1, ParentNext
    <2>8. Parent(pos)' = Parent(pos + 1)
        BY <1>2 DEF Parent, Within, Depth, Opening, Closing
    <2>9. StartOf(toksuper)' = StartOf(toksuper')
        BY <1>2 DEF StartOf
    <2>10. js'[pos' - 1].is # ":"
        BY <1>1, <1>2
    <2> QED BY <2>5, <2>6, <2>7, <2>8, <2>9, <2>10 DEF SuperOK
<1> QED
    BY <1>2, <1>3, SeparatorTree

\* The parser ends behind the text.
LEMMA EndStep == TokensOK /\ EndOK /\ jsmn_parse => EndOK'
<1> SUFFICES ASSUME TokensOK, EndOK, jsmn_parse, jtk' = "count"
             PROVE  pos' = Len(js') + 1 /\ OpenTokens' = {}
    BY DEF EndOK
<1>1. CASE End
    <2>1. pos > Len(js) /\ OpenTokens = {} /\ UNCHANGED <<js, pos, tokens>>
        BY <1>1 DEF End
    <2>2. pos = Len(js) + 1
        BY <2>1 DEF TokensOK
    <2> QED BY <2>1, <2>2 DEF OpenTokens
<1>2. CASE ~End
    <2>1. jtk = "busy" /\ jtk' \in {"busy", "INVAL", "NOMEM", "PART"}
        BY <1>2 DEF jsmn_parse, Open, Close, StringToken, PrimitiveToken, Colon, Comma, BadLexeme,
                    At, Alloc, JsmnFails
    <2> QED BY <2>1
<1> QED
    BY <1>1, <1>2

\* A step of jsmn_parse keeps the tree of the text in the tokens.
LEMMA TreeStep == TokensOK /\ TreeOK /\ jsmn_parse => TreeOK'
<1> SUFFICES ASSUME TokensOK, TreeOK, jsmn_parse PROVE TreeOK'
    OBVIOUS
<1>1. ASSUME NEW type \in Containers, Open(type) PROVE TreeOK'
    BY <1>1, AllocTree DEF Open, Containers
<1>2. ASSUME NEW type \in Containers, Close(type) PROVE TreeOK'
    BY <1>2, CloseTree
<1>3. CASE StringToken \/ PrimitiveToken
    BY <1>3, AllocTree DEF StringToken, PrimitiveToken, Containers
<1>4. CASE BadLexeme
    BY <1>4, TreeUnchanged DEF BadLexeme, JsmnFails
<1>5. CASE End
    BY <1>5, TreeUnchanged DEF End
<1> QED
    BY <1>1, <1>2, <1>3, <1>4, <1>5, ColonTree, CommaTree DEF jsmn_parse

-----------------------------------------------------------------------------
\* Two sets that share nothing are together no more than what they are part of.
LEMMA Together ==
    ASSUME NEW U, IsFiniteSet(U), NEW S \in SUBSET U, NEW T \in SUBSET U, S \cap T = {}
    PROVE  /\ Cardinality(S) \in Nat /\ Cardinality(T) \in Nat /\ Cardinality(U) \in Nat
           /\ Cardinality(S) + Cardinality(T) <= Cardinality(U)
<1>1. IsFiniteSet(S) /\ IsFiniteSet(T)
    BY FS_Subset
<1>2. Cardinality(S) \in Nat /\ Cardinality(T) \in Nat /\ Cardinality(U) \in Nat
    BY <1>1, FS_CardinalityType
<1>3. Cardinality(S \cup T) = Cardinality(S) + Cardinality(T) - Cardinality(S \cap T)
    BY <1>1, FS_Union
<1>4. Cardinality(S \cap T) = 0
    BY FS_EmptySet
<1>5. S \cup T \in SUBSET U
    OBVIOUS
<1>6. Cardinality(S \cup T) <= Cardinality(U)
    BY <1>5, FS_Subset
<1> QED
    BY <1>2, <1>3, <1>4, <1>6

\* There are at least as many indices as values that are found at them.
LEMMA Onto ==
    ASSUME NEW S, IsFiniteSet(S), NEW T, NEW f \in [S -> T], \A y \in T : \E x \in S : f[x] = y
    PROVE  IsFiniteSet(T) /\ Cardinality(T) <= Cardinality(S)
<1>1. f \in Surjection(S, T)
    BY DEF Surjection
<1> QED
    BY <1>1, FS_Surjection

\* What is within a bracket belongs to it, or to something within it.
LEMMA ParentWithin ==
    ASSUME TextOK, NEW q \in Positions, NEW s \in Within(q)
    PROVE  Parent(q) >= s
<1>1. q \in Nat /\ q - 1 \in Nat /\ Within(q) \in SUBSET (1..(q - 1)) /\ Opening(s)
    BY WithinIs DEF TextOK, Positions
<1>2. s \in 1..(q - 1)
    BY <1>1
<1>3. CASE q > 1 /\ js[q - 1].is = ":"
    <2>1. s # q - 1
        BY <1>1, <1>3 DEF Opening
    <2>2. Parent(q) = q - 2
        BY <1>3 DEF Parent
    <2> QED BY <1>1, <1>2, <2>1, <2>2
<1>4. CASE ~(q > 1 /\ js[q - 1].is = ":")
    <2>1. Parent(q) = Innermost(Within(q))
        BY <1>4 DEF Parent
    <2>2. s <= Innermost(Within(q))
        BY <1>1, InnermostOf
    <2>3. Innermost(Within(q)) \in 0..(q - 1)
        BY <1>1, InnermostOf
    <2> QED BY <1>1, <1>2, <2>1, <2>2, <2>3
<1> QED
    BY <1>3, <1>4

\* An object begins at q.
ObjectAt(q) == js[q].is = "{"

\* A member of an object is a key and, two lexemes further, its value, and both
\* are within the object.
LEMMA MemberInside ==
    ASSUME TextOK, Separated, MembersNamed, NEW s \in 1..Len(js), ObjectAt(s),
           NEW k \in 1..Len(js), k \in Children(s, Len(js))
    PROVE  /\ k \in (s + 1)..Len(js) /\ k + 2 \in 1..Len(js)
           /\ IsValue(k) /\ Parent(k) = s /\ IsValue(k + 2) /\ Parent(k + 2) = k
           /\ s \in Within(k) /\ s \in Within(k + 2)
<1>1. IsValue(k) /\ Parent(k) = s
    BY DEF Children
<1>2. Len(js) \in Nat
    BY DEF TextOK
<1>3. s \in Nat /\ s # 0 /\ k \in Nat /\ k - 1 \in Nat
    BY <1>1, <1>2
<1>4. js[k].is = "string" /\ k + 2 <= Len(js) /\ js[k + 1].is = ":" /\ IsValue(k + 2)
    BY <1>1, <1>3 DEF MembersNamed, ObjectAt
<1>5. /\ k + 1 \in 1..Len(js) /\ k + 2 \in 1..Len(js) /\ (k + 1) + 1 = k + 2
      /\ k \in 1..(Len(js) + 1)
    BY <1>1, <1>2, <1>3, <1>4
<1>6. k \in Positions
    BY <1>5 DEF Positions
<1>7. s \in 0..(k - 1)
    BY <1>1, <1>6, ParentIs
<1>8. s \in Within(k)
    <2>1. CASE k > 1 /\ js[k - 1].is = ":"
        <3>1. k - 1 \in 1..Len(js)
            BY <1>1, <1>2, <1>3, <2>1
        <3>2. js[(k - 1) - 1].is = "string"
            BY <2>1, <3>1 DEF Separated
        <3>a. (k - 1) - 1 = k - 2
            BY <1>3
        <3>3. Parent(k) = k - 2
            BY <2>1 DEF Parent
        <3>4. js[s].is = "string"
            BY <1>1, <3>2, <3>a, <3>3
        <3> QED BY <3>4 DEF ObjectAt
    <2>2. CASE ~(k > 1 /\ js[k - 1].is = ":")
        <3>1. Innermost(Within(k)) = s
            BY <1>1, <2>2 DEF Parent
        <3>2. Within(k) \in SUBSET (1..(k - 1))
            BY <1>6, WithinIs
        <3>3. Within(k) # {}
            BY <1>3, <3>1 DEF Innermost
        <3> QED BY <1>3, <3>1, <3>2, <3>3, InnermostOf
    <2> QED BY <2>1, <2>2
<1>9. s \in Within(k + 1)
    <2>1. ~Closing(k)
        BY <1>4 DEF Closing
    <2> QED BY <1>1, <1>8, <2>1, WithinKept
<1>10. s \in Within(k + 2)
    <2>1. ~Closing(k + 1)
        BY <1>4 DEF Closing
    <2>2. s \in Within((k + 1) + 1)
        BY <1>5, <1>9, <2>1, WithinKept
    <2> QED BY <1>5, <2>2
<1>11. Parent(k + 2) = k
    <2>1. Parent((k + 1) + 1) = (k + 1) - 1
        BY <1>4, <1>5, ParentNext
    <2>2. (k + 1) - 1 = k
        BY <1>3
    <2> QED BY <1>5, <2>1, <2>2
<1>12. k \in (s + 1)..Len(js)
    BY <1>1, <1>2, <1>3, <1>7
<1> QED
    BY <1>1, <1>4, <1>5, <1>8, <1>10, <1>11, <1>12

-----------------------------------------------------------------------------
\* The text has been read.
Parsed == TokensOK /\ StartsOK /\ SizesOK /\ pos = Len(js) + 1

\* What the value of a token belongs to, and the tokens that belong to one.
Above(i) == Parent(tokens[i].start)
Kids(k) == { i \in 1..Len(tokens) : Above(i) = tokens[k].start }

\* The tokens behind the j-th that belong to it or to one in front of it.
Ready(j) == { i \in (j + 1)..Len(tokens) : Above(i) \in 1..tokens[j].start }

\* The tokens behind the e-th that belong to one in front of the b-th.
Outer(b, e) == { i \in (e + 1)..Len(tokens) : Above(i) \in 1..(tokens[b].start - 1) }

\* A token starts at a value, and belongs to something in front of it.
LEMMA StartIs ==
    ASSUME Parsed, NEW i \in 1..Len(tokens)
    PROVE  /\ tokens[i].start \in 1..Len(js) /\ tokens[i].start \in Positions
           /\ IsValue(tokens[i].start) /\ Above(i) \in 0..(tokens[i].start - 1)
           /\ tokens[i].start \in Nat /\ tokens[i].size \in Nat
           /\ \A j \in 1..Len(tokens) : /\ i < j => tokens[i].start < tokens[j].start
                                        /\ tokens[j].start \in Nat
<1>1. Len(js) \in Nat /\ pos - 1 = Len(js) /\ TextOK
    BY DEF Parsed, TokensOK, TextOK
<1>2. \A j \in 1..Len(tokens) : tokens[j].start \in 1..Len(js) /\ IsValue(tokens[j].start)
    BY <1>1 DEF Parsed, StartsOK
<1>3. tokens[i].start \in Positions /\ tokens[i].start \in Nat
    BY <1>1, <1>2 DEF Positions
<1>4. Above(i) \in 0..(tokens[i].start - 1)
    BY <1>1, <1>3, ParentIs DEF Above
<1>5. tokens[i].size \in Nat
    <2>1. tokens[i] \in Token
        BY DEF Parsed, TokensOK
    <2> QED BY <2>1 DEF Token
<1>6. \A j \in 1..Len(tokens) : /\ i < j => tokens[i].start < tokens[j].start
                                /\ tokens[j].start \in Nat
    BY <1>1, <1>2 DEF Parsed, StartsOK
<1> QED
    BY <1>2, <1>3, <1>4, <1>5, <1>6

\* The tokens are in the order of the text.
LEMMA InOrder ==
    ASSUME Parsed, NEW i \in 1..Len(tokens), NEW j \in 1..Len(tokens),
           tokens[i].start < tokens[j].start
    PROVE  i < j
<1>1. Len(tokens) \in Nat /\ tokens[i].start \in Nat /\ tokens[j].start \in Nat
    BY StartIs DEF Parsed, TokensOK
<1>2. ~(j < i)
    <2>1. SUFFICES ASSUME j < i PROVE FALSE
        OBVIOUS
    <2>2. tokens[j].start < tokens[i].start
        BY <2>1, StartIs
    <2> QED BY <1>1, <2>2
<1>3. i # j
    BY <1>1
<1> QED
    BY <1>1, <1>2, <1>3

\* As many tokens belong to one as it counts, all behind it.
LEMMA KidsAre ==
    ASSUME Parsed, NEW k \in 1..Len(tokens)
    PROVE  /\ IsFiniteSet(Kids(k)) /\ Cardinality(Kids(k)) \in Nat
           /\ tokens[k].size <= Cardinality(Kids(k))
           /\ \A i \in Kids(k) : i \in (k + 1)..Len(tokens)
<1> DEFINE C == Children(tokens[k].start, Len(js))
           f == [i \in Kids(k) |-> tokens[i].start]
<1>1. Len(tokens) \in Nat /\ Kids(k) \in SUBSET (1..Len(tokens)) /\ pos - 1 = Len(js)
    BY DEF Parsed, TokensOK, Kids
<1>2. IsFiniteSet(Kids(k))
    <2>1. IsFiniteSet(1..Len(tokens))
        BY <1>1, FS_Interval
    <2> QED BY <1>1, <2>1, FS_Subset
<1>3. ASSUME NEW i \in Kids(k) PROVE tokens[i].start \in C
    <2>1. i \in 1..Len(tokens) /\ Above(i) = tokens[k].start
        BY DEF Kids
    <2> QED BY <2>1, StartIs DEF Children, Above
<1>4. ASSUME NEW q \in C PROVE \E i \in Kids(k) : f[i] = q
    <2>1. q \in 1..(pos - 1) /\ IsValue(q) /\ Parent(q) = tokens[k].start
        BY <1>1 DEF Children
    <2>2. PICK i \in 1..Len(tokens) : tokens[i].start = q
        BY <2>1 DEF Parsed, StartsOK
    <2>3. i \in Kids(k)
        BY <2>1, <2>2 DEF Kids, Above
    <2> QED BY <2>2, <2>3
<1>5. f \in [Kids(k) -> C]
    BY <1>3
<1>6. tokens[k].size = Cardinality(C)
    BY <1>1 DEF Parsed, SizesOK
<1> HIDE DEF f, C
<1>7. Cardinality(C) <= Cardinality(Kids(k))
    BY <1>2, <1>4, <1>5, Onto
<1>8. ASSUME NEW i \in Kids(k) PROVE i \in (k + 1)..Len(tokens)
    <2>1. i \in 1..Len(tokens) /\ Above(i) = tokens[k].start
        BY DEF Kids
    <2>2. tokens[k].start < tokens[i].start
        BY <2>1, StartIs
    <2>3. k < i
        BY <2>1, <2>2, InOrder
    <2> QED BY <1>1, <2>1, <2>3
<1> QED
    BY <1>2, <1>6, <1>7, <1>8, FS_CardinalityType

\* Sets of tokens are finite.
LEMMA ReadyIs ==
    ASSUME Parsed, NEW j \in 1..Len(tokens), NEW b \in 1..Len(tokens)
    PROVE  /\ Ready(j) \in SUBSET ((j + 1)..Len(tokens)) /\ IsFiniteSet(Ready(j))
           /\ Cardinality(Ready(j)) \in Nat
           /\ Outer(b, j) \in SUBSET ((j + 1)..Len(tokens)) /\ IsFiniteSet(Outer(b, j))
           /\ Cardinality(Outer(b, j)) \in Nat
<1>1. Len(tokens) \in Nat /\ j + 1 \in Int
    BY DEF Parsed, TokensOK
<1>2. Ready(j) \in SUBSET ((j + 1)..Len(tokens)) /\ Outer(b, j) \in SUBSET ((j + 1)..Len(tokens))
    BY DEF Ready, Outer
<1>3. IsFiniteSet(Ready(j)) /\ IsFiniteSet(Outer(b, j))
    <2>1. IsFiniteSet((j + 1)..Len(tokens))
        BY <1>1, FS_Interval
    <2> QED BY <1>2, <2>1, FS_Subset
<1> QED
    BY <1>2, <1>3, FS_CardinalityType

\* Where tokens are ready, there is a next one.
LEMMA ReadyAhead ==
    ASSUME Parsed, NEW j \in 1..Len(tokens), Cardinality(Ready(j)) > 0
    PROVE  j + 1 \in 1..Len(tokens)
<1>1. Ready(j) # {}
    BY FS_EmptySet
<1>2. PICK i : i \in (j + 1)..Len(tokens)
    BY <1>1, ReadyIs
<1> QED
    BY <1>2 DEF Parsed, TokensOK

\* A token makes those ready that belong to it.
LEMMA ReadyKids ==
    ASSUME Parsed, NEW j \in 1..Len(tokens)
    PROVE  Kids(j) \in SUBSET Ready(j) /\ tokens[j].size <= Cardinality(Ready(j))
<1>1. ASSUME NEW i \in Kids(j) PROVE i \in Ready(j)
    <2>1. i \in (j + 1)..Len(tokens) /\ Above(i) = tokens[j].start
        BY KidsAre DEF Kids
    <2>2. tokens[j].start \in 1..tokens[j].start
        BY StartIs
    <2> QED BY <2>1, <2>2 DEF Ready
<1>2. Kids(j) \in SUBSET Ready(j)
    BY <1>1
<1>3. Cardinality(Kids(j)) <= Cardinality(Ready(j))
    BY <1>2, ReadyIs, FS_Subset
<1>4. tokens[j].size <= Cardinality(Kids(j)) /\ Cardinality(Kids(j)) \in Nat
    BY KidsAre
<1>5. tokens[j].size \in Nat /\ Cardinality(Ready(j)) \in Nat
    BY StartIs, ReadyIs
<1> QED
    BY <1>2, <1>3, <1>4, <1>5

\* The next token is taken, and those that belong to it become ready.
LEMMA ReadyStep ==
    ASSUME Parsed, NEW j \in 1..Len(tokens), j + 1 \in 1..Len(tokens)
    PROVE  Cardinality(Ready(j + 1)) >= Cardinality(Ready(j)) - 1 + tokens[j + 1].size
<1> DEFINE n == j + 1
           R == Ready(j) \ {n}
<1>1. n \in 1..Len(tokens) /\ n \in Nat /\ j \in Nat /\ j < n /\ Len(tokens) \in Nat
    BY DEF Parsed, TokensOK
<1>2. tokens[j].start < tokens[n].start /\ tokens[j].start \in Nat /\ tokens[n].start \in Nat
    BY <1>1, StartIs
<1>3. ASSUME NEW i \in R PROVE i \in Ready(n) /\ i \notin Kids(n)
    <2>1. i \in (j + 1)..Len(tokens) /\ i # n /\ Above(i) \in 1..tokens[j].start
        BY DEF Ready
    <2>2. i \in (n + 1)..Len(tokens)
        BY <1>1, <2>1
    <2>3. Above(i) \in 1..tokens[n].start /\ Above(i) # tokens[n].start
        BY <1>2, <2>1
    <2> QED BY <2>2, <2>3 DEF Ready, Kids
<1>4. Cardinality(R) >= Cardinality(Ready(j)) - 1 /\ Cardinality(R) \in Nat
    <2>1. IsFiniteSet(Ready(j)) /\ Cardinality(Ready(j)) \in Nat
        BY ReadyIs
    <2>2. IsFiniteSet(R) /\ Cardinality(R) = IF n \in Ready(j) THEN Cardinality(Ready(j)) - 1
                                              ELSE Cardinality(Ready(j))
        BY <2>1, FS_RemoveElement
    <2>3. Cardinality(R) \in Nat
        BY <2>2, FS_CardinalityType
    <2> QED BY <2>1, <2>2, <2>3
<1>5. R \in SUBSET Ready(n) /\ R \cap Kids(n) = {}
    BY <1>3
<1> HIDE DEF R, n
<1>6. Kids(n) \in SUBSET Ready(n) /\ IsFiniteSet(Ready(n))
    BY <1>1, ReadyKids, ReadyIs
<1>7. Cardinality(R) + Cardinality(Kids(n)) <= Cardinality(Ready(n))
    BY <1>5, <1>6, Together
<1>8. tokens[n].size <= Cardinality(Kids(n)) /\ tokens[n].size \in Nat
      /\ Cardinality(Kids(n)) \in Nat /\ Cardinality(Ready(n)) \in Nat
      /\ Cardinality(Ready(j)) \in Nat
    BY <1>1, KidsAre, ReadyIs, StartIs
<1>9. Cardinality(Ready(n)) >= Cardinality(Ready(j)) - 1 + tokens[n].size
    BY <1>4, <1>7, <1>8
<1> QED
    BY <1>9 DEF n

\* What is open in front of a position is open everywhere from it to there.
LEMMA WithinDown ==
    ASSUME TextOK, NEW q \in Positions, NEW s \in Within(q), NEW p \in Positions, s < p, p <= q
    PROVE  s \in Within(p)
<1>1. Len(js) \in Nat /\ p \in Nat /\ q \in Nat
    BY DEF TextOK, Positions
<1>2. s \in 1..(q - 1) /\ Opening(s) /\ \A r \in (s + 1)..q : Depth(r) > Depth(s)
    BY DEF Within
<1>3. s \in 1..(p - 1)
    BY <1>1, <1>2
<1>4. ASSUME NEW r \in (s + 1)..p PROVE Depth(r) > Depth(s)
    <2>1. r \in (s + 1)..q
        BY <1>1, <1>2
    <2> QED BY <1>2, <2>1
<1> QED
    BY <1>2, <1>3, <1>4 DEF Within

\* The tokens of what is within the value of a token.
Inner(b) == { i \in 1..Len(tokens) : tokens[b].start \in Within(tokens[i].start) }

\* They are the tokens behind it, up to some token.
LEMMA InnerIs ==
    ASSUME Parsed, NEW b \in 1..Len(tokens)
    PROVE  \E e \in b..Len(tokens) : Inner(b) = (b + 1)..e
<1> DEFINE s == tokens[b].start
           D == Inner(b)
           e == IF D = {} THEN b ELSE Innermost(D)
<1>1. TextOK /\ Len(tokens) \in Nat /\ Len(js) \in Nat
    BY DEF Parsed, TokensOK, TextOK
<1>2. s \in Nat /\ b \in Nat
    BY <1>1, StartIs
<1>3. ASSUME NEW i \in D PROVE i \in (b + 1)..Len(tokens)
    <2>1. i \in 1..Len(tokens) /\ s \in Within(tokens[i].start)
        BY DEF Inner
    <2>2. tokens[i].start \in Positions /\ tokens[i].start \in Nat
        BY <2>1, StartIs
    <2>3. Within(tokens[i].start) \in SUBSET (1..(tokens[i].start - 1))
        BY <1>1, <2>2, WithinIs
    <2>4. s < tokens[i].start
        BY <1>2, <2>1, <2>2, <2>3
    <2>5. b < i
        BY <2>1, <2>4, InOrder
    <2> QED BY <1>1, <1>2, <2>1, <2>5
<1>4. ASSUME NEW j \in D, NEW i \in (b + 1)..j PROVE i \in D
    <2>1. j \in (b + 1)..Len(tokens) /\ s \in Within(tokens[j].start)
        BY <1>3 DEF Inner
    <2>2. i \in 1..Len(tokens) /\ j \in 1..Len(tokens) /\ b < i /\ i <= j /\ i \in Nat /\ j \in Nat
        BY <1>1, <1>2, <2>1
    <2>3. /\ tokens[i].start \in Positions /\ tokens[i].start \in Nat
          /\ tokens[j].start \in Positions /\ tokens[j].start \in Nat
        BY <2>2, StartIs
    <2>4. s < tokens[i].start
        BY <2>2, StartIs
    <2>5. tokens[i].start <= tokens[j].start
        <3>1. CASE i = j
            BY <2>3, <3>1
        <3>2. CASE i # j
            <4>1. i < j
                BY <2>2, <3>2
            <4>2. tokens[i].start < tokens[j].start
                BY <2>2, <4>1, StartIs
            <4> QED BY <2>3, <4>2
        <3> QED BY <3>1, <3>2
    <2>6. s \in Within(tokens[i].start)
        BY <1>1, <2>1, <2>3, <2>4, <2>5, WithinDown
    <2> QED BY <2>2, <2>6 DEF Inner
<1> HIDE DEF D, s
<1>5. D \in SUBSET (1..Len(tokens))
    BY <1>1, <1>2, <1>3
<1>6. CASE D = {}
    <2>1. D = (b + 1)..b /\ b \in b..Len(tokens)
        BY <1>1, <1>2, <1>6
    <2> QED BY <2>1 DEF D
<1>7. CASE D # {}
    <2>1. Innermost(D) \in D /\ \A y \in D : y <= Innermost(D)
        BY <1>1, <1>5, <1>7, InnermostOf
    <2>2. Innermost(D) \in (b + 1)..Len(tokens)
        BY <1>3, <2>1
    <2>3. \A y \in D : y \in (b + 1)..Len(tokens) /\ y <= Innermost(D)
        BY <1>3, <2>1
    <2>4. \A y \in D : y \in (b + 1)..Innermost(D)
        BY <1>1, <1>2, <2>2, <2>3
    <2>5. \A y \in (b + 1)..Innermost(D) : y \in D
        BY <1>4, <2>1
    <2>6. D = (b + 1)..Innermost(D)
        BY <2>4, <2>5
    <2>7. Innermost(D) \in b..Len(tokens)
        BY <1>1, <1>2, <2>2
    <2> QED BY <2>6, <2>7 DEF D
<1> QED
    BY <1>6, <1>7

\* Each member of an object adds a key and a value.
LEMMA MemberTokens ==
    ASSUME Parsed, Separated, MembersNamed, NEW b \in 1..Len(tokens),
           tokens[b].type = "object"
    PROVE  \E e \in b..Len(tokens) :
               /\ b + 2 * tokens[b].size <= e
               /\ \A i \in (b + 1)..e : Above(i) >= tokens[b].start
<1> DEFINE s == tokens[b].start
           n == Len(js)
           C == Children(s, n)
           V == { v \in 1..n : v - 2 \in C }
           W == { tokens[i].start : i \in Inner(b) }
<1>1. TextOK /\ Len(tokens) \in Nat /\ n \in Nat /\ pos - 1 = n
    BY DEF Parsed, TokensOK, TextOK
<1>2. PICK e \in b..Len(tokens) : Inner(b) = (b + 1)..e
    BY InnerIs
<1>3. s \in 1..n /\ b \in Nat /\ e \in Nat /\ b <= e
    BY <1>1, <1>2, StartIs
<1>4. ObjectAt(s)
    <2>1. TokenAt(tokens[b], s)
        BY <1>1 DEF Parsed, StartsOK
    <2> QED BY <2>1 DEF TokenAt, Containers, Opens, ObjectAt
<1>5. ASSUME NEW i \in Inner(b)
      PROVE  i \in 1..Len(tokens) /\ s \in Within(tokens[i].start) /\ Above(i) >= s
    <2>1. i \in 1..Len(tokens) /\ s \in Within(tokens[i].start)
        BY DEF Inner
    <2>2. tokens[i].start \in Positions
        BY <2>1, StartIs
    <2> QED BY <1>1, <2>1, <2>2, ParentWithin DEF Above
<1>6. ASSUME NEW q \in 1..n, IsValue(q), s \in Within(q) PROVE q \in W
    <2>1. q \in 1..(pos - 1)
        BY <1>1
    <2>2. PICK i \in 1..Len(tokens) : tokens[i].start = q
        BY <1>6, <2>1 DEF Parsed, StartsOK
    <2>3. i \in Inner(b)
        BY <1>6, <2>2 DEF Inner
    <2> QED BY <2>2, <2>3
<1>7. ASSUME NEW k \in C
      PROVE  /\ k \in (s + 1)..n /\ k + 2 \in 1..n /\ Parent(k) = s /\ Parent(k + 2) = k
             /\ k \in W /\ k + 2 \in W
    <2>1. k \in 1..n
        BY DEF Children
    <2>2. /\ k \in (s + 1)..n /\ k + 2 \in 1..n
          /\ IsValue(k) /\ Parent(k) = s /\ IsValue(k + 2) /\ Parent(k + 2) = k
          /\ s \in Within(k) /\ s \in Within(k + 2)
        BY <1>1, <1>3, <1>4, <2>1, MemberInside
    <2> QED BY <1>6, <2>1, <2>2
<1>8. tokens[b].size = Cardinality(C)
    BY <1>1 DEF Parsed, SizesOK
<1>9. Cardinality(Inner(b)) = e - b /\ IsFiniteSet(Inner(b))
    <2>1. /\ IsFiniteSet((b + 1)..e)
          /\ Cardinality((b + 1)..e) = IF b + 1 > e THEN 0 ELSE e - (b + 1) + 1
        <3>1. b + 1 \in Int /\ e \in Int
            BY <1>3
        <3> QED BY <3>1, FS_Interval
    <2> QED BY <1>2, <1>3, <2>1
<1>10. IsFiniteSet(W) /\ Cardinality(W) <= Cardinality(Inner(b))
    <2> DEFINE f == [i \in Inner(b) |-> tokens[i].start]
    <2>1. f \in [Inner(b) -> W] /\ \A y \in W : \E i \in Inner(b) : f[i] = y
        OBVIOUS
    <2> HIDE DEF f, W
    <2> QED BY <1>9, <2>1, Onto
<1>11. V \in SUBSET W /\ C \in SUBSET W /\ C \cap V = {}
    <2>1. ASSUME NEW v \in V PROVE v \in W /\ v \notin C
        <3>1. v \in 1..n /\ v - 2 \in C /\ (v - 2) + 2 = v
            BY <1>1
        <3>2. v \in W /\ Parent(v) = v - 2 /\ v - 2 \in (s + 1)..n
            BY <1>7, <3>1
        <3>3. Parent(v) # s
            BY <1>1, <1>3, <3>2
        <3> QED BY <1>7, <3>2, <3>3
    <2> QED BY <1>7, <2>1
<1>12. Cardinality(C) <= Cardinality(V)
    <2> DEFINE f == [v \in V |-> v - 2]
    <2>1. f \in [V -> C]
        OBVIOUS
    <2>2. ASSUME NEW k \in C PROVE \E v \in V : f[v] = k
        <3>1. k \in (s + 1)..n /\ k + 2 \in 1..n
            BY <1>7
        <3>2. (k + 2) - 2 = k
            BY <1>1, <1>3, <3>1
        <3>3. k + 2 \in V
            BY <3>1, <3>2
        <3>4. f[k + 2] = k
            BY <3>2, <3>3
        <3> QED BY <3>3, <3>4
    <2>3. IsFiniteSet(V)
        BY <1>10, <1>11, FS_Subset
    <2> HIDE DEF f, V, C
    <2> QED BY <2>1, <2>2, <2>3, Onto
<1> HIDE DEF C, V, W, s
<1>13. /\ Cardinality(C) \in Nat /\ Cardinality(V) \in Nat /\ Cardinality(W) \in Nat
       /\ Cardinality(C) + Cardinality(V) <= Cardinality(W)
    BY <1>10, <1>11, Together
<1>14. b + 2 * tokens[b].size <= e
    BY <1>3, <1>8, <1>9, <1>10, <1>12, <1>13
<1>15. \A i \in (b + 1)..e : Above(i) >= tokens[b].start
    BY <1>2, <1>5 DEF s
<1> QED
    BY <1>2, <1>14, <1>15

\* Of the tokens that are ready when an object begins, none but it belongs to
\* the members of the object.
LEMMA OuterOf ==
    ASSUME Parsed, NEW a \in 1..Len(tokens), NEW b \in 1..Len(tokens), b = a + 1,
           NEW e \in b..Len(tokens), \A i \in (b + 1)..e : Above(i) >= tokens[b].start
    PROVE  Cardinality(Ready(a)) - 1 <= Cardinality(Outer(b, e))
<1> DEFINE R == Ready(a) \ {b}
<1>1. Len(tokens) \in Nat /\ a \in Nat /\ b \in Nat /\ e \in Nat /\ b <= e /\ a < b
      /\ e \in 1..Len(tokens)
    BY DEF Parsed, TokensOK
<1>2. tokens[a].start < tokens[b].start /\ tokens[a].start \in Nat /\ tokens[b].start \in Nat
    BY <1>1, StartIs
<1>3. ASSUME NEW i \in R PROVE i \in Outer(b, e)
    <2>1. i \in (a + 1)..Len(tokens) /\ Above(i) \in 1..tokens[a].start /\ i # b
        BY DEF Ready
    <2>2. i \in (b + 1)..Len(tokens) /\ ~(Above(i) >= tokens[b].start)
        BY <1>1, <1>2, <2>1
    <2>3. i \in (e + 1)..Len(tokens)
        BY <1>1, <2>2
    <2>4. Above(i) \in 1..(tokens[b].start - 1)
        BY <1>2, <2>1
    <2> QED BY <2>3, <2>4 DEF Outer
<1>4. Cardinality(R) >= Cardinality(Ready(a)) - 1
    <2>1. IsFiniteSet(Ready(a)) /\ Cardinality(Ready(a)) \in Nat
        BY ReadyIs
    <2>2. Cardinality(R) = IF b \in Ready(a) THEN Cardinality(Ready(a)) - 1
                           ELSE Cardinality(Ready(a))
        BY <2>1, FS_RemoveElement
    <2> QED BY <2>1, <2>2
<1>5. R \in SUBSET Outer(b, e) /\ IsFiniteSet(Outer(b, e))
    BY <1>1, <1>3, ReadyIs
<1> HIDE DEF R
<1>6. Cardinality(R) <= Cardinality(Outer(b, e)) /\ IsFiniteSet(R)
    BY <1>5, FS_Subset
<1>7. Cardinality(R) \in Nat /\ Cardinality(Outer(b, e)) \in Nat /\ Cardinality(Ready(a)) \in Nat
    BY <1>5, <1>6, ReadyIs, FS_CardinalityType
<1> QED
    BY <1>4, <1>6, <1>7

\* From anywhere in the object, its tokens and those beyond it are ready.
LEMMA ReadyFromOuter ==
    ASSUME Parsed, NEW b \in 1..Len(tokens), NEW j \in b..Len(tokens), NEW e \in j..Len(tokens)
    PROVE  Cardinality(Ready(j)) >= tokens[j].size + Cardinality(Outer(b, e))
<1>1. /\ Len(tokens) \in Nat /\ b \in Nat /\ j \in Nat /\ e \in Nat /\ b <= j /\ j <= e
      /\ e \in 1..Len(tokens) /\ j \in 1..Len(tokens)
    BY DEF Parsed, TokensOK
<1>2. tokens[b].start <= tokens[j].start /\ tokens[j].start \in Nat /\ tokens[b].start \in Nat
    <2>1. tokens[j].start \in Nat /\ tokens[b].start \in Nat
        BY <1>1, StartIs
    <2>2. CASE b = j
        BY <2>1, <2>2
    <2>3. CASE b # j
        <3>1. b < j
            BY <1>1, <2>3
        <3>2. tokens[b].start < tokens[j].start
            BY <1>1, <3>1, StartIs
        <3> QED BY <2>1, <3>2
    <2> QED BY <2>1, <2>2, <2>3
<1>3. ASSUME NEW i \in Outer(b, e) PROVE i \in Ready(j) /\ i \notin Kids(j)
    <2>1. i \in (e + 1)..Len(tokens) /\ Above(i) \in 1..(tokens[b].start - 1)
        BY DEF Outer
    <2>2. i \in (j + 1)..Len(tokens)
        BY <1>1, <2>1
    <2>3. Above(i) \in 1..tokens[j].start /\ Above(i) # tokens[j].start
        BY <1>2, <2>1
    <2> QED BY <2>2, <2>3 DEF Ready, Kids
<1>4. Outer(b, e) \in SUBSET Ready(j) /\ Kids(j) \cap Outer(b, e) = {}
    BY <1>3
<1>5. Kids(j) \in SUBSET Ready(j) /\ IsFiniteSet(Ready(j))
    BY <1>1, ReadyKids, ReadyIs
<1>6. /\ Cardinality(Kids(j)) \in Nat /\ Cardinality(Outer(b, e)) \in Nat
      /\ Cardinality(Ready(j)) \in Nat
      /\ Cardinality(Kids(j)) + Cardinality(Outer(b, e)) <= Cardinality(Ready(j))
    BY <1>4, <1>5, Together
<1>7. tokens[j].size <= Cardinality(Kids(j)) /\ tokens[j].size \in Nat
    BY <1>1, KidsAre, StartIs
<1> QED
    BY <1>6, <1>7

-----------------------------------------------------------------------------
\* The calls fs have m children still to visit, all together.
Pending(fs, m) ==
    \E f \in [1..(Len(fs) + 1) -> Nat] :
        /\ f[Len(fs) + 1] = 0
        /\ \A k \in 1..Len(fs) : f[k] = fs[k].left + f[k + 1]
        /\ m = f[1]

\* No call has none.
LEMMA PendingNone == Pending(<<>>, 0)
<1> DEFINE f == [k \in 1..1 |-> 0]
<1>1. f \in [1..1 -> Nat] /\ f[1] = 0
    OBVIOUS
<1>2. Len(<<>>) = 0 /\ 0 + 1 = 1
    OBVIOUS
<1> HIDE DEF f
<1> QED
    BY <1>1, <1>2 DEF Pending

\* A call that begins adds its own.
LEMMA PendingPush ==
    ASSUME NEW F, NEW fs \in Seq(F), NEW g, g.left \in Nat, NEW m \in Nat, Pending(fs, m)
    PROVE  Pending(<<g>> \o fs, g.left + m)
<1>1. PICK f \in [1..(Len(fs) + 1) -> Nat] :
          /\ f[Len(fs) + 1] = 0
          /\ \A k \in 1..Len(fs) : f[k] = fs[k].left + f[k + 1]
          /\ m = f[1]
    BY DEF Pending
<1> DEFINE gs == <<g>> \o fs
           h == [k \in 1..(Len(fs) + 2) |-> IF k = 1 THEN g.left + m ELSE f[k - 1]]
<1>2. Len(fs) \in Nat /\ gs \in Seq(F \cup {g}) /\ Len(gs) = Len(fs) + 1
      /\ gs[1] = g /\ \A k \in 2..Len(gs) : gs[k] = fs[k - 1]
    OBVIOUS
<1>3. h \in [1..(Len(gs) + 1) -> Nat]
    BY <1>1, <1>2
<1>4. h[Len(gs) + 1] = 0
    BY <1>1, <1>2
<1>5. ASSUME NEW k \in 1..Len(gs) PROVE h[k] = gs[k].left + h[k + 1]
    <2>1. CASE k = 1
        <3>1. h[1] = g.left + m /\ h[2] = f[1] /\ k + 1 = 2
            BY <1>2, <2>1
        <3> QED BY <1>1, <1>2, <2>1, <3>1
    <2>2. CASE k # 1
        <3>1. k \in 2..Len(gs) /\ k - 1 \in 1..Len(fs) /\ (k - 1) + 1 = k
            BY <1>2, <2>2
        <3>2. h[k] = f[k - 1] /\ h[k + 1] = f[k]
            BY <1>2, <3>1
        <3> QED BY <1>1, <1>2, <3>1, <3>2
    <2> QED BY <2>1, <2>2
<1>6. g.left + m = h[1]
    BY <1>2
<1> HIDE DEF h
<1> QED
    BY <1>3, <1>4, <1>5, <1>6 DEF Pending

\* A call that ends leaves those of the others.
LEMMA PendingPop ==
    ASSUME NEW F, NEW fs \in Seq(F), fs # <<>>, fs[1].left \in Nat, NEW m, Pending(fs, m)
    PROVE  \E r \in Nat : Pending(Tail(fs), r) /\ m = fs[1].left + r
<1>1. PICK f \in [1..(Len(fs) + 1) -> Nat] :
          /\ f[Len(fs) + 1] = 0
          /\ \A k \in 1..Len(fs) : f[k] = fs[k].left + f[k + 1]
          /\ m = f[1]
    BY DEF Pending
<1> DEFINE gs == Tail(fs)
           h == [k \in 1..Len(fs) |-> f[k + 1]]
<1>2. Len(fs) \in Nat /\ Len(fs) >= 1 /\ gs \in Seq(F) /\ Len(gs) = Len(fs) - 1
      /\ \A k \in 1..Len(gs) : gs[k] = fs[k + 1]
    OBVIOUS
<1>3. h \in [1..(Len(gs) + 1) -> Nat]
    BY <1>1, <1>2
<1>4. h[Len(gs) + 1] = 0
    BY <1>1, <1>2
<1>5. ASSUME NEW k \in 1..Len(gs) PROVE h[k] = gs[k].left + h[k + 1]
    <2>1. k + 1 \in 1..Len(fs) /\ k \in 1..Len(fs)
        BY <1>2
    <2> QED BY <1>1, <1>2, <2>1
<1>6. h[1] = f[2] /\ h[1] \in Nat /\ m = fs[1].left + f[2]
    BY <1>1, <1>2, <1>3
<1> HIDE DEF h
<1>7. Pending(gs, h[1])
    BY <1>3, <1>4, <1>5 DEF Pending
<1> QED
    BY <1>6, <1>7

-----------------------------------------------------------------------------
\* With one more chip the calls that are active are still good.
LEMMA MoreChips ==
    ASSUME NEW n \in Nat, NEW fs \in Seq(FrameOf(n))
    PROVE  fs \in Seq(FrameOf(n + 1))
<1>1. FrameOf(n) \subseteq FrameOf(n + 1)
    BY DEF FrameOf
<1> QED
    BY <1>1

\* A call that begins is a frame.
LEMMA FrameIs ==
    ASSUME NEW n \in Nat, NEW left \in Nat, NEW fn \in {"parse", "cpu", "chip"}
    PROVE  Frame(fn, left) \in FrameOf(n)
    BY DEF Frame, FrameOf

\* A frame on top of frames.
LEMMA Called ==
    ASSUME NEW n \in Nat, NEW f \in FrameOf(n), NEW fs \in Seq(FrameOf(n))
    PROVE  <<f>> \o fs \in Seq(FrameOf(n)) /\ <<f>> \o fs # <<>>
    OBVIOUS

\* The innermost call counts down one child.
LEMMA Counted ==
    ASSUME ReaderOK, frames # <<>>, NEW n \in Nat, frames \in Seq(FrameOf(n)),
           NEW f \in FrameOf(n), f.left > 0
    PROVE  Counting(f) \in Seq(FrameOf(n)) /\ Counting(f) # <<>>
<1>1. [f EXCEPT !.left = @ - 1] \in FrameOf(n)
    <2>1. f.left - 1 \in Nat
        BY DEF FrameOf
    <2> DEFINE left == f.left - 1
    <2> HIDE DEF left
    <2>2. \A l \in Nat : [f EXCEPT !.left = l] \in FrameOf(n)
        BY DEF FrameOf
    <2>3. [f EXCEPT !.left = @ - 1] = [f EXCEPT !.left = left]
        BY DEF left
    <2> QED BY <2>1, <2>2, <2>3 DEF left
<1>2. Tail(frames) \in Seq(FrameOf(n))
    OBVIOUS
<1> QED
    BY <1>1, <1>2, Called DEF Counting

\* A token that has been filled, and its count.
LEMMA TokIs ==
    ASSUME TokensOK, ReaderOK, frames # <<>>, NEW n \in 0..2, Filled(n)
    PROVE  /\ tok(n) \in Token /\ tok(n).size \in Nat
           /\ tok(n).size <= Len(tokens) - (jtok + n)
           /\ jtok + n \in 1..Len(tokens)
<1>1. jtok + n \in 1..Len(tokens)
    BY DEF Filled, TokensOK, ReaderOK
<1>2. tokens[jtok + n] \in Token
    BY <1>1 DEF TokensOK
<1>3. tok(n).size <= Len(tokens) - (jtok + n)
    BY <1>1 DEF TokensOK, tok
<1> QED
    BY <1>1, <1>2, <1>3 DEF tok, Token

\* A key that counts one child has a token behind it: the value that is read
\* without a check is there.
LEMMA ValueFilled ==
    ASSUME TokensOK, ReaderOK, frames # <<>>, Filled(1), tok(1).size = 1
    PROVE  Filled(2)
<1>1. 1 <= Len(tokens) - (jtok + 1) /\ jtok \in Int /\ Len(tokens) \in Int
    BY TokIs DEF TokensOK, ReaderOK
<1> QED
    BY <1>1 DEF Filled

\* The innermost call while it visits.
LEMMA Visiting ==
    ASSUME ReaderOK, NEW fn, Visits(fn)
    PROVE  /\ frames # <<>> /\ frames[1] \in FrameOf(Len(circuit)) /\ frames[1].left > 0
           /\ frames[1].chip \in 0..Len(circuit)
           /\ Counting(frames[1]) \in Seq(FrameOf(Len(circuit)))
           /\ Counting(frames[1]) # <<>>
<1>1. frames # <<>> /\ frames[1].left > 0 /\ Len(circuit) \in Nat
    BY DEF Visits, In, ReaderOK
<1>2. frames[1] \in FrameOf(Len(circuit)) /\ frames \in Seq(FrameOf(Len(circuit)))
    BY <1>1 DEF ReaderOK
<1>3. frames[1].chip \in 0..Len(circuit)
    BY <1>2 DEF FrameOf
<1> QED
    BY <1>1, <1>2, <1>3, Counted

\* The reader ends with a result.
LEMMA ReturnsOK ==
    ASSUME ReaderOK, UNCHANGED jsmn, Returns(cres'),
           cres' \in {"busy", "0", "EINVAL", "exit", "undefined"}
    PROVE  ReaderOK'
    BY DEF ReaderOK, Returns, jsmn

\* A call that goes on with a token that there is.
LEMMA CallOK ==
    ASSUME TokensOK, ReaderOK, UNCHANGED jsmn, NEW fn, Visits(fn), NEW n \in {1, 2}, Filled(n),
           jtok' = jtok + n, NEW called \in {"parse", "cpu", "chip"},
           frames' = <<Frame(called, tok(n).size)>> \o Counting(frames[1]),
           UNCHANGED <<circuit, cres>>
    PROVE  ReaderOK'
<1>1. Frame(called, tok(n).size) \in FrameOf(Len(circuit))
    <2>1. n \in 0..2 /\ frames # <<>> /\ Len(circuit) \in Nat
        BY Visiting DEF ReaderOK
    <2>2. tok(n).size \in Nat
        BY <2>1, TokIs
    <2> QED BY <2>1, <2>2, FrameIs
<1>2. frames' \in Seq(FrameOf(Len(circuit))) /\ frames' # <<>>
    BY <1>1, Visiting, Called DEF ReaderOK
<1>3. jtok' \in 0..(Len(tokens) + 1) /\ jtok' >= 1
    BY DEF ReaderOK, Filled, TokensOK
<1> QED
    BY <1>2, <1>3 DEF ReaderOK, jsmn

\* The chip that a call has made is in the list.
LEMMA ChipTypeOK ==
    ASSUME TokensOK, ReaderOK, UNCHANGED jsmn, ChipType
    PROVE  ReaderOK'
<1> DEFINE n == Len(circuit)
           chip == [type |-> tok(2).text, regsize |-> RegSize(tok(2).text),
                    address |-> Unassigned]
           f == [frames[1] EXCEPT !.chip = n + 1]
<1>1. Visits("chip") /\ Filled(1) /\ n \in Nat
    BY DEF ChipType, Key, ReaderOK
<1>2. CASE EINVAL \/ Returns("exit")
    BY <1>2, ReturnsOK DEF EINVAL, Returns
<1>3. CASE ~(EINVAL \/ Returns("exit"))
    <2>1. /\ tok(1).size = 1 /\ tok(2).text \in ChipTypes
          /\ circuit' = Append(circuit, chip) /\ jtok' = jtok + 2
          /\ frames' = Counting(f)
          /\ cres' = cres
        BY <1>3 DEF ChipType, add_chip
    <2>2. Filled(2)
        BY <1>1, <2>1, ValueFilled, Visiting
    <2>3. chip \in Chip
        BY <2>1 DEF Chip, ChipTypes, RegSize
    <2>4. f \in FrameOf(n + 1) /\ f.left > 0
        BY <1>1, Visiting DEF FrameOf
    <2> HIDE DEF chip, f
    <2>5. circuit' \in Seq(Chip) /\ Len(circuit') = n + 1
        BY <2>1, <2>3 DEF ReaderOK
    <2>6. frames \in Seq(FrameOf(n + 1))
        BY <1>1, MoreChips DEF ReaderOK
    <2>7. frames' \in Seq(FrameOf(n + 1)) /\ frames' # <<>>
        BY <1>1, <2>1, <2>4, <2>6, Counted, Visiting
    <2>8. jtok' \in 0..(Len(tokens) + 1) /\ jtok' >= 1
        BY <2>1, <2>2 DEF ReaderOK, Filled, TokensOK
    <2> HIDE DEF n
    <2> QED BY <2>1, <2>5, <2>7, <2>8 DEF ReaderOK, jsmn
<1> QED
    BY <1>2, <1>3

\* The numbers of a word, as inequalities.
LEMMA WordIs == \A x : x \in Word <=> x \in Int /\ 0 <= x /\ x <= 65535
<1>1. UINT16_MAX \in Int
    BY DEF UINT16_MAX
<1>2. \A x : x \in Word <=> x \in Int /\ 0 <= x /\ x <= UINT16_MAX
    BY <1>1 DEF Word
<1> QED
    BY <1>2 DEF UINT16_MAX

\* What is cut to uint16_t is a word.
LEMMA AddressIsWord == ASSUME NEW text PROVE Address(text) \in Word
<1>1. strtol16(text) \in Int
    BY DEF strtol16
<1> QED
    BY <1>1, WordIs DEF Address

\* An address is stored in a chip of the list.
LEMMA ChipAddrOK ==
    ASSUME TokensOK, ReaderOK, UNCHANGED jsmn, ChipAddr
    PROVE  ReaderOK'
<1> DEFINE i == frames[1].chip
<1>1. Visits("chip") /\ Filled(1) /\ Len(circuit) \in Nat
    BY DEF ChipAddr, Key, ReaderOK
<1>2. CASE EINVAL
    BY <1>2, ReturnsOK DEF EINVAL, Returns
<1>3. CASE ~EINVAL
    <2>1. /\ tok(1).size = 1 /\ i # 0
          /\ circuit' = [circuit EXCEPT ![i].address = Address(tok(2).text)]
          /\ jtok' = jtok + 2 /\ frames' = Counting(frames[1]) /\ cres' = cres
        BY <1>3 DEF ChipAddr
    <2>2. Filled(2)
        BY <1>1, <2>1, ValueFilled, Visiting
    <2>3. i \in 1..Len(circuit)
        BY <1>1, <2>1, Visiting
    <2> HIDE DEF i
    <2> DEFINE chip == [circuit[i] EXCEPT !.address = Address(tok(2).text)]
    <2>4. circuit[i] \in Chip
        BY <2>3 DEF ReaderOK
    <2>5. chip \in Chip
        <3>1. \A c \in Chip, a \in Word : [c EXCEPT !.address = a] \in Chip
            BY DEF Chip
        <3>2. Address(tok(2).text) \in Word
            BY AddressIsWord
        <3> QED BY <2>4, <3>1, <3>2
    <2>6. circuit' = [circuit EXCEPT ![i] = chip]
        BY <2>1
    <2> HIDE DEF chip
    <2>7. circuit' \in Seq(Chip) /\ Len(circuit') = Len(circuit)
        BY <2>3, <2>5, <2>6 DEF ReaderOK
    <2>8. frames' \in Seq(FrameOf(Len(circuit))) /\ frames' # <<>>
        BY <1>1, <2>1, Visiting
    <2>9. jtok' \in 0..(Len(tokens) + 1) /\ jtok' >= 1
        BY <2>1, <2>2 DEF ReaderOK, Filled, TokensOK
    <2> QED BY <2>1, <2>7, <2>8, <2>9 DEF ReaderOK, jsmn
<1> QED
    BY <1>2, <1>3

\* A key or a value is stepped over: the pointer comes to stand one behind the
\* last token at most.
LEMMA ChipOtherOK ==
    ASSUME TokensOK, ReaderOK, UNCHANGED jsmn, ChipOther
    PROVE  ReaderOK'
<1>1. /\ Visits("chip") /\ Filled(1) /\ jtok' \in {jtok + 1, jtok + 2}
      /\ frames' = Counting(frames[1]) /\ UNCHANGED <<circuit, cres>>
    BY DEF ChipOther
<1>2. jtok' \in 0..(Len(tokens) + 1) /\ jtok' >= 1
    BY <1>1 DEF ReaderOK, Filled, TokensOK
<1> QED
    BY <1>1, <1>2, Visiting DEF ReaderOK, jsmn

\* The caller of config_parse_chip goes on with the children of a token that
\* there is.
LEMMA ChipEndsOK ==
    ASSUME TokensOK, ReaderOK, UNCHANGED jsmn, ChipEnds
    PROVE  ReaderOK'
<1>1. CASE Returns("undefined")
    BY <1>1, ReturnsOK DEF Returns
<1>2. CASE ~Returns("undefined")
    <2>1. /\ Filled(0) /\ frames # <<>> /\ UNCHANGED <<jtok, circuit, cres>>
          /\ frames' = <<Frame("parse", tok(0).size)>> \o Tail(frames)
        BY <1>2 DEF ChipEnds, In
    <2>2. Frame("parse", tok(0).size) \in FrameOf(Len(circuit))
        BY <2>1, TokIs, FrameIs DEF ReaderOK
    <2>3. Tail(frames) \in Seq(FrameOf(Len(circuit)))
        BY <2>1 DEF ReaderOK
    <2>4. frames' \in Seq(FrameOf(Len(circuit)))
        BY <2>1, <2>2, <2>3, Called DEF ReaderOK
    <2> QED BY <2>1, <2>4 DEF ReaderOK, jsmn
<1> QED
    BY <1>1, <1>2

\* A step of the three functions of cfg.c.
LEMMA ReadOK == TokensOK /\ ReaderOK /\ UNCHANGED jsmn /\ config_parse => ReaderOK'
<1> SUFFICES ASSUME TokensOK, ReaderOK, UNCHANGED jsmn, config_parse PROVE ReaderOK'
    OBVIOUS
<1>1. CASE Keyword
    <2>1. PICK name \in {"cpu", "chip"} :
            \/ Returns("undefined") \/ EINVAL
            \/ /\ Visits("parse") /\ Filled(2) /\ jtok' = jtok + 2
               /\ frames' = <<Frame(name, tok(2).size)>> \o Counting(frames[1])
               /\ UNCHANGED <<circuit, cres>>
        BY <1>1 DEF Keyword, Keywords
    <2>2. CASE Returns("undefined") \/ EINVAL
        BY <2>2, ReturnsOK DEF EINVAL, Returns
    <2>3. CASE ~(Returns("undefined") \/ EINVAL)
        BY <2>1, <2>3, CallOK
    <2> QED BY <2>2, <2>3
<1>2. CASE Descend
    BY <1>2, CallOK DEF Descend
<1>3. CASE Return
    <2>1. frames # <<>> /\ frames' = Tail(frames) /\ UNCHANGED <<jtok, circuit>>
          /\ cres' \in {"0", cres}
        BY <1>3 DEF Return, In
    <2>2. frames' \in Seq(FrameOf(Len(circuit)))
        BY <2>1 DEF ReaderOK
    <2> QED BY <2>1, <2>2 DEF ReaderOK, jsmn
<1>4. CASE CpuType
    <2>1. Visits("cpu") /\ Filled(1)
        BY <1>4 DEF CpuType, Key
    <2>2. CASE EINVAL
        BY <2>2, ReturnsOK DEF EINVAL, Returns
    <2>3. CASE ~EINVAL
        <3>1. /\ tok(1).size = 1 /\ jtok' = jtok + 2 /\ UNCHANGED <<circuit, cres>>
              /\ frames' = <<Frame("parse", tok(2).size)>> \o Counting(frames[1])
            BY <1>4, <2>3 DEF CpuType
        <3>2. Filled(2)
            BY <2>1, <3>1, ValueFilled, Visiting
        <3> QED BY <2>1, <3>1, <3>2, CallOK
    <2> QED BY <2>2, <2>3
<1>5. CASE CpuOther
    BY <1>5, CallOK DEF CpuOther
<1>6. CASE \E fn \in {"parse", "cpu", "chip"} : Beyond(fn)
    BY <1>6, ReturnsOK DEF Beyond, Returns
<1> QED
    BY <1>1, <1>2, <1>3, <1>4, <1>5, <1>6, ChipTypeOK, ChipAddrOK, ChipOtherOK, ChipEndsOK
    DEF config_parse

-----------------------------------------------------------------------------
\* The text is a document's, and no keyword without a value is among the first
\* j tokens.
Regular(j) == Separated /\ MembersNamed /\ ~KeywordMissed(j)

\* At the j-th token, the tokens to come are enough for a call and for the r
\* children that those under it have still to visit.  Inside an object, a chip
\* takes at most two tokens for a member: e is the last that is within.
Ahead(g, r, j) ==
    \/ g.fn # "chip" /\ g.left + r <= Cardinality(Ready(j))
    \/ /\ g.fn = "chip"
       /\ \E b \in 1..j, e \in j..Len(tokens) :
             j + 2 * g.left <= e /\ r <= Cardinality(Outer(b, e))

Reads(fs, j) == /\ j \in 1..Len(tokens)
                /\ \E r \in Nat : Pending(Tail(fs), r) /\ Ahead(fs[1], r, j)

\* The part of the inductive invariant that is about the pointer of the reader:
\* it reads a text that has been tokenized, only the innermost call is a
\* chip's, and while the text is regular there are tokens for all the calls.
PointerAt(fs, j, c) ==
    /\ fs # <<>> => jtk = "count"
    /\ \A k \in 2..Len(fs) : fs[k].fn # "chip"
    /\ c = "busy" /\ fs # <<>> /\ Regular(j) => Reads(fs, j)
PointerOK == PointerAt(frames, jtok, cres)

\* What is said of the tokens stays true.
LEMMA SameTokens ==
    ASSUME UNCHANGED jsmn
    PROVE  /\ \A j : Ready(j)' = Ready(j)
           /\ \A b, e : Outer(b, e)' = Outer(b, e)
           /\ \A j : Regular(j)' <=> Regular(j)
<1>1. js' = js /\ tokens' = tokens
    BY DEF jsmn
<1>2. \A i : Above(i)' = Above(i)
    BY <1>1, SameText DEF Above
<1>3. (\A j : Ready(j)' = Ready(j)) /\ (\A b, e : Outer(b, e)' = Outer(b, e))
    BY <1>1, <1>2 DEF Ready, Outer
<1>4. \A q : IsValue(q)' <=> IsValue(q)
    BY <1>1, SameText
<1>5. MembersNamed' <=> MembersNamed
    <2>1. \A q : Parent(q)' = Parent(q)
        BY <1>1, SameText
    <2> QED BY <1>1, <1>4, <2>1 DEF MembersNamed
<1>6. \A j : KeywordMissed(j)' <=> KeywordMissed(j)
    BY <1>1 DEF KeywordMissed
<1> QED
    BY <1>1, <1>3, <1>5, <1>6, SameText DEF Regular

\* A step that leaves the tokenizer alone keeps the properties, if the pointer is
\* where it should be.
LEMMA PointerKept ==
    ASSUME UNCHANGED jsmn, PointerAt(frames', jtok', cres'),
           cres' = "undefined" => tokens = <<>> \/ ~Regular(jtok' + 1)
    PROVE  PointerOK' /\ StaysInTokens'
<1>1. jtk' = jtk /\ tokens' = tokens
    BY DEF jsmn
<1>2. \A r, j, g : Ahead(g, r, j)' <=> Ahead(g, r, j)
    BY <1>1, SameTokens DEF Ahead
<1>3. \A fs, j : Reads(fs, j)' <=> Reads(fs, j)
    BY <1>1, <1>2 DEF Reads
<1>4. \A fs, j, c : PointerAt(fs, j, c)' <=> PointerAt(fs, j, c)
    BY <1>1, <1>3, SameTokens DEF PointerAt
<1>5. PointerOK'
    BY <1>4 DEF PointerOK
<1>6. StaysInTokens'
    BY <1>1, SameTokens DEF StaysInTokens, Regular
<1> QED
    BY <1>5, <1>6

\* What is regular up to a token is regular up to those in front of it.
LEMMA RegularDown ==
    ASSUME NEW j \in Nat, NEW i \in Nat, i <= j, Len(tokens) \in Nat, Regular(j)
    PROVE  Regular(i)
<1>1. KeywordMissed(i) => KeywordMissed(j)
    BY DEF KeywordMissed
<1> QED
    BY <1>1 DEF Regular

\* The innermost of the calls, and those under it.
LEMMA OnTop ==
    ASSUME NEW F, NEW fs \in Seq(F), NEW g
    PROVE  Tail(<<g>> \o fs) = fs /\ (<<g>> \o fs)[1] = g
    OBVIOUS

\* A call to g for a child of the innermost call.
LEMMA ReadsPush ==
    ASSUME ReaderOK, frames # <<>>, frames[1].left > 0, NEW r \in Nat, Pending(Tail(frames), r),
           NEW g, NEW j \in 1..Len(tokens), Ahead(g, frames[1].left - 1 + r, j)
    PROVE  Reads(<<g>> \o Counting(frames[1]), j)
<1> DEFINE h == [frames[1] EXCEPT !.left = @ - 1]
           F == FrameOf(Len(circuit))
           fs == Counting(frames[1])
<1>1. frames[1] \in F /\ frames \in Seq(F)
    BY DEF ReaderOK
<1>2. h.left = frames[1].left - 1 /\ h.left \in Nat
    BY <1>1 DEF FrameOf
<1>3. Tail(frames) \in Seq(F)
    BY <1>1
<1>4. fs = <<h>> \o Tail(frames)
    BY DEF Counting
<1> HIDE DEF h, F
<1>5. Pending(fs, h.left + r)
    BY <1>2, <1>3, <1>4, PendingPush
<1>6. fs \in Seq(F \cup {h})
    BY <1>3, <1>4
<1> HIDE DEF fs
<1>7. Tail(<<g>> \o fs) = fs /\ (<<g>> \o fs)[1] = g
    BY <1>6, OnTop
<1>8. h.left + r = frames[1].left - 1 + r /\ h.left + r \in Nat
    BY <1>2
<1>9. Reads(<<g>> \o fs, j)
    BY <1>5, <1>7, <1>8 DEF Reads
<1> QED
    BY <1>9 DEF fs

\* The next child of config_parse or config_parse_cpu is there, and if it is a
\* key that counts one, its value; either can be called for.
LEMMA ReadsCall ==
    ASSUME TokensOK, ReaderOK, Parsed, NEW fn \in {"parse", "cpu"}, Visits(fn),
           Reads(frames, jtok)
    PROVE  /\ Filled(1) /\ jtok + 1 \in 1..Len(tokens)
           /\ Reads(<<Frame("parse", tok(1).size)>> \o Counting(frames[1]), jtok + 1)
           /\ tok(1).size >= 1 =>
                /\ Filled(2) /\ jtok + 2 \in 1..Len(tokens)
                /\ \A called \in {"parse", "cpu"} :
                     Reads(<<Frame(called, tok(2).size)>> \o Counting(frames[1]), jtok + 2)
                /\ Separated /\ MembersNamed /\ tok(2).type = "object" =>
                     Reads(<<Frame("chip", tok(2).size)>> \o Counting(frames[1]), jtok + 2)
<1> DEFINE j == jtok
           left == frames[1].left
           none == Cardinality(Ready(j))
           one == Cardinality(Ready(j + 1))
           size == tokens[j + 1].size
<1>1. frames # <<>> /\ left > 0 /\ frames[1].fn # "chip" /\ frames[1] \in FrameOf(Len(circuit))
    BY Visiting DEF Visits, In
<1>2. left \in Nat /\ j \in 1..Len(tokens) /\ Len(tokens) \in Nat
    BY <1>1 DEF FrameOf, Reads, TokensOK
<1>3. PICK r \in Nat : Pending(Tail(frames), r) /\ left + r <= none
    BY <1>1 DEF Reads, Ahead
<1>4. none \in Nat
    BY <1>2, ReadyIs
<1>5. j + 1 \in 1..Len(tokens)
    <2>1. none > 0
        BY <1>1, <1>2, <1>3, <1>4
    <2> QED BY <1>2, <2>1, ReadyAhead
<1>6. Filled(1) /\ tok(1) = tokens[j + 1] /\ size \in Nat
    BY <1>2, <1>5, StartIs DEF Filled, tok
<1>7. one >= none - 1 + size /\ one \in Nat
    BY <1>2, <1>5, ReadyStep, ReadyIs
<1>8. one >= size + (left - 1 + r)
    <2> HIDE DEF left, none, one, size
    <2> QED BY <1>2, <1>3, <1>4, <1>6, <1>7
<1>9. Reads(<<Frame("parse", tok(1).size)>> \o Counting(frames[1]), j + 1)
    <2>1. Frame("parse", tok(1).size).fn = "parse"
          /\ Frame("parse", tok(1).size).left = size
        BY <1>6 DEF Frame
    <2>2. Ahead(Frame("parse", tok(1).size), left - 1 + r, j + 1)
        BY <1>8, <2>1 DEF Ahead
    <2> QED BY <1>1, <1>3, <1>5, <2>2, ReadsPush
<1>10. ASSUME tok(1).size >= 1
       PROVE  /\ Filled(2) /\ j + 2 \in 1..Len(tokens)
              /\ \A called \in {"parse", "cpu"} :
                   Reads(<<Frame(called, tok(2).size)>> \o Counting(frames[1]), j + 2)
              /\ Separated /\ MembersNamed /\ tok(2).type = "object" =>
                   Reads(<<Frame("chip", tok(2).size)>> \o Counting(frames[1]), j + 2)
    <2> DEFINE b == j + 2
               two == Cardinality(Ready(b))
               more == tokens[b].size
    <2>1. one > 0 /\ (j + 1) + 1 = b /\ size >= 1
        <3>1. size >= 1
            BY <1>6, <1>10
        <3>2. (j + 1) + 1 = b
            BY <1>2
        <3> HIDE DEF left, one, size, b, j
        <3> QED BY <1>1, <1>2, <1>3, <1>6, <1>7, <1>8, <3>1, <3>2
    <2>2. b \in 1..Len(tokens)
        BY <1>5, <2>1, ReadyAhead
    <2>3. Filled(2) /\ tok(2) = tokens[b] /\ more \in Nat
        BY <1>2, <2>2, StartIs DEF Filled, tok
    <2>4. two >= one - 1 + more /\ two \in Nat
        BY <1>5, <2>1, <2>2, ReadyStep, ReadyIs
    <2>5. two >= more + (left - 1 + r) /\ left - 1 + r <= one - 1
        <3> HIDE DEF left, one, size, two, more
        <3> QED BY <1>2, <1>3, <1>6, <1>7, <1>8, <2>1, <2>3, <2>4
    <2>6. ASSUME NEW called \in {"parse", "cpu"}
          PROVE  Reads(<<Frame(called, tok(2).size)>> \o Counting(frames[1]), b)
        <3>1. Frame(called, tok(2).size).fn # "chip"
              /\ Frame(called, tok(2).size).left = more
            BY <2>3 DEF Frame
        <3>2. Ahead(Frame(called, tok(2).size), left - 1 + r, b)
            BY <2>5, <3>1 DEF Ahead
        <3> QED BY <1>1, <1>3, <2>2, <3>2, ReadsPush
    <2>7. ASSUME Separated, MembersNamed, tok(2).type = "object"
          PROVE  Reads(<<Frame("chip", tok(2).size)>> \o Counting(frames[1]), b)
        <3>1. Frame("chip", tok(2).size).fn = "chip"
              /\ Frame("chip", tok(2).size).left = more
            BY <2>3 DEF Frame
        <3>2. PICK e \in b..Len(tokens) : /\ b + 2 * tokens[b].size <= e
                                          /\ \A i \in (b + 1)..e : Above(i) >= tokens[b].start
            BY <2>2, <2>3, <2>7, MemberTokens
        <3>3. one - 1 <= Cardinality(Outer(b, e))
            BY <1>5, <2>1, <2>2, <3>2, OuterOf
        <3>4. Cardinality(Outer(b, e)) \in Nat
            <4>1. e \in 1..Len(tokens)
                BY <1>2, <2>2, <3>2
            <4> QED BY <2>2, <4>1, ReadyIs
        <3>5. left - 1 + r <= Cardinality(Outer(b, e))
            <4> DEFINE outer == Cardinality(Outer(b, e))
            <4>1. one - 1 <= outer /\ outer \in Nat
                BY <3>3, <3>4
            <4> HIDE DEF left, one, outer
            <4>2. left - 1 + r <= outer
                BY <1>2, <1>7, <2>5, <4>1
            <4> QED BY <4>2 DEF outer
        <3>6. b \in 1..b
            BY <1>2, <2>2
        <3>7. Ahead(Frame("chip", tok(2).size), left - 1 + r, b)
            BY <3>1, <3>2, <3>5, <3>6 DEF Ahead
        <3> QED BY <1>1, <1>3, <2>2, <3>7, ReadsPush
    <2> QED BY <2>2, <2>3, <2>6, <2>7
<1> QED
    BY <1>5, <1>6, <1>9, <1>10

\* A member of a chip is there, and its value; the pointer may go on by both.
LEMMA ReadsChip ==
    ASSUME TokensOK, ReaderOK, Visits("chip"), Reads(frames, jtok), NEW n \in {1, 2},
           NEW m \in Nat, NEW g \in FrameOf(m), g.fn = "chip", g.left = frames[1].left
    PROVE  Filled(1) /\ Filled(2) /\ Reads(Counting(g), jtok + n)
<1> DEFINE j == jtok
           h == [g EXCEPT !.left = @ - 1]
           left == g.left
<1>1. frames # <<>> /\ left > 0 /\ frames[1].fn = "chip" /\ frames \in Seq(FrameOf(Len(circuit)))
    BY DEF Visits, In, ReaderOK
<1>2. left \in Nat /\ j \in 1..Len(tokens) /\ Len(tokens) \in Nat /\ left > 0
    <2>1. left \in Nat
        BY DEF FrameOf
    <2>2. j \in 1..Len(tokens) /\ Len(tokens) \in Nat
        BY DEF Reads, TokensOK
    <2> QED BY <1>1, <2>1, <2>2
<1>3. PICK r \in Nat : Pending(Tail(frames), r) /\ Ahead(frames[1], r, j)
    BY DEF Reads
<1>4. PICK b \in 1..j, e \in j..Len(tokens) :
          j + 2 * left <= e /\ r <= Cardinality(Outer(b, e))
    BY <1>1, <1>3 DEF Ahead
<1>5. /\ j + 1 <= Len(tokens) /\ j + 2 <= Len(tokens) /\ j + n \in 1..Len(tokens)
      /\ b \in 1..(j + n) /\ e \in (j + n)..Len(tokens)
      /\ (j + n) + 2 * (left - 1) <= e
    <2> HIDE DEF left, j
    <2> QED BY <1>2, <1>4
<1>6. h.left = left - 1 /\ h.fn = "chip"
    BY DEF FrameOf
<1> HIDE DEF h
<1>7. Tail(<<h>> \o Tail(frames)) = Tail(frames) /\ (<<h>> \o Tail(frames))[1] = h
    <2>1. Tail(frames) \in Seq(FrameOf(Len(circuit)))
        BY <1>1
    <2> QED BY <2>1, OnTop
<1>8. Ahead(h, r, j + n)
    BY <1>4, <1>5, <1>6 DEF Ahead
<1>9. Reads(<<h>> \o Tail(frames), j + n)
    BY <1>3, <1>5, <1>7, <1>8 DEF Reads
<1>10. Filled(1) /\ Filled(2)
    BY <1>5 DEF Filled
<1> QED
    BY <1>9, <1>10 DEF Counting, h

\* What is to be shown of a step of the reader, which leaves the tokens alone.
Stays == /\ PointerAt(frames', jtok', cres')
         /\ cres' = "undefined" => ~Regular(jtok' + 1)

\* The calls under the innermost are not a chip's.
LEMMA NoChipBelow ==
    ASSUME ReaderOK, PointerOK, frames # <<>>
    PROVE  /\ jtk = "count" /\ Len(frames) \in Nat /\ Len(frames) >= 1
           /\ \A k \in 1..Len(Tail(frames)) : Tail(frames)[k].fn # "chip"
           /\ \A g, k : k \in 2..Len(<<g>> \o Tail(frames)) => (<<g>> \o Tail(frames))[k].fn # "chip"
<1> DEFINE F == FrameOf(Len(circuit))
           ts == Tail(frames)
<1>1. frames \in Seq(F) /\ jtk = "count" /\ \A k \in 2..Len(frames) : frames[k].fn # "chip"
    BY DEF ReaderOK, PointerOK, PointerAt
<1> HIDE DEF F
<1>2. /\ ts \in Seq(F) /\ Len(frames) \in Nat /\ Len(ts) = Len(frames) - 1 /\ Len(frames) >= 1
      /\ \A k \in 1..Len(ts) : ts[k] = frames[k + 1]
    BY <1>1
<1>3. \A k \in 1..Len(ts) : ts[k].fn # "chip"
    <2> SUFFICES ASSUME NEW k \in 1..Len(ts) PROVE ts[k].fn # "chip"
        OBVIOUS
    <2>1. k + 1 \in 2..Len(frames) /\ ts[k] = frames[k + 1]
        BY <1>2
    <2> QED BY <1>1, <2>1
<1> HIDE DEF ts
<1>4. ASSUME NEW g, NEW k, k \in 2..Len(<<g>> \o ts) PROVE (<<g>> \o ts)[k].fn # "chip"
    <2>1. k - 1 \in 1..Len(ts) /\ (<<g>> \o ts)[k] = ts[k - 1]
        BY <1>2, <1>4
    <2> QED BY <1>3, <2>1
<1> QED
    BY <1>1, <1>2, <1>3, <1>4 DEF ts

\* The reader ends with a result.
LEMMA ReturnsStays ==
    ASSUME ReaderOK, PointerOK, Returns(cres'), cres' # "busy",
           cres' = "undefined" => ~Regular(jtok + 1)
    PROVE  Stays
<1>1. jtok' = jtok /\ frames' = frames
    BY DEF Returns
<1> QED
    BY <1>1 DEF PointerOK, PointerAt, Stays

\* While the text is regular up to the next token, an active call can go on.
LEMMA RegularReads ==
    ASSUME TokensOK, ReaderOK, PointerOK, cres = "busy", frames # <<>>, NEW n \in 0..2,
           Regular(jtok + n)
    PROVE  Reads(frames, jtok)
<1>1. jtok \in Nat /\ jtok + n \in Nat /\ jtok <= jtok + n /\ Len(tokens) \in Nat
    BY DEF TokensOK, ReaderOK
<1>2. Regular(jtok)
    BY <1>1, RegularDown
<1> QED
    BY <1>2 DEF PointerOK, PointerAt

\* The tokenizer is done when a call is active.
LEMMA ReadsParsed ==
    ASSUME TokensOK, TreeOK, EndOK, PointerOK, frames # <<>>, NEW j, Regular(j)
    PROVE  Parsed
<1>1. jtk = "count"
    BY DEF PointerOK, PointerAt
<1> QED
    BY <1>1 DEF TreeOK, EndOK, Regular, Parsed

\* A call begins, for a child of config_parse or config_parse_cpu.
LEMMA CallStays ==
    ASSUME TokensOK, ReaderOK, PointerOK, NEW fn \in {"parse", "cpu"}, Visits(fn),
           NEW n \in {1, 2}, jtok' = jtok + n, NEW g,
           frames' = <<g>> \o Counting(frames[1]), cres' = cres,
           Regular(jtok + n) => Reads(<<g>> \o Counting(frames[1]), jtok + n)
    PROVE  Stays
<1> DEFINE h == [frames[1] EXCEPT !.left = @ - 1]
<1>1. frames # <<>> /\ frames[1].fn # "chip" /\ cres = "busy"
      /\ frames[1] \in FrameOf(Len(circuit)) /\ Tail(frames) \in Seq(FrameOf(Len(circuit)))
    BY DEF Visits, In, ReaderOK
<1>2. h.fn # "chip"
    BY <1>1 DEF FrameOf
<1>3. Counting(frames[1]) = <<h>> \o Tail(frames)
    BY DEF Counting
<1> HIDE DEF h
<1>4. ASSUME NEW k \in 2..Len(frames') PROVE frames'[k].fn # "chip"
    <2> DEFINE F == FrameOf(Len(circuit)) \cup {h}
               fs == <<h>> \o Tail(frames)
    <2>1. fs \in Seq(F) /\ Len(fs) \in Nat /\ fs[1] = h
        BY <1>1
    <2>2. frames' = <<g>> \o fs
        BY <1>3
    <2>3. \A i \in 2..Len(fs) : fs[i].fn # "chip"
        BY <1>1, NoChipBelow
    <2> HIDE DEF fs, F
    <2>4. k - 1 \in 1..Len(fs) /\ frames'[k] = fs[k - 1]
        BY <2>1, <2>2
    <2>5. CASE k - 1 = 1
        BY <1>2, <2>1, <2>4, <2>5
    <2>6. CASE k - 1 # 1
        <3>1. k - 1 \in 2..Len(fs)
            BY <2>1, <2>4, <2>6
        <3> QED BY <2>3, <2>4, <3>1
    <2> QED BY <2>5, <2>6
<1>5. jtk = "count"
    BY <1>1, NoChipBelow
<1>6. PointerAt(frames', jtok', cres')
    BY <1>4, <1>5 DEF PointerAt
<1> QED
    BY <1>1, <1>6 DEF Stays

\* "cpu" and "chip".
LEMMA KeywordStays ==
    ASSUME TokensOK, TreeOK, EndOK, ReaderOK, PointerOK, Keyword
    PROVE  Stays
<1>1. Visits("parse") /\ cres = "busy" /\ frames # <<>>
    BY DEF Keyword, Visits, In
<1>2. PICK name \in Keywords :
         /\ Key(name)
         /\ \/ ~Filled(2) /\ Returns("undefined")
            \/ Filled(2) /\ tok(2).type # "object" /\ EINVAL
            \/ /\ Filled(2) /\ tok(2).type = "object"
               /\ jtok' = jtok + 2
               /\ frames' = <<Frame(name, tok(2).size)>> \o Counting(frames[1])
               /\ UNCHANGED <<circuit, cres>>
    BY DEF Keyword
<1>3. /\ jtok \in Nat /\ jtok + 1 \in 1..Len(tokens) /\ tok(1).size \in Nat
      /\ tok(1) = tokens[jtok + 1] /\ Len(tokens) \in Nat
    BY <1>1, <1>2, TokIs DEF Key, tok, ReaderOK, TokensOK
<1>4. ASSUME NEW n \in {1, 2}, Regular(jtok + n)
      PROVE  /\ Filled(2)
             /\ \A called \in {"parse", "cpu"} :
                  Reads(<<Frame(called, tok(2).size)>> \o Counting(frames[1]), jtok + 2)
             /\ tok(2).type = "object" =>
                  Reads(<<Frame("chip", tok(2).size)>> \o Counting(frames[1]), jtok + 2)
    <2>1. Reads(frames, jtok) /\ Parsed /\ Separated /\ MembersNamed
        BY <1>1, <1>4, RegularReads, ReadsParsed DEF Regular
    <2>2. tok(1).size # 0
        <3>1. tok(1).type = "string" /\ tok(1).text \in Keywords
            BY <1>2 DEF Key
        <3>2. tok(1).size = 0 => KeywordMissed(jtok + n)
            BY <1>3, <3>1 DEF KeywordMissed
        <3> QED BY <1>4, <3>2 DEF Regular
    <2>3. tok(1).size >= 1
        BY <1>3, <2>2
    <2> QED BY <1>1, <2>1, <2>3, ReadsCall
<1>5. CASE ~Filled(2) /\ Returns("undefined")
    <2>1. ~Regular(jtok + 1)
        BY <1>4, <1>5
    <2> QED BY <1>5, <2>1, ReturnsStays DEF Returns
<1>6. CASE EINVAL
    BY <1>6, ReturnsStays DEF EINVAL, Returns
<1>7. CASE /\ tok(2).type = "object" /\ jtok' = jtok + 2
           /\ frames' = <<Frame(name, tok(2).size)>> \o Counting(frames[1])
           /\ UNCHANGED <<circuit, cres>>
    <2>1. name \in {"cpu", "chip"}
        BY DEF Keywords
    <2>2. Regular(jtok + 2) => Reads(<<Frame(name, tok(2).size)>> \o Counting(frames[1]), jtok + 2)
        BY <1>4, <1>7, <2>1
    <2> QED BY <1>1, <1>7, <2>2, CallStays
<1> QED
    BY <1>2, <1>5, <1>6, <1>7

\* Another token: config_parse for its children.
LEMMA OtherStays ==
    ASSUME TokensOK, TreeOK, EndOK, ReaderOK, PointerOK, Descend \/ CpuOther
    PROVE  Stays
<1>1. PICK fn \in {"parse", "cpu"} : Visits(fn)
    BY DEF Descend, CpuOther
<1>2. /\ jtok' = jtok + 1 /\ cres' = cres
      /\ frames' = <<Frame("parse", tok(1).size)>> \o Counting(frames[1])
    BY DEF Descend, CpuOther
<1>3. Regular(jtok + 1) => Reads(<<Frame("parse", tok(1).size)>> \o Counting(frames[1]), jtok + 1)
    BY <1>1, RegularReads, ReadsParsed, ReadsCall DEF Visits, In
<1> QED
    BY <1>1, <1>2, <1>3, CallStays

\* The type of the CPU.
LEMMA CpuTypeStays ==
    ASSUME TokensOK, TreeOK, EndOK, ReaderOK, PointerOK, CpuType
    PROVE  Stays
<1>1. Visits("cpu")
    BY DEF CpuType
<1>2. CASE EINVAL
    BY <1>2, ReturnsStays DEF EINVAL, Returns
<1>3. CASE ~EINVAL
    <2>1. /\ tok(1).size = 1 /\ jtok' = jtok + 2 /\ cres' = cres
          /\ frames' = <<Frame("parse", tok(2).size)>> \o Counting(frames[1])
        BY <1>3 DEF CpuType
    <2>2. tok(1).size >= 1
        BY <2>1
    <2>3. Regular(jtok + 2) => Reads(<<Frame("parse", tok(2).size)>> \o Counting(frames[1]), jtok + 2)
        BY <1>1, <2>2, RegularReads, ReadsParsed, ReadsCall DEF Visits, In
    <2> QED BY <1>1, <2>1, <2>3, CallStays
<1> QED
    BY <1>2, <1>3

\* A call returns: what it leaves is for the one under it.
LEMMA ReturnStays ==
    ASSUME TokensOK, ReaderOK, PointerOK, Return
    PROVE  Stays
<1> DEFINE F == FrameOf(Len(circuit))
           ts == Tail(frames)
<1>1. /\ frames # <<>> /\ frames[1].left = 0 /\ frames[1].fn # "chip" /\ cres = "busy"
      /\ frames' = ts /\ jtok' = jtok /\ cres' \in {"0", cres}
    BY DEF Return, In
<1>2. ts \in Seq(F) /\ jtk = "count" /\ \A k \in 1..Len(ts) : ts[k].fn # "chip"
    BY <1>1, NoChipBelow DEF ReaderOK
<1>3. ASSUME ts # <<>>, Regular(jtok) PROVE Reads(ts, jtok)
    <2>1. Reads(frames, jtok)
        BY <1>1, <1>3 DEF PointerOK, PointerAt
    <2>2. PICK r \in Nat : Pending(ts, r) /\ 0 + r <= Cardinality(Ready(jtok))
        BY <1>1, <2>1 DEF Reads, Ahead
    <2>3. ts[1] \in F /\ 1 \in 1..Len(ts)
        BY <1>2, <1>3
    <2>4. ts[1].left \in Nat
        BY <2>3 DEF FrameOf
    <2> HIDE DEF ts, F
    <2>5. PICK m \in Nat : Pending(Tail(ts), m) /\ r = ts[1].left + m
        BY <1>2, <1>3, <2>2, <2>4, PendingPop
    <2>6. ts[1].left + m <= Cardinality(Ready(jtok))
        BY <2>2, <2>5
    <2>7. ts[1].fn # "chip"
        BY <1>2, <2>3
    <2>8. Ahead(ts[1], m, jtok)
        BY <2>6, <2>7 DEF Ahead
    <2> QED BY <2>1, <2>5, <2>8 DEF Reads
<1>4. \A k \in 2..Len(ts) : ts[k].fn # "chip"
    <2>1. Len(ts) \in Nat
        BY <1>2
    <2>2. \A k \in 2..Len(ts) : k \in 1..Len(ts)
        BY <2>1
    <2> QED BY <1>2, <2>2
<1>5. PointerAt(frames', jtok', cres')
    BY <1>1, <1>2, <1>3, <1>4 DEF PointerAt
<1> QED
    BY <1>1, <1>5 DEF Stays

\* A member of a chip.
LEMMA ChipStays ==
    ASSUME TokensOK, TreeOK, EndOK, ReaderOK, PointerOK, ChipType \/ ChipAddr \/ ChipOther
    PROVE  Stays
<1> DEFINE m == Len(circuit) + 1
           newChip == [frames[1] EXCEPT !.chip = m]
<1>1. Visits("chip") /\ frames # <<>> /\ cres = "busy" /\ frames[1].fn = "chip" /\ m \in Nat
      /\ frames[1] \in FrameOf(m) /\ newChip \in FrameOf(m)
      /\ newChip.fn = "chip" /\ newChip.left = frames[1].left
    <2>1. Visits("chip") /\ frames # <<>> /\ cres = "busy" /\ frames[1].fn = "chip"
        BY DEF ChipType, ChipAddr, ChipOther, Visits, In
    <2>2. frames[1] \in FrameOf(Len(circuit)) /\ Len(circuit) \in Nat
        BY <2>1 DEF ReaderOK
    <2> QED BY <2>1, <2>2 DEF FrameOf
<1>2. CASE EINVAL \/ Returns("exit")
    BY <1>2, ReturnsStays DEF EINVAL, Returns
<1>3. CASE ~(EINVAL \/ Returns("exit"))
    <2>1. PICK n \in {1, 2}, g \in {frames[1], newChip} :
              jtok' = jtok + n /\ frames' = Counting(g) /\ cres' = cres
        BY <1>3 DEF ChipType, ChipAddr, ChipOther
    <2>2. g \in FrameOf(m) /\ g.fn = "chip" /\ g.left = frames[1].left
        BY <1>1
    <2> HIDE DEF newChip, m
    <2>3. ASSUME Regular(jtok + n) PROVE Reads(Counting(g), jtok + n)
        <3>1. Reads(frames, jtok)
            BY <1>1, <2>3, RegularReads
        <3> QED BY <1>1, <2>2, <3>1, ReadsChip
    <2>4. jtk = "count" /\ \A k \in 2..Len(frames') : frames'[k].fn # "chip"
        BY <1>1, <2>1, NoChipBelow DEF Counting
    <2>5. PointerAt(frames', jtok', cres')
        BY <2>1, <2>3, <2>4 DEF PointerAt
    <2> QED BY <1>1, <2>1, <2>5 DEF Stays
<1> QED
    BY <1>2, <1>3

\* A chip ends, and the children of the last token are visited.
LEMMA ChipEndsStays ==
    ASSUME TokensOK, TreeOK, EndOK, ReaderOK, PointerOK, ChipEnds
    PROVE  Stays
<1> DEFINE g == Frame("parse", tok(0).size)
           fs == <<g>> \o Tail(frames)
<1>1. frames # <<>> /\ cres = "busy" /\ frames[1].fn = "chip" /\ frames[1].left = 0
      /\ frames \in Seq(FrameOf(Len(circuit))) /\ jtok \in Nat /\ jtok + 0 = jtok
      /\ Len(tokens) \in Nat
    BY DEF ChipEnds, In, ReaderOK, TokensOK
<1>2. ASSUME NEW n \in 0..2, Regular(jtok + n) PROVE Filled(0) /\ Reads(fs, jtok)
    <2>1. Reads(frames, jtok) /\ Parsed
        BY <1>1, <1>2, RegularReads, ReadsParsed
    <2>2. PICK r \in Nat : Pending(Tail(frames), r) /\ Ahead(frames[1], r, jtok)
        BY <2>1 DEF Reads
    <2>3. PICK b \in 1..jtok, e \in jtok..Len(tokens) : r <= Cardinality(Outer(b, e))
        BY <1>1, <2>2 DEF Ahead
    <2>4. jtok \in 1..Len(tokens) /\ tok(0) = tokens[jtok]
        BY <1>1, <2>1 DEF Reads, tok
    <2>5. b \in 1..Len(tokens) /\ jtok \in b..Len(tokens) /\ e \in 1..Len(tokens)
        BY <1>1, <2>3, <2>4
    <2>6. Cardinality(Ready(jtok)) >= tokens[jtok].size + Cardinality(Outer(b, e))
        BY <2>1, <2>5, ReadyFromOuter
    <2>7. Cardinality(Outer(b, e)) \in Nat /\ Cardinality(Ready(jtok)) \in Nat
          /\ tokens[jtok].size \in Nat
        BY <2>1, <2>4, <2>5, ReadyIs, StartIs
    <2>8. g.fn = "parse" /\ g.left = tokens[jtok].size
        BY <2>4 DEF Frame
    <2>9. g.left + r <= Cardinality(Ready(jtok))
        BY <2>3, <2>6, <2>7, <2>8
    <2> HIDE DEF g
    <2>10. Ahead(g, r, jtok)
        BY <2>8, <2>9 DEF Ahead
    <2>11. Tail(fs) = Tail(frames) /\ fs[1] = g
        <3>1. Tail(frames) \in Seq(FrameOf(Len(circuit)))
            BY <1>1
        <3> QED BY <3>1, OnTop
    <2>12. Reads(fs, jtok)
        BY <2>2, <2>4, <2>10, <2>11 DEF Reads
    <2>13. Filled(0)
        BY <1>1, <2>4 DEF Filled
    <2> QED BY <2>12, <2>13
<1>3. CASE ~Filled(0) /\ Returns("undefined")
    <2>1. ~Regular(jtok + 1)
        BY <1>2, <1>3
    <2> QED BY <1>3, <2>1, ReturnsStays DEF Returns
<1>4. CASE ~(~Filled(0) /\ Returns("undefined"))
    <2>1. frames' = fs /\ jtok' = jtok /\ cres' = cres
        BY <1>4 DEF ChipEnds
    <2>2. jtk = "count" /\ \A k \in 2..Len(fs) : fs[k].fn # "chip"
        BY <1>1, NoChipBelow
    <2>3. Regular(jtok) => Reads(fs, jtok)
        <3>1. 0 \in 0..2
            OBVIOUS
        <3> QED BY <1>1, <1>2, <3>1
    <2> HIDE DEF fs
    <2>4. PointerAt(frames', jtok', cres')
        BY <2>1, <2>2, <2>3 DEF PointerAt
    <2> QED BY <1>1, <2>1, <2>4 DEF Stays
<1> QED
    BY <1>3, <1>4

\* No token is missed while the text is regular.
LEMMA BeyondStays ==
    ASSUME TokensOK, TreeOK, EndOK, ReaderOK, PointerOK,
           NEW fn \in {"parse", "cpu", "chip"}, Beyond(fn)
    PROVE  Stays
<1>1. Visits(fn) /\ ~Filled(1) /\ Returns("undefined") /\ frames # <<>> /\ cres = "busy"
      /\ cres' = "undefined"
    BY DEF Beyond, Visits, In, Returns
<1>2. ASSUME Regular(jtok + 1) PROVE FALSE
    <2>1. Reads(frames, jtok) /\ Parsed
        BY <1>1, <1>2, RegularReads, ReadsParsed
    <2>2. CASE fn # "chip"
        BY <1>1, <2>1, <2>2, ReadsCall
    <2>3. CASE fn = "chip"
        <3> DEFINE m == Len(circuit)
        <3>1. frames[1] \in FrameOf(m) /\ frames[1].fn = "chip" /\ m \in Nat
            BY <1>1, <2>3 DEF Visits, In, ReaderOK
        <3> HIDE DEF m
        <3> QED BY <1>1, <2>1, <2>3, <3>1, ReadsChip
    <2> QED BY <2>2, <2>3
<1> QED
    BY <1>1, <1>2, ReturnsStays

\* A step of the reader keeps the pointer within the tokens.
LEMMA PointerRead ==
    ASSUME TokensOK, TreeOK, EndOK, ReaderOK, PointerOK, UNCHANGED jsmn, config_parse
    PROVE  PointerOK' /\ StaysInTokens'
<1>1. Stays
    BY KeywordStays, OtherStays, CpuTypeStays, ReturnStays, ChipStays, ChipEndsStays, BeyondStays
    DEF config_parse
<1> QED
    BY <1>1, PointerKept DEF Stays

-----------------------------------------------------------------------------
\* The inductive invariant.
IInv == TokensOK /\ TreeOK /\ EndOK /\ ReaderOK /\ MainOK

\* No token, no call, no chip and no thread: the program begins in IInv.
LEMMA InitOK == Init => IInv
<1> SUFFICES ASSUME Init PROVE IInv
    OBVIOUS
<1>1. js \in Seq(Lexemes)
    BY InputsAssumption DEF Init
<1>2. TokensOK
    BY <1>1, MaxTokensAssumption DEF Init, JsmnIdle, TokensOK
<1>3. ReaderOK
    BY DEF Init, JsmnIdle, ReaderOK
<1>4. MainOK
    BY DEF Init, MainOK
<1>5. pos = 1 /\ tokens = <<>> /\ toksuper = 0 /\ jtk = "busy"
    BY DEF Init, JsmnIdle
<1>6. OpenTokens = {} /\ Within(pos) = {} /\ Parent(pos) = 0
    <2>1. Within(pos) = {}
        BY <1>5 DEF Within
    <2> QED BY <1>5, <2>1 DEF OpenTokens, Parent, Innermost
<1>7. TreeOK /\ EndOK
    BY <1>5, <1>6 DEF TreeOK, StartsOK, OpenOK, SuperOK, SizesOK, StartOf, EndOK
<1> QED
    BY <1>2, <1>3, <1>4, <1>7 DEF IInv

\* The tokens stay when jsmn_parse has returned.
LEMMA ParsedOK ==
    ASSUME IInv, UNCHANGED jsmn
    PROVE  TokensOK' /\ TreeOK' /\ EndOK'
<1>1. TokensOK'
    BY DEF IInv, TokensOK, jsmn
<1>2. TreeOK'
    BY TreeUnchanged DEF IInv, jsmn
<1>3. EndOK'
    BY DEF IInv, EndOK, OpenTokens, jsmn
<1> QED
    BY <1>1, <1>2, <1>3

\* What a step of main leaves alone.
LEMMA UntouchedOK ==
    ASSUME IInv, UNCHANGED <<jsmn, config>>
    PROVE  TokensOK' /\ TreeOK' /\ EndOK' /\ ReaderOK' /\ circuit' = circuit
<1>1. ReaderOK' /\ circuit' = circuit
    BY DEF IInv, ReaderOK, jsmn, config
<1> QED
    BY <1>1, ParsedOK

\* The ROM is read or cannot be.
LEMMA LoadRomOK == IInv /\ LoadRom => IInv'
<1> SUFFICES ASSUME IInv, LoadRom PROVE IInv'
    OBVIOUS
<1>1. MainOK'
    BY DEF IInv, MainOK, LoadRom, Goes, AllReset, jsmn, config
<1> QED
    BY <1>1, UntouchedOK DEF IInv, LoadRom

\* The configuration is opened, or the result of fopen is NULL.
LEMMA OpenConfigOK == IInv /\ OpenConfig => IInv'
<1> SUFFICES ASSUME IInv, OpenConfig PROVE IInv'
    OBVIOUS
<1>1. MainOK'
    BY DEF IInv, MainOK, OpenConfig, Goes, AllReset, jsmn, config
<1> QED
    BY <1>1, UntouchedOK DEF IInv, OpenConfig

\* While the text is tokenized, the reader has not begun.
LEMMA TokenizeStepOK == IInv /\ Tokenize => IInv'
<1> SUFFICES ASSUME IInv, Tokenize PROVE IInv'
    OBVIOUS
<1>1. TokensOK' /\ TreeOK' /\ EndOK'
    BY TokenizeOK, TreeStep, EndStep DEF IInv, Tokenize
<1>2. jtok = 0 /\ frames = <<>> /\ UNCHANGED <<config, startup>>
    BY DEF IInv, MainOK, Tokenize
<1>3. Len(tokens') \in Nat
    BY <1>1 DEF TokensOK
<1>4. ReaderOK'
    BY <1>2, <1>3 DEF IInv, ReaderOK, config
<1>5. MainOK'
    BY <1>2 DEF IInv, MainOK, AllReset, config, startup
<1> QED
    BY <1>1, <1>4, <1>5 DEF IInv

\* The reader begins with the first token, if there is one.
LEMMA TokenizedOK == IInv /\ Tokenized => IInv'
<1> SUFFICES ASSUME IInv, Tokenized PROVE IInv'
    OBVIOUS
<1>1. TokensOK' /\ TreeOK' /\ EndOK'
    BY ParsedOK DEF Tokenized
<1>2. frames = <<>> /\ jtok = 0 /\ resets = <<>> /\ threads = {}
    BY DEF IInv, MainOK, Tokenized
<1>3. MainOK'
    BY <1>2 DEF IInv, MainOK, Tokenized
<1>4. CASE UNCHANGED <<jtok, frames>>
    <2>1. cres' \in {"EINVAL", "ENOMEM", "EIO", "undefined"} /\ UNCHANGED <<tokens, circuit>>
        BY <1>2, <1>4 DEF IInv, TokensOK, Tokenized, Error, jsmn
    <2> QED BY <1>1, <1>3, <1>4, <2>1 DEF IInv, ReaderOK
<1>5. CASE ~UNCHANGED <<jtok, frames>>
    <2>1. /\ tokens # <<>> /\ jtok' = 1 /\ UNCHANGED <<tokens, circuit, cres>>
          /\ frames' = <<Frame("parse", tokens[1].size)>>
        BY <1>5 DEF Tokenized, jsmn
    <2>2. tokens[1] \in Token /\ Len(tokens) >= 1
        BY <2>1 DEF IInv, TokensOK
    <2>3. tokens[1].size \in Nat
        BY <2>2 DEF Token
    <2>4. Frame("parse", tokens[1].size) \in FrameOf(Len(circuit))
        BY <2>3, FrameIs DEF IInv, ReaderOK
    <2>5. ReaderOK'
        BY <2>1, <2>2, <2>4 DEF IInv, ReaderOK
    <2> QED BY <1>1, <1>3, <2>5 DEF IInv
<1> QED
    BY <1>4, <1>5

\* While the configuration is read, main waits.
LEMMA ReadConfigOK == IInv /\ ReadConfig => IInv'
<1> SUFFICES ASSUME IInv, ReadConfig PROVE IInv'
    OBVIOUS
<1>1. ReaderOK'
    BY ReadOK DEF IInv, ReadConfig
<1>2. TokensOK' /\ TreeOK' /\ EndOK'
    BY ParsedOK DEF ReadConfig
<1>3. threads = {}
    BY DEF IInv, MainOK, ReadConfig
<1>4. MainOK'
    BY <1>3 DEF IInv, MainOK, ReadConfig, startup
<1> QED
    BY <1>1, <1>2, <1>4 DEF IInv

\* Before the first chip is reset, there is none or there is one to reset.
LEMMA ConfigReadOK == IInv /\ ConfigRead => IInv'
<1> SUFFICES ASSUME IInv, ConfigRead PROVE IInv'
    OBVIOUS
<1>1. resets = <<>> /\ threads = {} /\ main' \in {"reset", "undefined", "exit"}
      /\ UNCHANGED <<resets, running, delays, threads, circuit>>
    BY DEF IInv, MainOK, ConfigRead, config
<1>2. Len(resets) = 0 /\ resets = [i \in 1..Len(resets) |-> i]
    BY <1>1
<1>3. circuit = <<>> \/ Len(resets) < Len(circuit)
    BY <1>2 DEF IInv, ReaderOK
<1>4. MainOK'
    BY <1>1, <1>2, <1>3 DEF IInv, MainOK
<1> QED
    BY <1>4, UntouchedOK DEF IInv, ConfigRead

\* A sequence that counts up and the next number.
LEMMA OneMore ==
    ASSUME NEW n \in Nat, NEW s, s = [i \in 1..n |-> i]
    PROVE  Append(s, n + 1) = [i \in 1..(n + 1) |-> i] /\ Len(Append(s, n + 1)) = n + 1
<1>1. s \in Seq(Int) /\ Len(s) = n
    OBVIOUS
<1> QED
    BY <1>1

\* Chips are reset one after the other: the loop ends with the last.
LEMMA ResetChipOK == IInv /\ ResetChip => IInv'
<1> SUFFICES ASSUME IInv, ResetChip PROVE IInv'
    OBVIOUS
<1> DEFINE n == Len(resets)
<1>1. /\ main = "reset" /\ resets = [i \in 1..n |-> i]
      /\ circuit = <<>> \/ n < Len(circuit)
      /\ threads = {} /\ UNCHANGED <<circuit, running, delays, threads>>
    BY DEF IInv, MainOK, ResetChip, config
<1>2. CASE circuit = <<>>
    <2>1. main' = "crash"
        BY <1>2 DEF ResetChip
    <2>2. MainOK'
        BY <1>1, <2>1 DEF IInv, MainOK
    <2> QED BY <2>2, UntouchedOK DEF IInv, ResetChip
<1>3. CASE circuit # <<>>
    <2>1. /\ resets' = Append(resets, n + 1)
          /\ main' = IF n + 1 = Len(circuit) THEN "calibrate" ELSE main
        BY <1>3 DEF ResetChip
    <2>2. n \in Nat /\ Len(circuit) \in Nat
        <3>1. DOMAIN resets = 1..n
            BY <1>1
        <3> QED BY <3>1 DEF IInv, ReaderOK
    <2>3. resets' = [i \in 1..(n + 1) |-> i] /\ Len(resets') = n + 1
        BY <1>1, <2>1, <2>2, OneMore
    <2> HIDE DEF n
    <2>4. CASE n + 1 = Len(circuit)
        <3>1. main' = "calibrate" /\ AllReset'
            BY <1>1, <1>3, <2>1, <2>3, <2>4 DEF AllReset
        <3> QED BY <1>1, <3>1, UntouchedOK DEF IInv, MainOK, ResetChip
    <2>5. CASE n + 1 # Len(circuit)
        <3>1. main' = "reset" /\ Len(resets') < Len(circuit')
            BY <1>1, <1>3, <2>1, <2>2, <2>3, <2>5
        <3> QED BY <1>1, <2>3, <3>1, UntouchedOK DEF IInv, MainOK, ResetChip
    <2> QED BY <2>4, <2>5
<1> QED
    BY <1>2, <1>3

\* The delays are calibrated behind the reset of the chips.
LEMMA CalibrateOK == IInv /\ Calibrate => IInv'
<1> SUFFICES ASSUME IInv, Calibrate PROVE IInv'
    OBVIOUS
<1>1. MainOK'
    BY DEF IInv, MainOK, Calibrate, Goes, AllReset, config
<1> QED
    BY <1>1, UntouchedOK DEF IInv, Calibrate

\* running is set behind the calibration.
LEMMA PressKeyOK == IInv /\ PressKey => IInv'
<1> SUFFICES ASSUME IInv, PressKey PROVE IInv'
    OBVIOUS
<1>1. MainOK'
    BY DEF IInv, MainOK, PressKey, Goes, AllReset, config
<1> QED
    BY <1>1, UntouchedOK DEF IInv, PressKey

\* A thread is created where everything has been made ready.
LEMMA CreateOK ==
    ASSUME IInv, NEW t \in {"timer", "sync", "gui"}, Create(t)
    PROVE  IInv'
<1>1. /\ main = t /\ main' \in {After(t), "exit"} /\ threads' \in {threads, threads \cup {t}}
      /\ UNCHANGED <<circuit, resets, running, delays>>
    BY DEF Create, Goes, config
<1>2. After(t) \in {"sync", "gui", "loop"}
    BY DEF After
<1>3. running /\ delays /\ AllReset /\ AllReset'
    BY <1>1 DEF IInv, MainOK, AllReset
<1>4. MainOK'
    BY <1>1, <1>2, <1>3 DEF IInv, MainOK
<1> QED
    BY <1>4, UntouchedOK DEF IInv, Create

\* A step that changes nothing.
LEMMA UnchangedOK == IInv /\ UNCHANGED vars => IInv'
    BY UntouchedOK DEF IInv, MainOK, AllReset, vars, config, startup

\* Every step keeps the inductive invariant.
LEMMA StepOK == IInv /\ [Next]_vars => IInv'
<1> SUFFICES ASSUME IInv, [Next]_vars PROVE IInv'
    OBVIOUS
<1>1. ASSUME NEW t \in {"timer", "sync", "gui"}, Create(t) PROVE IInv'
    BY <1>1, CreateOK
<1>2. CASE Over \/ UNCHANGED vars
    BY <1>2, UnchangedOK DEF Over
<1> QED
    BY <1>1, <1>2, LoadRomOK, OpenConfigOK, TokenizeStepOK, TokenizedOK, ReadConfigOK,
       ConfigReadOK, ResetChipOK, CalibrateOK, PressKeyOK DEF Next, Step

\* The reader begins with the first token, and those that belong to it are ready.
LEMMA PointerBegins ==
    ASSUME IInv, Tokenized
    PROVE  PointerOK' /\ StaysInTokens'
<1>1. UNCHANGED jsmn /\ frames = <<>> /\ cres = "busy" /\ jtok = 0
    BY DEF IInv, MainOK, Tokenized
<1>2. CASE UNCHANGED <<jtok, frames>>
    <2>1. cres' # "busy" /\ (cres' = "undefined" => tokens = <<>>)
        BY <1>1, <1>2 DEF IInv, TokensOK, Tokenized, Error
    <2>2. PointerAt(frames', jtok', cres')
        BY <1>1, <1>2 DEF PointerAt
    <2> QED BY <1>1, <2>1, <2>2, PointerKept
<1>3. CASE ~UNCHANGED <<jtok, frames>>
    <2> DEFINE g == Frame("parse", tokens[1].size)
    <2>1. jtk = "count" /\ tokens # <<>> /\ jtok' = 1 /\ frames' = <<g>> /\ cres' = "busy"
        BY <1>1, <1>3 DEF Tokenized
    <2>2. 1 \in 1..Len(tokens)
        BY <2>1 DEF IInv, TokensOK
    <2>3. Tail(<<g>>) = <<>> /\ <<g>>[1] = g /\ \A k \in 2..Len(<<g>>) : <<g>>[k].fn # "chip"
        OBVIOUS
    <2>4. ASSUME Regular(1) PROVE Reads(<<g>>, 1)
        <3>1. Parsed
            BY <2>1, <2>4 DEF IInv, TreeOK, EndOK, Regular, Parsed
        <3>2. tokens[1].size <= Cardinality(Ready(1)) /\ tokens[1].size \in Nat
            BY <2>2, <3>1, ReadyKids, StartIs
        <3>3. g.fn # "chip" /\ g.left + 0 <= Cardinality(Ready(1))
            BY <3>2 DEF Frame
        <3> HIDE DEF g
        <3>4. Ahead(g, 0, 1)
            BY <3>3 DEF Ahead
        <3> QED BY <2>2, <2>3, <3>4, PendingNone DEF Reads
    <2> HIDE DEF g
    <2>5. PointerAt(frames', jtok', cres')
        BY <2>1, <2>3, <2>4 DEF PointerAt
    <2> QED BY <1>1, <2>1, <2>5, PointerKept
<1> QED
    BY <1>2, <1>3

\* A step that is not the reader's.
LEMMA PointerElse ==
    ASSUME PointerOK, StaysInTokens, UNCHANGED <<jsmn, config>>
    PROVE  PointerOK' /\ StaysInTokens'
<1>1. frames' = frames /\ jtok' = jtok /\ cres' = cres /\ UNCHANGED jsmn
    BY DEF config
<1>2. PointerAt(frames', jtok', cres')
    BY <1>1 DEF PointerOK
<1>3. cres' = "undefined" => tokens = <<>> \/ ~Regular(jtok' + 1)
    BY <1>1 DEF StaysInTokens, Regular
<1> QED
    BY <1>1, <1>2, <1>3, PointerKept

\* Every step keeps the pointer of the reader within the tokens.
LEMMA PointerStep ==
    IInv /\ PointerOK /\ StaysInTokens /\ [Next]_vars => PointerOK' /\ StaysInTokens'
<1> SUFFICES ASSUME IInv, PointerOK, StaysInTokens, [Next]_vars
             PROVE  PointerOK' /\ StaysInTokens'
    OBVIOUS
<1>1. CASE Tokenize
    <2>1. frames' = <<>> /\ cres' = "busy"
        BY <1>1 DEF IInv, MainOK, Tokenize, config
    <2> QED BY <2>1 DEF PointerOK, PointerAt, StaysInTokens
<1>2. CASE Tokenized
    BY <1>2, PointerBegins
<1>3. CASE ReadConfig
    BY <1>3, PointerRead DEF IInv, ReadConfig
<1>4. CASE \E t \in {"timer", "sync", "gui"} : Create(t)
    BY <1>4, PointerElse DEF Create
<1>5. CASE LoadRom \/ OpenConfig \/ ConfigRead \/ ResetChip
    <2>1. UNCHANGED <<jsmn, config>>
        BY <1>5 DEF LoadRom, OpenConfig, ConfigRead, ResetChip
    <2> QED BY <2>1, PointerElse
<1>6. CASE Calibrate \/ PressKey \/ Over \/ UNCHANGED vars
    <2>1. UNCHANGED <<jsmn, config>>
        BY <1>6 DEF Calibrate, PressKey, Over, vars
    <2> QED BY <2>1, PointerElse
<1> QED
    BY <1>1, <1>2, <1>3, <1>4, <1>5, <1>6 DEF Next, Step

\* No call is active where the program begins.
LEMMA PointerInit == Init => PointerOK /\ StaysInTokens
    BY DEF Init, PointerOK, PointerAt, StaysInTokens

\* What the inductive invariant says of types.
LEMMA InvTypes == IInv => TypeOK
<1> SUFFICES ASSUME IInv PROVE TypeOK
    OBVIOUS
<1>1. \A t \in Token : t.size \in Nat /\ t.open \in BOOLEAN
    BY DEF Token
<1>2. \A i \in 1..Len(tokens) : tokens[i] \in Token /\ tokens[i].size <= Len(tokens) - i
    BY DEF IInv, TokensOK
<1>3. \A i \in 1..Len(tokens) : /\ tokens[i].size \in 0..(Len(tokens) - i)
                                 /\ tokens[i].open \in BOOLEAN
    <2> SUFFICES ASSUME NEW i \in 1..Len(tokens)
                 PROVE  tokens[i].size \in 0..(Len(tokens) - i) /\ tokens[i].open \in BOOLEAN
        OBVIOUS
    <2>1. Len(tokens) \in Nat
        BY DEF IInv, TokensOK
    <2>2. /\ tokens[i].size \in Nat /\ tokens[i].open \in BOOLEAN
          /\ tokens[i].size <= Len(tokens) - i
        BY <1>1, <1>2
    <2> QED BY <2>1, <2>2
<1>4. \A f \in FrameOf(Len(circuit)) : /\ f.fn \in {"parse", "cpu", "chip"}
                                        /\ f.left \in Nat /\ f.chip \in 0..Len(circuit)
    BY DEF FrameOf
<1>5. \A i \in 1..Len(frames) : frames[i] \in FrameOf(Len(circuit))
    BY DEF IInv, ReaderOK
<1>6. \A c \in Chip : c.type \in ChipTypes /\ c.address \in Word \cup {Unassigned}
    BY DEF Chip
<1>7. \A i \in 1..Len(circuit) : circuit[i] \in Chip
    BY DEF IInv, ReaderOK
<1>8. \A i \in 1..Len(circuit) :
        circuit[i].type \in ChipTypes /\ circuit[i].address \in Word \cup {Unassigned}
    BY <1>6, <1>7
<1>9. \A i \in 1..Len(frames) : /\ frames[i].fn \in {"parse", "cpu", "chip"}
                                 /\ frames[i].left \in Nat
                                 /\ frames[i].chip \in 0..Len(circuit)
    BY <1>4, <1>5
<1> QED
    BY <1>3, <1>8, <1>9 DEF IInv, TokensOK, ReaderOK, MainOK, TypeOK

\* Threads exist only where main has passed the reset, the calibration and the
\* key.
LEMMA InvReady == IInv => ThreadsMeetReadySim
    BY DEF IInv, MainOK, AllReset, ThreadsMeetReadySim

\* When the text has been read, the invariant of the tokenizer is what the tokens
\* are compared with.
LEMMA InvTree == IInv => TokensAreTree
<1> SUFFICES ASSUME IInv, jtk = "count" PROVE TokensAreTree
    BY DEF TokensAreTree
<1>1. StartsOK /\ OpenOK /\ (Separated => SizesOK) /\ OpenTokens = {}
      /\ pos = Len(js) + 1 /\ pos - 1 = Len(js) /\ Len(tokens) \in Nat
    BY DEF IInv, TreeOK, EndOK, TokensOK
<1>2. Balanced
    BY <1>1 DEF OpenOK, Balanced
<1>3. { tokens[i].start : i \in 1..Len(tokens) } = { q \in 1..Len(js) : IsValue(q) }
    BY <1>1 DEF StartsOK
<1>4. ASSUME NEW i \in 1..Len(tokens)
      PROVE  /\ \A j \in 1..(i - 1) : tokens[j].start < tokens[i].start
             /\ TokenAt(tokens[i], tokens[i].start)
             /\ Separated => tokens[i].size = Cardinality(Children(tokens[i].start, Len(js)))
    <2>1. ASSUME NEW j \in 1..(i - 1) PROVE tokens[j].start < tokens[i].start
        <3>1. j \in 1..Len(tokens) /\ j < i
            BY <1>1
        <3> QED BY <1>1, <3>1 DEF StartsOK
    <2>2. TokenAt(tokens[i], tokens[i].start)
        BY <1>1 DEF StartsOK
    <2>3. Separated => tokens[i].size = Cardinality(Children(tokens[i].start, Len(js)))
        BY <1>1 DEF SizesOK
    <2> QED BY <2>1, <2>2, <2>3
<1> QED
    BY <1>2, <1>3, <1>4 DEF TokensAreTree

\* The inductive invariant holds of every text, as long as the array of
\* tokens is finite.
THEOREM Invariance == Spec => []IInv
    BY InitOK, StepOK, PTL DEF Spec

\* The counts of the tokens and the pointer of the reader stay within the
\* tokens, each address is stored in a chip of the list and is a word, for every
\* text and every length of the token array (jsmn.c, cfg.c, main of sim.c).
THEOREM TypeCorrect == Spec => []TypeOK
    BY Invariance, InvTypes, PTL

\* What jsmn_parse returns is the tree of the text: a token for each value, in
\* order, that counts just the values that belong to it, for every text, every
\* nesting and every length of the token array (jsmn.c).
THEOREM TreeCorrect == Spec => []TokensAreTree
    BY Invariance, InvTree, PTL

\* Threads are created (main of sim.c) only when running is set, the delays are
\* calibrated and all chips, at least one, have been reset, once each.
THEOREM ReadyCorrect == Spec => []ThreadsMeetReadySim
    BY Invariance, InvReady, PTL

\* For every text that separates its values and names the members of its objects,
\* config_parse, config_parse_cpu and config_parse_chip (cfg.c) never look at a
\* token that jsmn_parse has not filled, however deep they are nested and
\* whatever they take for a keyword, unless that has no value.
THEOREM PointerCorrect == Spec => []StaysInTokens
<1>1. Spec => [](PointerOK /\ StaysInTokens)
    BY Invariance, PointerInit, PointerStep, PTL DEF Spec
<1> QED
    BY <1>1, PTL

\* A key that counts one child: the token behind it is there.
ValuesInTokens ==
    frames # <<>> /\ Filled(1) /\ tok(1).size = 1 => Filled(2)

\* Where cfg.c has seen a key with one child, the token behind the key, which it
\* reads unseen, has been filled by jsmn_parse.
THEOREM ValuesCorrect == Spec => []ValuesInTokens
<1>1. IInv => ValuesInTokens
    BY ValueFilled DEF IInv, ValuesInTokens
<1> QED
    BY <1>1, Invariance, PTL
-----------------------------------------------------------------------------
\* How far main still has to go: the places from here to the last, and what is left
\* to do at this one.  At "tokens" that is the text; at "config" the tokens,
\* each of which makes up for a call, for its return and, if it is a chip's, for
\* the call for what follows; at "reset" the chips.
Place == [rom |-> 10, fopen |-> 9, tokens |-> 8, config |-> 7, reset |-> 6, calibrate |-> 5,
          key |-> 4, timer |-> 3, sync |-> 2, gui |-> 1,
          loop |-> 0, exit |-> 0, crash |-> 0, undefined |-> 0]

OnChip(fs) == IF fs # <<>> /\ fs[1].fn = "chip" THEN 1 ELSE 0
Calls == 3 * (Len(tokens) + 1 - jtok) + Len(frames) + OnChip(frames)

ToDo == IF main = "tokens" THEN Len(js) + 1 - pos + (IF jtk = "busy" THEN 1 ELSE 0)
        ELSE IF main = "config" THEN (IF cres = "busy" THEN 1 + Calls ELSE 0)
        ELSE IF main = "reset" /\ circuit # <<>> THEN Len(circuit) - Len(resets) ELSE 0

GetsOn == Place[main'] < Place[main] \/ (main' = main /\ ToDo' < ToDo)

\* What is left is a number.
LEMMA ToDoIs == IInv => ToDo \in Nat /\ Calls \in Nat
<1> SUFFICES ASSUME IInv PROVE ToDo \in Nat /\ Calls \in Nat
    OBVIOUS
<1>1. /\ Len(js) \in Nat /\ pos \in 1..(Len(js) + 1) /\ Len(tokens) \in Nat
      /\ jtok \in 0..(Len(tokens) + 1) /\ Len(frames) \in Nat /\ Len(circuit) \in Nat
    BY DEF IInv, TokensOK, ReaderOK
<1>2. Calls \in Nat
    BY <1>1 DEF Calls, OnChip
<1>3. CASE main = "reset" /\ circuit # <<>>
    <2>1. resets = [i \in 1..Len(resets) |-> i] /\ Len(resets) < Len(circuit)
        BY <1>3 DEF IInv, MainOK
    <2>2. Len(resets) \in Nat
        <3> DEFINE n == Len(resets)
        <3>1. DOMAIN resets = 1..n
            BY <2>1
        <3> QED BY <3>1
    <2> QED BY <1>1, <1>2, <1>3, <2>1, <2>2 DEF ToDo
<1>4. CASE ~(main = "reset" /\ circuit # <<>>)
    BY <1>1, <1>2, <1>4 DEF ToDo
<1> QED
    BY <1>3, <1>4

\* jsmn_parse goes on behind a lexeme; it returns.
Taken == jtk = "busy" /\ js' = js /\ pos' = pos + 1 /\ jtk' = jtk
Last == jtk = "busy" /\ js' = js /\ pos' = pos /\ jtk' # "busy"

\* A step of jsmn_parse takes a lexeme or is the last.
LEMMA TokenizerGetsOn ==
    ASSUME TokensOK, jsmn_parse
    PROVE  Taken \/ Last
<1>1. ASSUME jtk = "busy", NEW error \in {"NOMEM", "INVAL", "PART"}, JsmnFails(error) PROVE Last
    BY <1>1 DEF JsmnFails, Last
<1>2. ASSUME NEW type, NEW open, NEW is, At(is), Alloc(type, open) PROVE Taken \/ Last
    <2>1. CASE Len(tokens) >= MaxTokens
        <3>1. JsmnFails("NOMEM")
            BY <1>2, <2>1 DEF Alloc
        <3> QED BY <1>1, <1>2, <3>1 DEF At
    <2>2. CASE ~(Len(tokens) >= MaxTokens)
        <3>1. pos' = pos + 1 /\ UNCHANGED <<js, jtk>>
            BY <1>2, <2>2 DEF Alloc
        <3> QED BY <1>2, <3>1 DEF At, Taken
    <2> QED BY <2>1, <2>2
<1>3. ASSUME NEW type, Close(type) PROVE Taken \/ Last
    <2> DEFINE i == Innermost(OpenTokens)
    <2>1. jtk = "busy" /\ IF i = 0 \/ tokens[i].type # type THEN JsmnFails("INVAL")
                          ELSE pos' = pos + 1 /\ UNCHANGED <<js, jtk>>
        BY <1>3 DEF At, Close
    <2> HIDE DEF i
    <2>2. CASE JsmnFails("INVAL")
        BY <1>1, <2>1, <2>2
    <2>3. CASE ~JsmnFails("INVAL")
        BY <2>1, <2>3 DEF Taken
    <2> QED BY <2>2, <2>3
<1>4. CASE StringToken \/ PrimitiveToken \/ \E type \in Containers : Open(type)
    BY <1>2, <1>4 DEF StringToken, PrimitiveToken, Open
<1>5. CASE Colon \/ Comma
    BY <1>5 DEF Colon, Comma, At, Taken
<1>6. CASE BadLexeme
    BY <1>1, <1>6 DEF BadLexeme, At
<1>7. CASE End
    BY <1>7 DEF End, Last
<1> QED
    BY <1>3, <1>4, <1>5, <1>6, <1>7 DEF jsmn_parse

\* A call is made up for by the token that it is for.
LEMMA CallGetsOn ==
    ASSUME TokensOK, ReaderOK, UNCHANGED jsmn, NEW fn \in {"parse", "cpu"}, Visits(fn),
           NEW n \in {1, 2}, jtok' = jtok + n, NEW g,
           frames' = <<g>> \o Counting(frames[1])
    PROVE  Calls' < Calls
<1> DEFINE F == FrameOf(Len(circuit))
           h == [frames[1] EXCEPT !.left = @ - 1]
           ts == Tail(frames)
<1>1. frames # <<>> /\ frames[1].fn # "chip" /\ frames \in Seq(F) /\ tokens' = tokens
      /\ Len(tokens) \in Nat /\ jtok \in Nat
    BY DEF Visits, In, ReaderOK, TokensOK, jsmn
<1>2. ts \in Seq(F) /\ Len(ts) = Len(frames) - 1 /\ Len(frames) \in Nat
    BY <1>1
<1>3. frames' = <<g>> \o (<<h>> \o ts)
    BY DEF Counting
<1> HIDE DEF h, ts
<1>4. Len(frames') = Len(frames) + 1
    <2>1. Len(<<h>> \o ts) = Len(frames) /\ <<h>> \o ts \in Seq(F \cup {h})
        BY <1>2
    <2> DEFINE fs == <<h>> \o ts
    <2> HIDE DEF fs
    <2>2. fs \in Seq(F \cup {h}) /\ Len(fs) = Len(frames)
        BY <2>1 DEF fs
    <2>3. Len(<<g>> \o fs) = Len(fs) + 1
        BY <2>2
    <2> QED BY <1>3, <2>2, <2>3 DEF fs
<1>5. OnChip(frames) = 0
    BY <1>1 DEF OnChip
<1>6. Calls = 3 * (Len(tokens) + 1 - jtok) + Len(frames) + 0
    BY <1>5 DEF Calls
<1>7. Calls' = 3 * (Len(tokens) + 1 - (jtok + n)) + (Len(frames) + 1) + OnChip(frames)'
    BY <1>1, <1>4 DEF Calls
<1>8. OnChip(frames)' \in {0, 1}
    BY DEF OnChip
<1> QED
    BY <1>1, <1>2, <1>6, <1>7, <1>8

\* Only the innermost call is a chip's, for every text.
LEMMA ReaderGetsOn ==
    ASSUME TokensOK, ReaderOK, PointerOK, UNCHANGED jsmn, config_parse
    PROVE  cres = "busy" /\ (cres' # "busy" \/ Calls' < Calls)
<1>1. frames # <<>> /\ cres = "busy" /\ tokens' = tokens /\ Len(tokens) \in Nat
      /\ Len(frames) \in Nat /\ jtok \in Nat /\ Len(circuit) \in Nat
      /\ frames \in Seq(FrameOf(Len(circuit)))
    BY DEF config_parse, Keyword, Descend, Return, CpuType, CpuOther, ChipType, ChipAddr,
           ChipOther, ChipEnds, Beyond, Visits, In, TokensOK, ReaderOK, jsmn
<1>2. CASE Keyword \/ Descend \/ CpuType \/ CpuOther
    <2>1. CASE cres' # "busy"
        BY <1>1, <2>1
    <2>2. CASE cres' = "busy"
        <3>1. PICK fn \in {"parse", "cpu"}, n \in {1, 2} :
                  /\ Visits(fn) /\ jtok' = jtok + n
                  /\ \E g : frames' = <<g>> \o Counting(frames[1])
            BY <1>2, <2>2 DEF Keyword, Descend, CpuType, CpuOther, EINVAL, Returns
        <3> QED BY <1>1, <3>1, CallGetsOn
    <2> QED BY <2>1, <2>2
<1>3. CASE Return
    <2>1. frames' = Tail(frames) /\ jtok' = jtok /\ frames[1].fn # "chip"
        BY <1>3 DEF Return, In
    <2>2. Len(frames') = Len(frames) - 1
        BY <1>1, <2>1
    <2>3. OnChip(frames)' = 0 /\ OnChip(frames) = 0
        <3>1. CASE frames' = <<>>
            BY <2>1, <3>1 DEF OnChip
        <3>2. CASE frames' # <<>>
            <4>1. 1 \in 1..Len(Tail(frames))
                BY <1>1, <2>1, <3>2
            <4>2. frames'[1].fn # "chip"
                BY <1>1, <2>1, <4>1, NoChipBelow
            <4> QED BY <2>1, <4>2 DEF OnChip
        <3> QED BY <3>1, <3>2
    <2>4. Calls' = 3 * (Len(tokens) + 1 - jtok) + Len(frames') + 0
        BY <1>1, <2>1, <2>3 DEF Calls
    <2>5. Calls = 3 * (Len(tokens) + 1 - jtok) + Len(frames) + 0
        BY <2>3 DEF Calls
    <2> QED BY <1>1, <2>2, <2>4, <2>5
<1>4. CASE ChipType \/ ChipAddr \/ ChipOther
    <2>1. CASE cres' # "busy"
        BY <1>1, <2>1
    <2>2. CASE cres' = "busy"
        <3>1. PICK n \in {1, 2} : jtok' = jtok + n /\ \E g : frames' = Counting(g)
            BY <1>4, <2>2 DEF ChipType, ChipAddr, ChipOther, EINVAL, Returns
        <3>a. PICK g : frames' = Counting(g)
            BY <3>1
        <3>2. OnChip(frames) = 1 /\ OnChip(frames)' \in {0, 1}
            BY <1>1, <1>4 DEF OnChip, ChipType, ChipAddr, ChipOther, Visits, In
        <3>3. Len(frames') = Len(frames)
            <4> DEFINE h == [g EXCEPT !.left = @ - 1]
                       ts == Tail(frames)
            <4>1. frames' = <<h>> \o ts /\ ts \in Seq(FrameOf(Len(circuit)))
                  /\ Len(ts) = Len(frames) - 1
                BY <1>1, <3>a DEF Counting
            <4> HIDE DEF h, ts
            <4>2. Len(<<h>> \o ts) = Len(ts) + 1
                BY <4>1
            <4> QED BY <1>1, <4>1, <4>2
        <3>4. Calls' = 3 * (Len(tokens) + 1 - (jtok + n)) + Len(frames) + OnChip(frames)'
            BY <1>1, <3>1, <3>3 DEF Calls
        <3>5. Calls = 3 * (Len(tokens) + 1 - jtok) + Len(frames) + 1
            BY <3>2 DEF Calls
        <3> QED BY <1>1, <3>2, <3>4, <3>5
    <2> QED BY <2>1, <2>2
<1>5. CASE ChipEnds
    <2>1. CASE cres' # "busy"
        BY <1>1, <2>1
    <2>2. CASE cres' = "busy"
        <3> DEFINE g == Frame("parse", tok(0).size)
                   ts == Tail(frames)
        <3>1. frames' = <<g>> \o ts /\ jtok' = jtok /\ ts \in Seq(FrameOf(Len(circuit)))
              /\ Len(ts) = Len(frames) - 1 /\ g.fn = "parse"
            BY <1>1, <1>5, <2>2 DEF ChipEnds, Returns, Frame
        <3>2. OnChip(frames) = 1
            BY <1>1, <1>5 DEF OnChip, ChipEnds, In
        <3> HIDE DEF g, ts
        <3>3. Len(<<g>> \o ts) = Len(ts) + 1 /\ (<<g>> \o ts)[1] = g
            BY <3>1
        <3>4. Len(frames') = Len(frames) /\ OnChip(frames)' = 0
            BY <1>1, <3>1, <3>3 DEF OnChip
        <3>5. Calls = 3 * (Len(tokens) + 1 - jtok) + Len(frames) + 1
            BY <3>2 DEF Calls
        <3>6. Calls' = 3 * (Len(tokens) + 1 - jtok) + Len(frames) + 0
            BY <1>1, <3>1, <3>4 DEF Calls
        <3> QED BY <1>1, <3>5, <3>6
    <2> QED BY <2>1, <2>2
<1>6. CASE \E fn \in {"parse", "cpu", "chip"} : Beyond(fn)
    BY <1>1, <1>6 DEF Beyond, Returns
<1> QED
    BY <1>2, <1>3, <1>4, <1>5, <1>6 DEF config_parse

\* One more than a number.
LEMMA OneAnd == \A a, b \in Nat : 0 < 1 + a /\ (a < b => 1 + a < 1 + b)
    OBVIOUS

\* Every step of main brings it on.
LEMMA StepGetsOn == IInv /\ PointerOK /\ [Next]_vars => [GetsOn]_vars
<1> SUFFICES ASSUME IInv, PointerOK, Next, ~UNCHANGED vars PROVE GetsOn
    OBVIOUS
<1>1. CASE Tokenize
    <2>1. main = "tokens" /\ main' = "tokens" /\ jsmn_parse
        BY <1>1 DEF Tokenize, startup
    <2>2. Len(js) \in Nat /\ pos \in Nat
        BY DEF IInv, TokensOK
    <2>3. /\ jtk = "busy" /\ js' = js
          /\ \/ pos' = pos + 1 /\ jtk' = jtk
             \/ pos' = pos /\ jtk' # "busy"
        <3>1. Taken \/ Last
            BY <2>1, TokenizerGetsOn DEF IInv
        <3> QED BY <3>1 DEF Taken, Last
    <2>4. ToDo = Len(js) + 1 - pos + 1
        BY <2>1, <2>3 DEF ToDo
    <2>5. ToDo' = Len(js) + 1 - pos' + (IF jtk' = "busy" THEN 1 ELSE 0)
        BY <2>1, <2>3 DEF ToDo
    <2>6. ToDo' < ToDo
        BY <2>2, <2>3, <2>4, <2>5
    <2> QED BY <2>1, <2>6 DEF GetsOn
<1>2. CASE ReadConfig
    <2>1. main = "config" /\ main' = "config" /\ config_parse /\ UNCHANGED jsmn
        BY <1>2 DEF ReadConfig, startup
    <2>2. cres = "busy" /\ (cres' # "busy" \/ Calls' < Calls)
        BY <2>1, ReaderGetsOn DEF IInv
    <2>3. Calls \in Nat /\ Calls' \in Nat
        <3>1. IInv'
            BY <1>2, ReadConfigOK
        <3>2. (ToDo \in Nat /\ Calls \in Nat)'
            BY <3>1, ToDoIs, PTL
        <3>3. Calls \in Nat
            BY ToDoIs
        <3> QED BY <3>2, <3>3
    <2>4. ToDo = 1 + Calls
        BY <2>1, <2>2 DEF ToDo
    <2>5. ToDo' < ToDo
        <3>1. CASE cres' = "busy"
            <4>1. ToDo' = 1 + Calls'
                BY <2>1, <3>1 DEF ToDo
            <4>2. Calls' < Calls
                BY <2>2, <3>1
            <4>3. 1 + Calls' < 1 + Calls
                BY <2>3, <4>2, OneAnd
            <4> QED BY <2>4, <4>1, <4>3
        <3>2. CASE cres' # "busy"
            <4>1. ToDo' = 0
                BY <2>1, <3>2 DEF ToDo
            <4> QED BY <2>3, <2>4, <4>1, OneAnd
        <3> QED BY <3>1, <3>2
    <2> QED BY <2>1, <2>5 DEF GetsOn
<1>3. CASE ResetChip
    <2>1. CASE main' = main
        <3>1. /\ main = "reset" /\ circuit # <<>> /\ circuit' = circuit
              /\ resets' = Append(resets, Len(resets) + 1)
            BY <1>3, <2>1 DEF ResetChip, config
        <3>2. resets = [i \in 1..Len(resets) |-> i]
            BY <3>1 DEF IInv, MainOK
        <3>3. Len(resets) \in Nat /\ Len(circuit) \in Nat
            <4> DEFINE n == Len(resets)
            <4>1. DOMAIN resets = 1..n
                BY <3>2
            <4> QED BY <4>1 DEF IInv, ReaderOK
        <3>4. Len(resets') = Len(resets) + 1
            BY <3>1, <3>2, <3>3, OneMore
        <3>5. ToDo = Len(circuit) - Len(resets) /\ ToDo' = Len(circuit) - Len(resets')
            BY <2>1, <3>1 DEF ToDo
        <3>6. ToDo' < ToDo
            BY <3>3, <3>4, <3>5
        <3> QED BY <2>1, <3>6 DEF GetsOn
    <2>2. CASE main' # main
        BY <1>3, <2>2 DEF ResetChip, GetsOn, Place
    <2> QED BY <2>1, <2>2
<1>4. ASSUME NEW t \in {"timer", "sync", "gui"}, Create(t) PROVE GetsOn
    BY <1>4 DEF Create, Goes, After, GetsOn, Place
<1>5. CASE LoadRom \/ OpenConfig \/ Tokenized \/ Calibrate \/ PressKey
    BY <1>5 DEF LoadRom, OpenConfig, Tokenized, Calibrate, PressKey, Goes, GetsOn, Place
<1>6. CASE ConfigRead
    <2>1. main = "config" /\ main' \in {"reset", "undefined", "exit"}
        BY <1>6 DEF ConfigRead
    <2> QED BY <2>1 DEF GetsOn, Place
<1> QED
    BY <1>1, <1>2, <1>3, <1>4, <1>5, <1>6 DEF Next, Step, Over

\* For every text the start of the program counts down (main of sim.c, jsmn_parse,
\* the recursion of cfg.c): each step is one to a later place, or leaves a smaller
\* natural number to do at the same place, so that no run of steps is endless.
THEOREM StartupCountsDown == Spec => [](ToDo \in Nat) /\ [][GetsOn]_vars
<1>1. Spec => [](IInv /\ PointerOK /\ StaysInTokens)
    BY InitOK, StepOK, PointerInit, PointerStep, PTL DEF Spec
<1>2. IInv => ToDo \in Nat
    BY ToDoIs
<1> QED
    BY <1>1, <1>2, StepGetsOn, PTL DEF Spec
=============================================================================
