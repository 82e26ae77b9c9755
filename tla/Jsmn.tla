-------------------------------- MODULE Jsmn ---------------------------------
(***************************************************************************)
(* jsmn_parse (jsmn/jsmn.c), the tokenizer under the configuration reader, *)
(* in its non-strict mode without parent links, as the Makefile builds it. *)
(* It fills an array of tokens in which the tree of the document is only   *)
(* present as the `size' of each token: the reader relies on these counts. *)
(*                                                                         *)
(* The text is a sequence of lexemes.  Scanning a string or a primitive is *)
(* one step; whitespace is left out, as the code skips it.                 *)
(***************************************************************************)
EXTENDS Integers, Sequences, FiniteSetsExt

CONSTANT MaxTokens   \* the length of the token array

ASSUME MaxTokensAssumption == MaxTokens \in Nat

\* The lexemes.  "quote" is a string without its end, or with an escape that
\* is cut off; "binary" a byte that is not printable.
Lexeme(is) == [is |-> is, text |-> ""]
Str(text) == [is |-> "string", text |-> text]
Prim == Lexeme("primitive")
Lexemes == [is : STRING, text : STRING]

VARIABLES js,        \* the text
          pos,       \* parser->pos
          tokens,    \* the tokens filled so far; start: its lexeme, open: end is -1
          toksuper,  \* parser->toksuper, 0 for none
          jtk        \* "busy", or the result: "count", or an error

jsmn == <<js, pos, tokens, toksuper, jtk>>

Containers == {"object", "array"}
Opens(type) == IF type = "object" THEN "{" ELSE "["
Closes(type) == IF type = "object" THEN "}" ELSE "]"

\* jsmn_init, and no token used yet.
JsmnIdle == pos = 1 /\ tokens = <<>> /\ toksuper = 0 /\ jtk = "busy"

At(is) == jtk = "busy" /\ pos <= Len(js) /\ js[pos].is = is

JsmnFails(error) == jtk' = error /\ UNCHANGED <<js, pos, tokens, toksuper>>

\* The containers that have not been closed, innermost last.
OpenTokens == { i \in 1..Len(tokens) : tokens[i].open }
Innermost(S) == IF S = {} THEN 0 ELSE Max(S)

\* jsmn_alloc_token, and the new token counted in the one above it.
Alloc(type, open) ==
    IF Len(tokens) >= MaxTokens THEN JsmnFails("NOMEM")
    ELSE /\ tokens' = Append(IF toksuper = 0 THEN tokens
                             ELSE [tokens EXCEPT ![toksuper].size = @ + 1],
                             [type |-> type, text |-> js[pos].text,
                              start |-> pos, size |-> 0, open |-> open])
         /\ toksuper' = IF open THEN Len(tokens) + 1 ELSE toksuper
         /\ pos' = pos + 1
         /\ UNCHANGED <<js, jtk>>

Open(type) == At(Opens(type)) /\ Alloc(type, TRUE)

StringToken == At("string") /\ Alloc("string", FALSE)
PrimitiveToken == At("primitive") /\ Alloc("primitive", FALSE)

\* Seeded fault: what follows still belongs to what has ended.
CloseKeepsSuper(type) ==
    /\ At(Closes(type))
    /\ LET i == Innermost(OpenTokens) IN
       IF i = 0 \/ tokens[i].type # type THEN JsmnFails("INVAL")
       ELSE /\ tokens' = [tokens EXCEPT ![i].open = FALSE]
            /\ pos' = pos + 1
            /\ UNCHANGED <<js, toksuper, jtk>>

\* The innermost open token ends, if it is of the right type, and what
\* follows belongs to the next one outwards.
Close(type) ==
    /\ At(Closes(type))
    /\ LET i == Innermost(OpenTokens) IN
       IF i = 0 \/ tokens[i].type # type THEN JsmnFails("INVAL")
       ELSE /\ tokens' = [tokens EXCEPT ![i].open = FALSE]
            /\ toksuper' = Innermost(OpenTokens \ {i})
            /\ pos' = pos + 1
            /\ UNCHANGED <<js, jtk>>

\* What follows belongs to the token before the colon.
Colon == /\ At(":")
         /\ toksuper' = Len(tokens)
         /\ pos' = pos + 1
         /\ UNCHANGED <<js, tokens, jtk>>

\* Seeded fault: what follows still belongs to the key.
CommaForgotten == At(",") /\ pos' = pos + 1 /\ UNCHANGED <<js, tokens, toksuper, jtk>>

\* Seeded fault: the position is stepped back, as it is after a primitive.
CommaStays == At(",") /\ UNCHANGED jsmn

\* What follows belongs to the container again.
Comma == /\ At(",")
         /\ toksuper' = IF /\ toksuper # 0
                           /\ tokens[toksuper].type \notin Containers
                           /\ OpenTokens # {}
                          THEN Innermost(OpenTokens) ELSE toksuper
         /\ pos' = pos + 1
         /\ UNCHANGED <<js, tokens, jtk>>

BadLexeme == \/ At("quote") /\ JsmnFails("PART")
             \/ At("binary") /\ JsmnFails("INVAL")

End == /\ jtk = "busy" /\ pos > Len(js)
       /\ jtk' = IF OpenTokens # {} THEN "PART" ELSE "count"
       /\ UNCHANGED <<js, pos, tokens, toksuper>>

jsmn_parse == \/ \E type \in Containers : Open(type) \/ Close(type)
              \/ StringToken \/ PrimitiveToken
              \/ Colon \/ Comma \/ BadLexeme \/ End
=============================================================================
