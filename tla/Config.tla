------------------------------- MODULE Config --------------------------------
(***************************************************************************)
(* The configuration reader (cfg.c): three functions that call each other  *)
(* and walk one shared token pointer forwards, each taking the number of   *)
(* its children from a token and counting them down.  Nothing but these    *)
(* counts keeps the pointer on the key that a function believes it is at.  *)
(*                                                                         *)
(* The calls are a stack of frames; an iteration of a loop is a step.  The *)
(* recursion returns at once when one call returns an error.               *)
(***************************************************************************)
EXTENDS Jsmn

CONSTANT Unassigned   \* an address that the chip's constructor left as it was

VARIABLES jtok,      \* the token that *jtok points to, from 1
          frames,    \* the active calls, innermost first
          circuit,   \* sim->circuit: the chips in the order of the list
          cres       \* "busy", or the result of read_config_json

config == <<jtok, frames, circuit, cres>>

\* A call: the function, the children it has still to visit, and for
\* config_parse_chip the index of its chip (0: NULL).
Frame(fn, n) == [fn |-> fn, left |-> n, chip |-> 0]

ChipTypes == {"6522", "6551", "AY-3-8910"}

\* sizeof of the register files; AY-3-8910 has none.
RegSize(type) == CASE type = "6522" -> 16
                   [] type = "6551" -> 4
                   [] type = "AY-3-8910" -> 0

\* strtol(text, NULL, 16), for the texts that documents use: what
\* does not begin with a hexadecimal digit is 0.
strtol16(text) == CASE text = "8020" -> 32800
                    [] text = "8040" -> 32832
                    [] text = "18020" -> 98336
                    [] OTHER -> 0

\* uint16_t
UINT16_MAX == 65535
Word == 0..UINT16_MAX

\* Seeded fault: the number is kept as long as strtol returns it.
AddressUncut(text) == strtol16(text)

\* (uint16_t) address
Address(text) == strtol16(text) % 65536

In(fn) == cres = "busy" /\ frames # <<>> /\ frames[1].fn = fn

\* The next child of the innermost call is due.
Visits(fn) == In(fn) /\ frames[1].left > 0

\* The n-th token after *jtok, if there is one.
Filled(n) == jtok + n <= Len(tokens)
tok(n) == tokens[jtok + n]
Key(name) == Filled(1) /\ tok(1).type = "string" /\ tok(1).text = name

\* The innermost call has visited one more child and now is f.
Counting(f) == <<[f EXCEPT !.left = @ - 1]>> \o Tail(frames)

Returns(result) == cres' = result /\ UNCHANGED <<jtok, frames, circuit>>
EINVAL == Returns("EINVAL")

\* A token that jsmn_parse has not filled is read: anything may follow.
Beyond(fn) == Visits(fn) /\ ~Filled(1) /\ Returns("undefined")

-----------------------------------------------------------------------------
\* config_parse

Keywords == {"cpu", "chip"}

\* A string that says "cpu" or "chip", be it a key or a value: the function
\* for it, which begins with the token after it.
Keyword ==
    /\ Visits("parse")
    /\ \E name \in Keywords :
         /\ Key(name)
         /\ \/ ~Filled(2) /\ Returns("undefined")
            \/ Filled(2) /\ tok(2).type # "object" /\ EINVAL
            \/ /\ Filled(2) /\ tok(2).type = "object"
               /\ jtok' = jtok + 2
               /\ frames' = <<Frame(name, tok(2).size)>> \o Counting(frames[1])
               /\ UNCHANGED <<circuit, cres>>

\* Any other token: config_parse for its children.
Descend ==
    /\ Visits("parse") /\ Filled(1)
    /\ \A name \in Keywords : ~Key(name)
    /\ jtok' = jtok + 1
    /\ frames' = <<Frame("parse", tok(1).size)>> \o Counting(frames[1])
    /\ UNCHANGED <<circuit, cres>>

\* config_parse and config_parse_cpu return 0.
Return ==
    /\ In("parse") \/ In("cpu")
    /\ frames[1].left = 0
    /\ frames' = Tail(frames)
    /\ cres' = IF Tail(frames) = <<>> THEN "0" ELSE cres
    /\ UNCHANGED <<jtok, circuit>>

-----------------------------------------------------------------------------
\* config_parse_cpu: the value of "type" must be "6502".  Then config_parse
\* for the children of what *jtok has come to: the value, or any other key.

CpuType ==
    /\ Visits("cpu") /\ Key("type")
    /\ LET valid == /\ tok(1).size = 1
                    /\ tok(2).type = "string" /\ tok(2).text = "6502"
       IN  \/ ~valid /\ EINVAL
           \/ /\ valid
              /\ jtok' = jtok + 2
              /\ frames' = <<Frame("parse", tok(2).size)>> \o Counting(frames[1])
              /\ UNCHANGED <<circuit, cres>>

CpuOther ==
    /\ Visits("cpu") /\ Filled(1) /\ ~Key("type")
    /\ jtok' = jtok + 1
    /\ frames' = <<Frame("parse", tok(1).size)>> \o Counting(frames[1])
    /\ UNCHANGED <<circuit, cres>>

-----------------------------------------------------------------------------
\* config_parse_chip

\* Seeded fault: a chip is linked in front of the list, in place of the rest.
AddChipFirst(chip) == circuit' = <<chip>>

\* add_chip: to the end of the list.
add_chip(chip) == circuit' = Append(circuit, chip)

\* "type": the constructor is called and the chip linked.  That of the 6551
\* ends the program when there is no pseudo terminal to be had.
ChipType ==
    /\ Visits("chip") /\ Key("type")
    /\ LET valid == /\ frames[1].chip = 0
                    /\ tok(1).size = 1
                    /\ tok(2).type = "string" /\ tok(2).text \in ChipTypes
       IN  \/ ~valid /\ EINVAL
           \/ valid /\ tok(2).text = "6551" /\ Returns("exit")
           \/ /\ valid
              /\ add_chip([type |-> tok(2).text, regsize |-> RegSize(tok(2).text),
                           address |-> Unassigned])
              /\ jtok' = jtok + 2
              /\ frames' = Counting([frames[1] EXCEPT !.chip = Len(circuit) + 1])
              /\ UNCHANGED cres

\* "addr": only after "type".
ChipAddr ==
    /\ Visits("chip") /\ Key("addr")
    /\ LET valid == /\ tok(1).size = 1
                    /\ tok(2).type = "string"
                    /\ frames[1].chip # 0
       IN  \/ ~valid /\ EINVAL
           \/ /\ valid
              /\ circuit' = [circuit EXCEPT ![frames[1].chip].address =
                                                        Address(tok(2).text)]
              /\ jtok' = jtok + 2
              /\ frames' = Counting(frames[1])
              /\ UNCHANGED cres

\* Another key is stepped over with one token after it, whatever that is; a
\* token that is not a string by itself.
ChipOther ==
    /\ Visits("chip") /\ Filled(1) /\ ~Key("type") /\ ~Key("addr")
    /\ jtok' = jtok + (IF tok(1).type = "string" THEN 2 ELSE 1)
    /\ frames' = Counting(frames[1])
    /\ UNCHANGED <<circuit, cres>>

\* Seeded fault: the caller goes on with the first token of the chip.
ChipEndsEarly ==
    /\ In("chip") /\ frames[1].left = 0
    /\ Filled(0)
    /\ frames' = <<Frame("parse", tokens[jtok].size + 1)>> \o Tail(frames)
    /\ UNCHANGED <<jtok, circuit, cres>>

\* config_parse_chip returns 0, and its caller falls through to the default
\* case: config_parse for the children of the last token visited.
ChipEnds ==
    /\ In("chip") /\ frames[1].left = 0
    /\ \/ ~Filled(0) /\ Returns("undefined")
       \/ /\ Filled(0)
          /\ frames' = <<Frame("parse", tok(0).size)>> \o Tail(frames)
          /\ UNCHANGED <<jtok, circuit, cres>>

config_parse == \/ Keyword \/ Descend \/ Return
                \/ CpuType \/ CpuOther
                \/ ChipType \/ ChipAddr \/ ChipOther \/ ChipEnds
                \/ \E fn \in {"parse", "cpu", "chip"} : Beyond(fn)
=============================================================================
