------------------------------ MODULE Startup --------------------------------
(***************************************************************************)
(* The start of the program: main of sim.c up to its loop, which reads the *)
(* ROM and, with read_config_json of cfg.c, the configuration, resets the  *)
(* chips, calibrates the delays, waits for a key and creates the threads.  *)
(* What the text of the configuration means is the subject of Documents.   *)
(***************************************************************************)
EXTENDS Config, Nesting

\* What may be read: a document and the text found in jbuffer for it.
CONSTANT Inputs

ASSUME InputsAssumption == \A i \in Inputs : i.text \in Seq(Lexemes)

VARIABLES doc,      \* history: the document in system1.json
          main,     \* where main is
          resets,   \* history: the chips reset, in order
          running,  \* sim.running
          delays,   \* the delays have been calibrated
          threads   \* the threads created

startup == <<doc, main, resets, running, delays, threads>>
vars == <<jsmn, config, startup>>

-----------------------------------------------------------------------------
Init == /\ \E i \in Inputs : doc = i.doc /\ js = i.text
        /\ JsmnIdle
        /\ jtok = 0 /\ frames = <<>> /\ circuit = <<>> /\ cres = "busy"
        /\ main = "rom"
        /\ resets = <<>> /\ running = FALSE /\ delays = FALSE /\ threads = {}

Goes(here, there) == main = here /\ main' = there

\* fopen of the ROM, and its size.
LoadRom == /\ Goes("rom", "fopen") \/ Goes("rom", "exit")
           /\ UNCHANGED <<jsmn, config, doc, resets, running, delays, threads>>

\* fopen of system1.json, the result of which is used unseen.
OpenConfig == /\ Goes("fopen", "tokens") \/ Goes("fopen", "crash")
              /\ UNCHANGED <<jsmn, config, doc, resets, running, delays, threads>>

Tokenize == main = "tokens" /\ jsmn_parse /\ UNCHANGED <<config, startup>>

Error(e) == CASE e = "INVAL" -> "EINVAL" [] e = "NOMEM" -> "ENOMEM" [] e = "PART" -> "EIO"

\* jsmn_parse has returned.  config_parse begins with the first token, which
\* an empty file does not have.
Tokenized ==
    /\ main = "tokens" /\ jtk # "busy"
    /\ main' = "config"
    /\ \/ /\ jtk # "count"
          /\ cres' = Error(jtk)
          /\ UNCHANGED <<jtok, frames>>
       \/ /\ jtk = "count" /\ tokens = <<>>
          /\ cres' = "undefined"
          /\ UNCHANGED <<jtok, frames>>
       \/ /\ jtk = "count" /\ tokens # <<>>
          /\ jtok' = 1
          /\ frames' = <<Frame("parse", tokens[1].size)>>
          /\ UNCHANGED cres
    /\ UNCHANGED <<jsmn, circuit, doc, resets, running, delays, threads>>

ReadConfig == main = "config" /\ config_parse /\ UNCHANGED <<jsmn, startup>>

\* if (read_config_json(...)) exit(-1)
ConfigRead == /\ main = "config" /\ cres # "busy"
              /\ main' = CASE cres = "0" -> "reset"
                           [] cres = "undefined" -> "undefined"
                           [] OTHER -> "exit"
              /\ UNCHANGED <<jsmn, config, doc, resets, running, delays, threads>>

\* Seeded fault: the loop ends in front of the last chip.
ResetChipButLast ==
    /\ main = "reset"
    /\ \/ circuit = <<>> /\ main' = "crash" /\ UNCHANGED resets
       \/ /\ circuit # <<>>
          /\ resets' = Append(resets, Len(resets) + 1)
          /\ main' = IF Len(resets) + 2 >= Len(circuit) THEN "calibrate" ELSE main
    /\ UNCHANGED <<jsmn, config, doc, running, delays, threads>>

\* foreach_chip(reset_chip), one chip.  The head of the list is used before it
\* is looked at: without a chip the program crashes.
ResetChip ==
    /\ main = "reset"
    /\ \/ circuit = <<>> /\ main' = "crash" /\ UNCHANGED resets
       \/ /\ circuit # <<>>
          /\ resets' = Append(resets, Len(resets) + 1)
          /\ main' = IF Len(resets) + 1 = Len(circuit) THEN "calibrate" ELSE main
    /\ UNCHANGED <<jsmn, config, doc, running, delays, threads>>

\* delay_sync_cycle_init, after which the prompt is printed.
Calibrate == /\ \/ Goes("calibrate", "key") /\ delays' = TRUE
                \/ Goes("calibrate", "exit") /\ UNCHANGED delays
             /\ UNCHANGED <<jsmn, config, doc, resets, running, threads>>

\* Somebody presses a key: running = true.
PressKey == /\ Goes("key", "timer")
            /\ running' = TRUE
            /\ UNCHANGED <<jsmn, config, doc, resets, delays, threads>>

\* pthread_create, in this order.
After(t) == CASE t = "timer" -> "sync" [] t = "sync" -> "gui" [] t = "gui" -> "loop"
Create(t) == /\ \/ Goes(t, After(t)) /\ threads' = threads \cup {t}
                \/ Goes(t, "exit") /\ UNCHANGED threads
             /\ UNCHANGED <<jsmn, config, doc, resets, running, delays>>

\* The main loop begins, or the process has ended.  A read of memory that was
\* never written can have any consequence; it is not followed further.
Over == main \in {"loop", "exit", "crash", "undefined"} /\ UNCHANGED vars

Step == \/ LoadRom \/ OpenConfig \/ Tokenize \/ Tokenized
        \/ ReadConfig \/ ConfigRead \/ ResetChip \/ Calibrate
        \/ \E t \in {"timer", "sync", "gui"} : Create(t)

Next == Step \/ PressKey \/ Over

\* main runs on, except that the key may never be pressed.
Spec == Init /\ [][Next]_vars /\ WF_vars(Step)

-----------------------------------------------------------------------------
(***************************************************************************)
(* Properties.                                                             *)
(***************************************************************************)

\* The variables hold values of their types: the counts of a token are covered
\* by the tokens behind it, and the reader's pointer is at most one past them.
TypeOK ==
    /\ pos \in 1..(Len(js) + 1)
    /\ Len(tokens) <= MaxTokens
    /\ \A i \in 1..Len(tokens) : /\ tokens[i].size \in 0..(Len(tokens) - i)
                                 /\ tokens[i].open \in BOOLEAN
    /\ toksuper \in 0..Len(tokens)
    /\ jtk \in {"busy", "count", "INVAL", "NOMEM", "PART"}
    /\ jtok \in 0..(Len(tokens) + 1)
    /\ \A i \in 1..Len(frames) : /\ frames[i].fn \in {"parse", "cpu", "chip"}
                                 /\ frames[i].left \in Nat
                                 /\ frames[i].chip \in 0..Len(circuit)
    /\ \A i \in 1..Len(circuit) :
         circuit[i].type \in ChipTypes /\ circuit[i].address \in Word \cup {Unassigned}
    /\ cres \in {"busy", "0", "EINVAL", "ENOMEM", "EIO", "exit", "undefined"}
    /\ main \in {"rom", "fopen", "tokens", "config", "reset", "calibrate", "key",
                 "timer", "sync", "gui", "loop", "exit", "crash", "undefined"}
    /\ running \in BOOLEAN /\ delays \in BOOLEAN
    /\ threads \subseteq {"timer", "sync", "gui"}

\* The tree of the text is in the tokens: when jsmn_parse succeeds, each bracket
\* is closed by one of its type, the tokens are the values of the text in its
\* order, and each counts the values that belong to it.
TokensAreTree ==
    main = "tokens" /\ jtk = "count" =>
        /\ Balanced
        /\ { tokens[i].start : i \in 1..Len(tokens) } = { q \in 1..Len(js) : IsValue(q) }
        /\ \A i \in 1..Len(tokens) :
             /\ \A j \in 1..(i - 1) : tokens[j].start < tokens[i].start
             /\ TokenAt(tokens[i], tokens[i].start)
             /\ Separated => tokens[i].size = Cardinality(Children(tokens[i].start, Len(js)))

\* Among the first n tokens is a string that reads as a keyword but has no value.
KeywordMissed(n) ==
    \E i \in 1..Len(tokens) : /\ i <= n /\ tokens[i].size = 0
                              /\ tokens[i].type = "string" /\ tokens[i].text \in Keywords

\* The reader never looks at a token that was not filled, nested chips or
\* not, unless there is none, the text is not a document's, or it has met a
\* string that reads as a keyword and has no value.
StaysInTokens ==
    cres = "undefined" =>
        \/ tokens = <<>>
        \/ ~(Separated /\ MembersNamed)
        \/ KeywordMissed(jtok + 1)

\* No thread meets a circuit, a flag or a delay that is not ready: chips all
\* reset, once each and at least one, as the first traversal needs, running
\* set, so that no thread ends at once, and the delays calibrated.
ThreadsMeetReadySim ==
    threads # {} => /\ running /\ delays
                    /\ circuit # <<>>
                    /\ resets = [i \in 1..Len(circuit) |-> i]

\* The reader's recursion ends for every document and every text: the program
\* comes to its prompt, or to its end.
StartupEnds == <>(main \in {"key", "exit", "crash", "undefined"})
=============================================================================
