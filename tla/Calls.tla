------------------------------- MODULE Calls --------------------------------
(***************************************************************************)
(* What the stack of the 6502 is for: a program gets back what it pushed,  *)
(* newest first.  The history variable `pushed' remembers the bytes that   *)
(* the instructions push and forgets those that they pull; it forgets      *)
(* everything when the program sets S or stores into page 1, and what is   *)
(* older than MaxPushed bytes.                                             *)
(***************************************************************************)
EXTENDS CpuDocs

CONSTANT MaxPushed   \* bound on the bytes remembered

\* The stack has 256 cells.
ASSUME MaxPushedAssumption == MaxPushed \in 0..256

VARIABLE pushed

hvars == <<vars, pushed>>

\* What each instruction pushes, newest first: the program, the status or A.
\* These are the bytes of the code, which depart from docs/6502.proc.info in
\* two respects: JSR and BRK push one more than the address that they are
\* documented to push (lines 998 to 1002, and 941 to 945 with the comment at
\* funcs.c:139), and a status is not pushed with its B set (226, 786, 944).
DocReturn == PC + 2
Continued == Wrap16(DocReturn + 1)
PushedBytes ==
    CASE op = JSR -> <<Continued % 256, Continued \div 256>>
      [] op = BRK -> <<StatusByte(P), Continued % 256, Continued \div 256>>
      [] op = PHA -> <<A>>
      [] op = PHP -> <<StatusByte(P)>>
      [] OTHER -> <<>>

PulledBytes == CASE op = RTS -> 2
                 [] op = RTI -> 3
                 [] op \in {PLA, PLP} -> 1
                 [] OTHER -> 0

Newest(s) == SubSeq(s, 1, IF Len(s) < MaxPushed THEN Len(s) ELSE MaxPushed)

\* Page 1 is written by a store, or S by TXS.
Disturbs == \/ op = TXS
            \/ \E i \in 1..Len(bus') : /\ bus'[i].rwb # 1
                                       /\ \/ bus'[i].addr = NoAddr
                                          \/ bus'[i].addr \in 256..511

Remember ==
    pushed' = IF Disturbs THEN <<>>
              ELSE Newest(PushedBytes \o SubSeq(pushed, PulledBytes + 1, Len(pushed)))

HInit == Init /\ pushed = <<>>
HNext == \/ Instruction /\ Remember
         \/ Finish /\ UNCHANGED pushed

HSpec == HInit /\ [][HNext]_hvars

-----------------------------------------------------------------------------
(***************************************************************************)
(* What the program pushed is on the stack above S, in the order in which  *)
(* it will be pulled, wherever S wraps.  (The STACK_ macros of funcs.c:    *)
(* both halves in order, S before or after the access.)  That the bytes    *)
(* are the ones that the documentation has pushed is not said: see         *)
(* PushedBytes.                                                            *)
(***************************************************************************)
PushedOnStack ==
    \A n \in 1..Len(pushed) : LoadFrom(mem, 256 + ((S + n) % 256)) = pushed[n]

(***************************************************************************)
(* Whatever a program does between, it gets back the newest bytes that it  *)
(* has pushed: RTS and RTI continue at the address on top of them, RTI     *)
(* with the status that BRK saved, and PLA and PLP give back A and the     *)
(* status.  RTS does not add one to the address, as the documentation has  *)
(* it (line 972), which makes up for the one that JSR has added: as a pair *)
(* they return behind the JSR, as documented.  RTI is documented not to    *)
(* add one either, and BRK pushes one more than documented: the code       *)
(* returns from a break one byte behind the documented place.              *)
(***************************************************************************)
ReturnsToCaller == [][
    (st = "run" /\ PC # 65535) =>
      /\ (op = RTS /\ Len(pushed) >= 2) =>
            PC' = pushed[1] + 256 * pushed[2]
      /\ (op = RTI /\ Len(pushed) >= 3) =>
            /\ P' = StatusOf(pushed[1])
            /\ PC' = pushed[2] + 256 * pushed[3]
      /\ (op = PLA /\ Len(pushed) >= 1) => A' = pushed[1]
      /\ (op = PLP /\ Len(pushed) >= 1) => P' = StatusOf(pushed[1])]_hvars
=============================================================================
