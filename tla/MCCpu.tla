------------------------------- MODULE MCCpu --------------------------------
(***************************************************************************)
(* Memory images for the CPU, and the spaces they are executed from.       *)
(***************************************************************************)
EXTENDS Calls

\* A program at $C000, its words little-endian, RESET pointing to it and the
\* break vector to irq.
Image(program, irq) ==
    [a \in { 49151 + i : i \in 1..Len(program) } \cup 65532..65535 |->
       CASE a = 65532 -> 0
         [] a = 65533 -> 192
         [] a = 65534 -> irq % 256
         [] a = 65535 -> irq \div 256
         [] OTHER -> program[a - 49151]]

(***************************************************************************)
(* Every opcode on operands that meet the boundaries: indices that cross   *)
(* from an even and from an odd page, that wrap in the zero page and past  *)
(* the end of memory, results of 0 and of 128 and more.                    *)
(*    LDX #x  LDY #y  LDA #v  STA $FF  STA $00  PHA  PLP  op b1 b2         *)
(* The flags are the bits of v: 235 is all but B and I, 0 lacks bit 5.     *)
(* What follows is 0: BRK, whose vector is $FFFF and ends the program.     *)
(***************************************************************************)
OneInstruction ==
    { Image(<<162, x, 160, 256 - x, 169, v, 133, 255, 133, 0, 72, 40, o>> \o b,
            65535) :
        x \in {1, 255}, v \in {0, 35, 235},
        o \in Byte, b \in {<<16, 2>>, <<255, 2>>, <<255, 3>>} }

\* Three slots of calls and stack instructions in any order, and their end:
\* PHA PLA PHP PLP RTS RTI BRK NOP, JSR to a slot, and LDX #$02 TXS.
Slots == { <<72, 234, 234>>, <<104, 234, 234>>, <<8, 234, 234>>, <<40, 234, 234>>,
           <<96, 234, 234>>, <<64, 234, 234>>, <<0, 234, 234>>,
           <<32, 2, 192>>, <<32, 5, 192>>, <<32, 8, 192>>, <<162, 2, 154>> }

CallPrograms ==
    { Image(<<169, 90>> \o a \o b \o c \o <<96, 76, 255, 255>>, 49160) :
        a \in Slots, b \in Slots, c \in Slots }

MCRoms == OneInstruction \cup CallPrograms

\* Where these programs run: the zero page, the pages their jumps lead to,
\* and themselves.
MCCodeSpace == 0..3 \cup 512..1023 \cup 49152..49171

\* Recursion ends after a few calls, whether or not S has wrapped.
MCStackSpace == 0..12 \cup 236..255
=============================================================================
