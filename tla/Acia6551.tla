------------------------------ MODULE Acia6551 -------------------------------
(***************************************************************************)
(* The 6551 on the bus (6551.c).  Its registers are cells of memory[]: an  *)
(* instruction stores a byte in the cell of the data register and asks for *)
(* a pass, and in that pass the sync thread loads the cell again and       *)
(* writes it to the terminal.  Nothing else orders the two.                *)
(*                                                                         *)
(* Adds to BusSync the contents of that one cell, the store in the middle  *)
(* of an instruction, and what the terminal got.  What the chip reads from *)
(* the terminal, in stepclock, the code drops.                             *)
(***************************************************************************)
EXTENDS BusSync

CONSTANTS Acia,     \* which chip of the circuit it is
          Values    \* the bytes stored

ASSUME AciaAssumption == /\ Acia \in Chips
                         /\ Circuit[Acia].regsize > 0
                         /\ Circuit[Acia].address \in Addr

DataRegister == Circuit[Acia].address

VARIABLES data,     \* memory[DataRegister]
          written,  \* the instruction has stored its result
          stored,   \* history: the bytes it stored in the data register
          sent,     \* history: the bytes sent to the terminal since its fetch
          refused   \* history: the terminal did not take a byte since then

acia == <<data, written, stored, sent, refused>>

AciaInit == /\ data \in Values
            /\ written = FALSE /\ stored = <<>> /\ sent = <<>> /\ refused = FALSE

AciaFetch(i) == /\ Fetch(i)
                /\ written' = FALSE /\ stored' = <<>> /\ sent' = <<>>
                /\ refused' = FALSE
                /\ UNCHANGED data

\* The instruction is where its result is due: behind the operand pointer for
\* a store, behind the read pass for a read-modify-write.
StoreDue == ~written /\ \/ cpu = "rwb" /\ op.kind = "write"
                        \/ cpu = "signalW"

\* *op = cpu.A, *m = val
Store(v) == /\ StoreDue
            /\ written' = TRUE
            /\ IF cell = DataRegister
                 THEN data' = v /\ stored' = Append(stored, v)
                 ELSE UNCHANGED <<data, stored>>
            /\ UNCHANGED <<vars, sent, refused>>

\* Seeded fault: the bus is told before the result is stored.
TellUnstored == (SetRwb \/ SignalWrite) /\ UNCHANGED acia

\* The bus is told once the result is stored.
Tell == ~StoreDue /\ (SetRwb \/ SignalWrite) /\ UNCHANGED acia

\* What an instruction does between its fetch and the wait for the chips.
AciaExecute == \/ \E v \in Values : Store(v)
               \/ Tell
               \/ (Decode \/ OperandCell \/ Signal \/ AwaitRead) /\ UNCHANGED acia

\* _6551_sync_write: for register 0, write(pseudo_term_fd, &memory[address], 1),
\* whose result is not looked at; the terminal is opened with O_NDELAY.
Send == \/ sent' = Append(sent, data) /\ UNCHANGED refused
        \/ refused' = TRUE /\ UNCHANGED sent

AciaWritePass ==
    /\ WritePass
    /\ IF passAt = Acia /\ memAddr = DataRegister THEN Send
       ELSE UNCHANGED <<sent, refused>>
    /\ UNCHANGED <<data, written, stored>>

AciaSync == \/ AciaWritePass
            \/ /\ Loop \/ Await \/ Switch \/ ReadPass \/ Release \/ Recheck
                  \/ AwaitW \/ ReleaseW \/ Clear
               /\ UNCHANGED acia

-----------------------------------------------------------------------------
\* The variables hold values of their types; an instruction stores one byte.
AciaTypeOK == /\ data \in Values
              /\ written \in BOOLEAN /\ refused \in BOOLEAN
              /\ stored \in Seq(Values) /\ sent \in Seq(Values)
              /\ Len(stored) <= 1

\* As long as the CPU thread has never overtaken the sync thread and the
\* terminal takes what it gets, each instruction retires with the byte that it
\* stored in the data register sent, that byte and no other, once; and those
\* that stored none, have sent none.
SentAsStored ==
    cpu = "wait" /\ ~memSync /\ ~raced /\ ~refused => sent = stored
=============================================================================
