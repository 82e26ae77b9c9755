----------------------------- MODULE Rendezvous -----------------------------
(***************************************************************************)
(* What the bus handshake of the simulator promises, without saying how.   *)
(* A client issues a transaction of a few passes, asks for them one at a   *)
(* time and is blocked from each request until the server has made that    *)
(* pass.  A new transaction cannot start while a pass is due, and the      *)
(* rendezvous closes only between transactions.                            *)
(*                                                                         *)
(* BusSync implements it with two passes at most, ClockSync with one.      *)
(***************************************************************************)
EXTENDS Naturals

CONSTANT MaxPasses   \* the longest transaction, a natural number

VARIABLES turn,   \* who may move: the client or the server
          due,    \* passes the current transaction still wants
          open    \* FALSE once the client has closed the rendezvous

vars == <<turn, due, open>>

TypeOK == /\ turn \in {"client", "server"}
          /\ due \in 0..MaxPasses
          /\ open \in BOOLEAN

Init == /\ turn = "client"
        /\ due = 0
        /\ open = TRUE

\* The client starts a transaction of n passes.
Issue(n) == /\ open /\ turn = "client" /\ due = 0
            /\ due' = n
            /\ UNCHANGED <<turn, open>>

\* The client asks for the next pass and blocks.
Ask == /\ open /\ turn = "client" /\ due > 0
       /\ turn' = "server"
       /\ UNCHANGED <<due, open>>

\* The server has made the pass and unblocks the client.
Serve == /\ turn = "server"
         /\ turn' = "client"
         /\ due' = due - 1
         /\ UNCHANGED open

Close == /\ open /\ turn = "client" /\ due = 0
         /\ open' = FALSE
         /\ UNCHANGED <<turn, due>>

Next == \/ \E n \in 1..MaxPasses : Issue(n)
        \/ Ask
        \/ Serve
        \/ Close

\* Neither side walks away from a transaction that has begun.
Spec == Init /\ [][Next]_vars /\ WF_vars(Ask) /\ WF_vars(Serve)
=============================================================================
