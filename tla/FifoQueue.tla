------------------------------ MODULE FifoQueue ------------------------------
(***************************************************************************)
(* What a message queue between two threads promises: what was put is      *)
(* taken once, in the order in which it was put.  The n-th message put is  *)
(* the number n.                                                           *)
(***************************************************************************)
EXTENDS Naturals, Sequences

CONSTANT MaxPuts    \* bound on the messages put

VARIABLES queue,    \* messages put and not taken, in order
          puts,     \* number of messages put
          last      \* the message taken last, 0 before the first

vars == <<queue, puts, last>>

Init == queue = << >> /\ puts = 0 /\ last = 0

Put == /\ puts < MaxPuts
       /\ puts' = puts + 1
       /\ queue' = Append(queue, puts + 1)
       /\ UNCHANGED last

Get == /\ queue # << >>
       /\ last' = Head(queue)
       /\ queue' = Tail(queue)
       /\ UNCHANGED puts

Next == Put \/ Get

Spec == Init /\ [][Next]_vars
=============================================================================
