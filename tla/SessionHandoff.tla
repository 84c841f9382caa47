--------------------------- MODULE SessionHandoff ---------------------------
(***************************************************************************)
(* What CTcpSessionPool promises to the two threads that share it, without   *)
(* locks, maps or packets: a session is opened once, with the next number,   *)
(* is posted at most once, and posted sessions are decoded one at a time,    *)
(* in the order they were posted, and deleted once.                          *)
(***************************************************************************)
EXTENDS Naturals, Sequences

CONSTANT Limit     \* sessions that can be opened

VARIABLES created,   \* sessions opened so far: 1 .. created
          building,  \* those the capture side is collecting packets for
          queue,     \* those that wait to be decoded
          decoding,  \* the one that is being decoded
          deleted    \* those that are gone
vars == <<created, building, queue, decoding, deleted>>

Init ==
    /\ created = 0 /\ building = {} /\ queue = <<>>
    /\ decoding = {} /\ deleted = {}

Open ==
    /\ created < Limit
    /\ created' = created + 1
    /\ building' = building \cup {created + 1}
    /\ UNCHANGED <<queue, decoding, deleted>>

Post(s) ==
    /\ s \in building
    /\ building' = building \ {s}
    /\ queue' = Append(queue, s)
    /\ UNCHANGED <<created, decoding, deleted>>

Take ==
    /\ decoding = {}
    /\ queue # <<>>
    /\ decoding' = {Head(queue)}
    /\ queue' = Tail(queue)
    /\ UNCHANGED <<created, building, deleted>>

Delete ==
    /\ decoding # {}
    /\ deleted' = deleted \cup decoding
    /\ decoding' = {}
    /\ UNCHANGED <<created, building, queue>>

Next == Open \/ (\E s \in 1 .. Limit : Post(s)) \/ Take \/ Delete

Spec == Init /\ [][Next]_vars
=============================================================================
