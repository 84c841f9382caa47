----------------------------- MODULE TcpSession -----------------------------
(***************************************************************************)
(* The TCP state machine of a CTcpSession: what updateMe and finishMe make   *)
(* of one captured packet.  A packet is                                      *)
(*   [syn, ack, fin, rst : BOOLEAN, dir : Directions, data : BOOLEAN]        *)
(* where dir is getDirection's answer (which end point sent it) and data     *)
(* says whether it has a payload.                                            *)
(***************************************************************************)
EXTENDS Naturals

ToServer == "DIRECTION_TO_SERVER"
ToClient == "DIRECTION_TO_CLIENT"
Directions == {ToServer, ToClient}

TcpStates == {"HANDSHAKE", "CLIENT_SENDING", "SERVER_SENDING",
              "CLIENT_FINISHED", "SERVER_FINISHED", "CLOSED"}

Packets == [syn : BOOLEAN, ack : BOOLEAN, fin : BOOLEAN, rst : BOOLEAN,
            dir : Directions, data : BOOLEAN]

\* isAckPacket: no payload and no flag but (perhaps) ACK.
isAckPacket(p) == ~p.syn /\ ~p.fin /\ ~p.rst /\ ~p.data

isClosed(sm) == sm = "CLOSED"

Sending(dir) == IF dir = ToServer THEN "CLIENT_SENDING" ELSE "SERVER_SENDING"
Finished(dir) == IF dir = ToServer THEN "CLIENT_FINISHED" ELSE "SERVER_FINISHED"

\* The branch the code logs as "should never be here": a payload from the
\* side that has sent its FIN.
NeverHere(sm, p) == ~p.syn /\ p.data /\ sm = Finished(p.dir)

\* The switch of updateMe on a packet with a payload.
AfterPayload(sm, dir) ==
    IF sm \in {"HANDSHAKE", "CLIENT_SENDING", "SERVER_SENDING"}
    THEN Sending(dir)
    ELSE IF sm = Finished(dir) THEN "CLOSED" ELSE sm

\* Variant: a repeated FIN is taken for the other side's.
AfterFin_OwnFinCloses(sm, dir) ==
    IF sm \in {"HANDSHAKE", "CLIENT_SENDING", "SERVER_SENDING"}
    THEN Finished(dir) ELSE "CLOSED"

\* The other side's FIN after this side's closes the session.
AfterFin(sm, dir) ==
    IF sm \in {"HANDSHAKE", "CLIENT_SENDING", "SERVER_SENDING"}
    THEN Finished(dir)
    ELSE IF sm = Finished(dir) THEN sm ELSE "CLOSED"

\* Variant: the FIN of a packet with a payload is overlooked.
finishMe_FinIgnoredAfterData(sm, p) ==
    IF p.rst THEN "CLOSED"
    ELSE IF p.fin /\ ~p.data THEN AfterFin(sm, p.dir) ELSE sm

finishMe(sm, p) ==
    IF p.rst THEN "CLOSED" ELSE IF p.fin THEN AfterFin(sm, p.dir) ELSE sm

updateMe(sm, p) ==
    IF p.syn THEN "HANDSHAKE"
    ELSE finishMe(IF p.data THEN AfterPayload(sm, p.dir) ELSE sm, p)
=============================================================================
