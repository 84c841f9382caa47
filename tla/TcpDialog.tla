----------------------------- MODULE TcpDialog -----------------------------
(***************************************************************************)
(* One TCP connection between two correct end points, and the CTcpSession    *)
(* that killerfinder keeps for it.  An end point sends nothing new after its *)
(* FIN, but it retransmits what may be lost, and the network delays and      *)
(* duplicates packets: a packet that was sent may be captured at any later   *)
(* time, any number of times, or never.                                      *)
(***************************************************************************)
EXTENDS TcpSession

VARIABLES
    wire,     \* packets that have been sent (the end points: external)
    live,     \* whether the connection has a session in m_activeSessMap
    sm,       \* its m_tcpState
    finSeen,  \* history: directions whose FIN was captured since the last SYN captured
    rstSeen,  \* history: an RST was captured
    late      \* history: the "should never be here" branch was taken
vars == <<wire, live, sm, finSeen, rstSeen, late>>

Segment(dir, data, fin) ==
    [syn |-> FALSE, ack |-> TRUE, fin |-> fin, rst |-> FALSE, dir |-> dir,
     data |-> data]
Syn(dir) == [Segment(dir, FALSE, FALSE) EXCEPT !.syn = TRUE, !.ack = (dir = ToClient)]
Rst(dir) == [Segment(dir, FALSE, FALSE) EXCEPT !.rst = TRUE]

Init ==
    /\ wire = {} /\ live = FALSE /\ sm = "HANDSHAKE"
    /\ finSeen = {} /\ rstSeen = FALSE /\ late = FALSE

\* An end point that has sent a FIN, or an RST, sends nothing new.
Open(dir) == \A p \in wire : p.dir = dir => ~p.fin /\ ~p.rst

Send(p) == wire' = wire \cup {p} /\ UNCHANGED <<live, sm, finSeen, rstSeen, late>>

SendSyn == wire = {} /\ Send(Syn(ToServer))
SendSynAck == Syn(ToServer) \in wire /\ Open(ToClient) /\ Send(Syn(ToClient))
SendSegment(dir, data, fin) ==
    Syn(ToClient) \in wire /\ Open(dir) /\ Send(Segment(dir, data, fin))
SendRst(dir) == Syn(ToClient) \in wire /\ Open(dir) /\ Send(Rst(dir))

\* processL5 on a packet of this connection.  A session that becomes closed is
\* posted in the same handler and leaves the active map.
CaptureFirst(p) ==
    /\ ~live
    /\ p.syn /\ ~p.ack
    /\ live' = TRUE /\ sm' = "HANDSHAKE"
    /\ finSeen' = {} /\ rstSeen' = FALSE /\ late' = FALSE
    /\ UNCHANGED wire

Capture(p) ==
    /\ live
    /\ ~isAckPacket(p)
    /\ sm' = updateMe(sm, p)
    /\ live' = ~isClosed(sm')
    /\ finSeen' = IF p.syn THEN {}
                  ELSE IF p.fin THEN finSeen \cup {p.dir} ELSE finSeen
    /\ rstSeen' = (rstSeen \/ p.rst)
    /\ late' = (late \/ NeverHere(sm, p))
    /\ UNCHANGED wire

Next ==
    \/ SendSyn \/ SendSynAck
    \/ \E dir \in Directions, data, fin \in BOOLEAN : SendSegment(dir, data, fin)
    \/ \E dir \in Directions : SendRst(dir)
    \/ \E p \in wire : CaptureFirst(p) \/ Capture(p)

Spec == Init /\ [][Next]_vars

-----------------------------------------------------------------------------
\* A session is closed, and so handed to the decoders, only after an RST, after
\* the FINs of both directions, or by the branch the code logs as impossible:
\* one end point's FIN never ends the recording of the other's data.
CloseJustified ==
    isClosed(sm) => rstSeen \/ late \/ finSeen = Directions

\* When the FINs of both directions have been captured since the last captured
\* SYN (a repeated SYN starts anew, as it does in the code) the session is closed,
\* in whichever order, with or without payload, repeated or not: it does not stay
\* in the active map until the timeout.
BothFinsClose == finSeen = Directions => isClosed(sm)
=============================================================================
