-------------------------- MODULE TcpDialog_proofs --------------------------
(***************************************************************************)
(* Proofs about TcpDialog: the state of a session tells which FINs were      *)
(* captured, for any sequence of captured packets.                           *)
(***************************************************************************)
EXTENDS TcpDialog, TLAPS

Unfinished == {"HANDSHAKE", "CLIENT_SENDING", "SERVER_SENDING"}

\* The types of the variables.
TypeInv ==
    /\ wire \subseteq Packets /\ live \in BOOLEAN /\ sm \in TcpStates
    /\ finSeen \subseteq Directions /\ rstSeen \in BOOLEAN /\ late \in BOOLEAN

\* What sm says of the FINs seen since the last SYN.
StateTells(s, fins, justified) ==
    /\ s \in Unfinished => fins = {}
    /\ \A d \in Directions : s = Finished(d) => fins = {d}
    /\ s = "CLOSED" => justified \/ fins = Directions

Inv == TypeInv /\ StateTells(sm, finSeen, rstSeen \/ late)

LEMMA StateFacts ==
    /\ \A d \in Directions : Finished(d) \in TcpStates \ (Unfinished \cup {"CLOSED"})
    /\ \A d \in Directions : Sending(d) \in Unfinished
    /\ \A d, e \in Directions : Finished(d) = Finished(e) => d = e
    /\ TcpStates = Unfinished \cup {Finished(d) : d \in Directions} \cup {"CLOSED"}
    /\ "CLOSED" \notin Unfinished /\ "HANDSHAKE" \in Unfinished
    /\ \A d, e \in Directions : d # e => {d} \cup {e} = Directions
BY DEF Finished, Sending, Unfinished, TcpStates, Directions, ToServer, ToClient

LEMMA SegmentType ==
    /\ Syn(ToServer) \in Packets /\ Syn(ToClient) \in Packets
    /\ \A d \in Directions : Rst(d) \in Packets
    /\ \A d \in Directions, data, fin \in BOOLEAN : Segment(d, data, fin) \in Packets
BY DEF Syn, Rst, Segment, Packets, Directions, ToServer, ToClient

\* One packet, whatever its flags.
LEMMA UpdateTells ==
    ASSUME NEW s \in TcpStates, NEW fins \in SUBSET Directions, NEW j \in BOOLEAN,
           StateTells(s, fins, j), NEW p \in Packets,
           NEW k \in BOOLEAN, j => k, p.rst => k, NeverHere(s, p) => k
    PROVE  /\ updateMe(s, p) \in TcpStates
           /\ StateTells(updateMe(s, p),
                         IF p.syn THEN {} ELSE IF p.fin THEN fins \cup {p.dir} ELSE fins, k)
<1>1. /\ p.syn \in BOOLEAN /\ p.fin \in BOOLEAN /\ p.rst \in BOOLEAN /\ p.data \in BOOLEAN
      /\ p.dir \in Directions
    BY DEF Packets
<1> DEFINE after == IF p.data THEN AfterPayload(s, p.dir) ELSE s
<1>2. CASE p.syn
    BY <1>2, StateFacts DEF updateMe, StateTells, TcpStates, Finished, Unfinished
<1>3. CASE ~ p.syn
    <2>1. after \in TcpStates
        BY <1>1, StateFacts DEF AfterPayload, TcpStates
    <2>2. StateTells(after, fins, k)
        <3>1. CASE ~ p.data
            BY <3>1 DEF StateTells
        <3>2. CASE p.data /\ s = Finished(p.dir)
            <4>1. k /\ after = "CLOSED"
                BY <1>1, <1>3, <3>2, StateFacts DEF NeverHere, AfterPayload, Unfinished
            <4> QED BY <4>1, StateFacts DEF StateTells
        <3>3. CASE p.data /\ s # Finished(p.dir) /\ s \in Unfinished
            <4>1. fins = {} /\ after \in Unfinished
                BY <1>1, <3>3, StateFacts DEF StateTells, AfterPayload, Unfinished
            <4> QED BY <4>1, StateFacts DEF StateTells
        <3>4. CASE p.data /\ s # Finished(p.dir) /\ s \notin Unfinished
            <4>1. after = s
                BY <3>4 DEF AfterPayload, Unfinished
            <4> QED BY <4>1 DEF StateTells
        <3> QED BY <1>1, <3>1, <3>2, <3>3, <3>4
    <2> HIDE DEF after
    <2>3. updateMe(s, p) = finishMe(after, p)
        BY <1>3 DEF updateMe, after
    <2>4. CASE p.rst
        BY <1>3, <2>3, <2>4, StateFacts DEF finishMe, StateTells, TcpStates
    <2>5. CASE ~ p.rst /\ ~ p.fin
        BY <1>3, <2>1, <2>2, <2>3, <2>5 DEF finishMe
    <2>6. CASE ~ p.rst /\ p.fin
        <3> DEFINE last == AfterFin(after, p.dir)
        <3>1. updateMe(s, p) = last
            BY <2>3, <2>6 DEF finishMe
        <3>2. CASE after \in Unfinished
            <4>1. fins = {} /\ last = Finished(p.dir)
                BY <2>2, <3>2 DEF StateTells, AfterFin, Unfinished
            <4>2. fins \cup {p.dir} = {p.dir}
                BY <4>1
            <4> QED BY <1>1, <1>3, <2>6, <3>1, <4>1, <4>2, StateFacts DEF StateTells
        <3>3. CASE after = Finished(p.dir)
            <4>1. fins = {p.dir} /\ last = after
                BY <1>1, <2>2, <3>3, StateFacts DEF StateTells, AfterFin, Unfinished
            <4>2. fins \cup {p.dir} = fins
                BY <4>1
            <4> QED BY <1>3, <2>1, <2>2, <2>6, <3>1, <4>1, <4>2
        <3>4. ASSUME NEW d \in Directions, d # p.dir, after = Finished(d)
              PROVE  /\ last = "CLOSED"
                     /\ fins \cup {p.dir} = Directions
            <4>1. fins = {d} /\ last = "CLOSED"
                BY <1>1, <2>2, <3>4, StateFacts DEF StateTells, AfterFin, Unfinished
            <4> QED BY <1>1, <3>4, <4>1, StateFacts
        <3>5. CASE after = "CLOSED"
            <4>1. last = "CLOSED" /\ (k \/ fins = Directions)
                BY <1>1, <2>2, <3>5, StateFacts DEF StateTells, AfterFin, Unfinished
            <4>2. k \/ fins \cup {p.dir} = Directions
                BY <1>1, <4>1
            <4> QED BY <1>3, <2>6, <3>1, <4>1, <4>2, StateFacts DEF StateTells, TcpStates
        <3>6. CASE \E d \in Directions : d # p.dir /\ after = Finished(d)
            <4>1. last = "CLOSED" /\ fins \cup {p.dir} = Directions
                BY <3>4, <3>6
            <4> QED BY <1>3, <2>6, <3>1, <4>1, StateFacts DEF StateTells, TcpStates
        <3> QED BY <1>1, <2>1, <3>2, <3>3, <3>5, <3>6, StateFacts
    <2> QED BY <1>1, <2>4, <2>5, <2>6
<1> QED BY <1>1, <1>2, <1>3

LEMMA InitInv == Init => Inv
BY StateFacts DEF Init, Inv, TypeInv, StateTells, TcpStates, Unfinished

LEMMA NextInv == Inv /\ [Next]_vars => Inv'
<1> SUFFICES ASSUME Inv, [Next]_vars PROVE Inv'
    OBVIOUS
<1>1. ASSUME NEW p \in Packets, Send(p) PROVE Inv'
    BY <1>1 DEF Send, Inv, TypeInv
<1>2. CASE SendSyn \/ SendSynAck
    BY <1>1, <1>2, SegmentType DEF SendSyn, SendSynAck
<1>3. ASSUME NEW dir \in Directions, NEW data \in BOOLEAN, NEW fin \in BOOLEAN,
             SendSegment(dir, data, fin)
      PROVE  Inv'
    BY <1>1, <1>3, SegmentType DEF SendSegment
<1>4. ASSUME NEW dir \in Directions, SendRst(dir) PROVE Inv'
    BY <1>1, <1>4, SegmentType DEF SendRst
<1>5. ASSUME NEW p \in wire, CaptureFirst(p) PROVE Inv'
    BY <1>5, StateFacts DEF CaptureFirst, Inv, TypeInv, StateTells, TcpStates, Unfinished
<1>6. ASSUME NEW p \in wire, Capture(p) PROVE Inv'
    <2> DEFINE j == rstSeen \/ late
               k == rstSeen' \/ late'
    <2>1. /\ p \in Packets /\ sm \in TcpStates /\ finSeen \in SUBSET Directions /\ j \in BOOLEAN
          /\ StateTells(sm, finSeen, j)
        BY DEF Inv, TypeInv
    <2>2. /\ sm' = updateMe(sm, p) /\ wire' = wire /\ live' \in BOOLEAN
          /\ finSeen' = IF p.syn THEN {} ELSE IF p.fin THEN finSeen \cup {p.dir} ELSE finSeen
          /\ rstSeen' = (rstSeen \/ p.rst) /\ late' = (late \/ NeverHere(sm, p))
        BY <1>6 DEF Capture, isClosed
    <2>3. rstSeen' \in BOOLEAN /\ late' \in BOOLEAN
        BY <2>2
    <2>4. /\ k \in BOOLEAN /\ (j => k) /\ (p.rst => k) /\ (NeverHere(sm, p) => k)
        BY <2>2
    <2> HIDE DEF j, k
    <2>5. sm' \in TcpStates /\ StateTells(sm', finSeen', k)
        BY <2>1, <2>2, <2>4, UpdateTells
    <2>6. finSeen' \subseteq Directions /\ wire' \subseteq Packets
        <3>1. p.dir \in Directions /\ wire \subseteq Packets
            BY <2>1 DEF Packets, Inv, TypeInv
        <3> QED BY <2>1, <2>2, <3>1
    <2> QED BY <2>2, <2>3, <2>5, <2>6 DEF Inv, TypeInv, k
<1>7. CASE UNCHANGED vars
    BY <1>7 DEF vars, Inv, TypeInv
<1> QED BY <1>2, <1>3, <1>4, <1>5, <1>6, <1>7 DEF Next

\* A session is closed only by an RST, by the FINs of both end points or by the
\* branch logged as impossible, however long the capture and whatever the
\* repetitions and reorderings in it (updateMe, finishMe).
THEOREM CloseJustifiedCorrect == Spec => []CloseJustified
<1>1. Inv => CloseJustified
    BY DEF Inv, StateTells, CloseJustified, isClosed
<1> QED BY <1>1, InitInv, NextInv, PTL DEF Spec

\* Once the FINs of both end points were captured since the last captured SYN the
\* session is closed: it does not wait for the timeout in the active map.
THEOREM BothFinsCloseCorrect == Spec => []BothFinsClose
<1>1. Inv => BothFinsClose
    <2> SUFFICES ASSUME Inv, finSeen = Directions PROVE sm = "CLOSED"
        BY DEF BothFinsClose, isClosed
    <2>1. Directions # {} /\ \A d \in Directions : Directions # {d}
        BY DEF Directions, ToServer, ToClient
    <2>2. sm \in TcpStates /\ StateTells(sm, finSeen, rstSeen \/ late)
        BY DEF Inv, TypeInv
    <2> QED BY <2>1, <2>2, StateFacts DEF StateTells
<1> QED BY <1>1, InitInv, NextInv, PTL DEF Spec
=============================================================================
