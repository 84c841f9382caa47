------------------------- MODULE Reassembly_proofs -------------------------
(***************************************************************************)
(* TLAPS proofs about Reassembly: reassembly is right for every arrival      *)
(* order, every sequence space and every stream that does not cross its end. *)
(***************************************************************************)
EXTENDS Reassembly, TLAPS

\* Differences and sums that stay inside the sequence space are exact.
LEMMA TruncExact ==
    ASSUME NEW n \in tcp_seq PROVE Trunc(n) = n
BY SeqSpaceAssumption DEF Trunc, tcp_seq

\* Every stored or subtracted tcp_seq is again a tcp_seq.
LEMMA TruncType ==
    ASSUME NEW n \in Int PROVE Trunc(n) \in tcp_seq
BY SeqSpaceAssumption DEF Trunc, tcp_seq

\* resize(n) gives a string of length n.
LEMMA ResizeType ==
    ASSUME NEW str, IsString(str), NEW n \in 0 .. SeqSpace
    PROVE  /\ DOMAIN Resize(str, n) = 0 .. n - 1
           /\ IsString(Resize(str, n))
<1>1. \A i \in 0 .. n - 1 : Resize(str, n)[i] \in Bytes
    BY DEF Resize, IsString, Bytes
<1>2. Resize(str, n) \in [0 .. n - 1 -> Bytes]
    BY <1>1 DEF Resize
<1>3. n \in 0 .. SeqSpace + MaxSeg
    BY SeqSpaceAssumption, StreamAssumption
<1> QED BY <1>2, <1>3 DEF IsString, Resize

\* Writing data at or before the end of a string keeps it a string.
LEMMA ReplaceType ==
    ASSUME NEW str, IsString(str), NEW pos \in tcp_seq, ~Beyond(str, pos),
           NEW size \in 1 .. MaxSeg, NEW data \in [0 .. size - 1 -> Bytes]
    PROVE  IsString(Replace(str, pos, data, size))
<1>1. PICK n \in 0 .. SeqSpace + MaxSeg : str \in [0 .. n - 1 -> Bytes]
    BY DEF IsString
<1>2. pos <= n
    BY <1>1, SeqSpaceAssumption, StreamAssumption DEF Beyond, tcp_seq
<1> DEFINE m == IF pos + size > n THEN pos + size ELSE n
<1>3. m \in 0 .. SeqSpace + MaxSeg
    BY <1>1, SeqSpaceAssumption, StreamAssumption DEF tcp_seq
<1>4. (DOMAIN str) \cup (pos .. pos + size - 1) = 0 .. m - 1
    BY <1>1, <1>2, SeqSpaceAssumption, StreamAssumption DEF tcp_seq
<1>5. \A i \in 0 .. m - 1 : (IF i \in pos .. pos + size - 1
                             THEN data[i - pos] ELSE str[i]) \in Bytes
    <2> SUFFICES ASSUME NEW i \in 0 .. m - 1
                 PROVE  (IF i \in pos .. pos + size - 1
                         THEN data[i - pos] ELSE str[i]) \in Bytes
        OBVIOUS
    <2>1. CASE i \in pos .. pos + size - 1
        <3>1. i - pos \in 0 .. size - 1
            BY <2>1 DEF tcp_seq
        <3> QED BY <2>1, <3>1
    <2>2. CASE i \notin pos .. pos + size - 1
        <3>1. i \in 0 .. n - 1
            BY <1>1, <1>4, <2>2
        <3> QED BY <1>1, <2>2, <3>1
    <2> QED BY <2>1, <2>2
<1>6. Replace(str, pos, data, size) \in [0 .. m - 1 -> Bytes]
    BY <1>4, <1>5 DEF Replace
<1> QED BY <1>3, <1>6 DEF IsString

\* insertData keeps the buffer's type, whatever wraps and whatever throws.
LEMMA InsertType ==
    ASSUME TypeOK, NEW off \in Offsets, NEW len \in 1 .. MaxSeg,
           off + len <= StreamLen
    PROVE  LET s == Stored(off, len)
           IN  /\ s \in [m_start : tcp_seq, m_end : tcp_seq, m_used : {b.m_used},
                         m_buf : {s.m_buf}, threw : BOOLEAN]
               /\ IsString(s.m_buf)
<1> DEFINE seq   == Seq(off)
           data  == Payload(off, len)
           start == IF b.m_start = 0 THEN seq ELSE b.m_start
           grow  == seq + len > b.m_end
           end   == IF grow THEN Trunc(seq + len) ELSE b.m_end
           buf   == IF grow THEN Resize(b.m_buf, Trunc(end - start)) ELSE b.m_buf
           pos   == Trunc(seq - start)
<1>1. seq \in tcp_seq
    BY TruncType DEF Seq, TypeOK, Offsets, tcp_seq
<1>2. start \in tcp_seq
    BY <1>1 DEF TypeOK
<1>3. end \in tcp_seq
    BY <1>1, TruncType DEF TypeOK, tcp_seq
<1>4. pos \in tcp_seq
    BY <1>1, <1>2, TruncType DEF tcp_seq
<1>5. IsString(buf)
    <2>1. Trunc(end - start) \in 0 .. SeqSpace
        BY <1>2, <1>3, TruncType, SeqSpaceAssumption DEF tcp_seq
    <2> QED BY <2>1, ResizeType DEF TypeOK
<1>6. data \in [0 .. len - 1 -> Bytes]
    BY StreamAssumption DEF Payload, Bytes, Offsets
<1>7. Stored(off, len) = IF Beyond(buf, pos)
        THEN [b EXCEPT !.m_start = start, !.m_end = end, !.m_buf = buf,
                       !.threw = TRUE]
        ELSE [b EXCEPT !.m_start = start, !.m_end = end,
                       !.m_buf = Replace(buf, pos, data, len)]
    BY DEF Stored, insertData, Store
<1> HIDE DEF seq, data, start, end, buf, pos
<1>8. CASE Beyond(buf, pos)
    BY <1>2, <1>3, <1>5, <1>7, <1>8 DEF TypeOK
<1>9. CASE ~Beyond(buf, pos)
    <2>1. IsString(Replace(buf, pos, data, len))
        BY <1>4, <1>5, <1>6, <1>9, ReplaceType
    <2> QED BY <1>2, <1>3, <1>7, <1>9, <2>1 DEF TypeOK
<1> QED BY <1>8, <1>9

\* Taking the unused data of a buffer of the right type.
LEMMA DumpType ==
    ASSUME NEW s, s \in [m_start : tcp_seq, m_end : tcp_seq, m_used : tcp_seq,
                         m_buf : {s.m_buf}, threw : BOOLEAN],
           IsString(s.m_buf)
    PROVE  LET d == dumpUnusedData(s)
           IN  /\ d \in [m_start : tcp_seq, m_end : tcp_seq, m_used : tcp_seq,
                         m_buf : {s.m_buf}, threw : BOOLEAN]
               /\ setUsedPos(d, 0) \in [m_start : tcp_seq, m_end : tcp_seq,
                                        m_used : tcp_seq, m_buf : {s.m_buf},
                                        threw : BOOLEAN]
               /\ \A i \in DOMAIN unusedData(s) :
                       i \in Nat /\ unusedData(s)[i] \in Bytes
<1> DEFINE d == dumpUnusedData(s)
<1>1. d \in [m_start : tcp_seq, m_end : tcp_seq, m_used : tcp_seq,
             m_buf : {s.m_buf}, threw : BOOLEAN]
    BY DEF dumpUnusedData
<1>2. Trunc(d.m_start + 0) \in tcp_seq
    BY <1>1, TruncType DEF tcp_seq
<1>3. setUsedPos(d, 0) \in [m_start : tcp_seq, m_end : tcp_seq,
                            m_used : tcp_seq, m_buf : {s.m_buf},
                            threw : BOOLEAN]
    BY <1>1, <1>2 DEF setUsedPos
<1>4. \A i \in DOMAIN unusedData(s) : i \in Nat /\ unusedData(s)[i] \in Bytes
    BY DEF unusedData, IsString
<1> QED BY <1>1, <1>3, <1>4

\* A session starts with a well-formed buffer.
LEMMA TypeInit == Init => TypeOK
<1> SUFFICES ASSUME Init PROVE TypeOK
    OBVIOUS
<1>1. Trunc(first + 0) \in tcp_seq
    BY TruncType DEF Init, tcp_seq
<1>2. 0 \in tcp_seq
    BY SeqSpaceAssumption DEF tcp_seq
<1>3. IsString(b.m_buf)
    <2>1. b.m_buf = [i \in {} |-> Hole]
        BY DEF Init, setUsedPos, setStartSeq, CTcpSegBuf
    <2>2. b.m_buf \in [0 .. 0 - 1 -> Bytes]
        BY <2>1
    <2> QED BY <2>2, SeqSpaceAssumption, StreamAssumption DEF IsString
<1>4. b \in [m_start : tcp_seq, m_end : tcp_seq, m_used : tcp_seq,
             m_buf : {b.m_buf}, threw : BOOLEAN]
    BY <1>1, <1>2 DEF Init, setUsedPos, setStartSeq, CTcpSegBuf
<1> QED BY <1>3, <1>4 DEF Init, TypeOK

\* Every step keeps it well-formed.
LEMMA TypeStep == TypeOK /\ [Next]_vars => TypeOK'
<1> SUFFICES ASSUME TypeOK, [Next]_vars PROVE TypeOK'
    OBVIOUS
<1>1. CASE SynAck
    BY <1>1 DEF SynAck, setStartSeq, TypeOK
<1>2. ASSUME NEW off \in Offsets, NEW len \in 1 .. MaxSeg, Segment(off, len)
      PROVE  TypeOK'
    <2> DEFINE s == Stored(off, len)
    <2>1. /\ s \in [m_start : tcp_seq, m_end : tcp_seq, m_used : tcp_seq,
                     m_buf : {s.m_buf}, threw : BOOLEAN]
          /\ IsString(s.m_buf)
        BY <1>2, InsertType DEF Segment, TypeOK
    <2>2. (got \cup (off .. off + len - 1)) \subseteq Offsets
        BY <1>2, StreamAssumption DEF Segment, TypeOK, Offsets
    <2> HIDE DEF s
    <2>3. /\ b' \in [m_start : tcp_seq, m_end : tcp_seq, m_used : tcp_seq,
                      m_buf : {s.m_buf}, threw : BOOLEAN]
          /\ \A i \in DOMAIN fed' : i \in Nat /\ fed'[i] \in Bytes
        <3>1. CASE Accepted(s)
            BY <2>1, <3>1, DumpType DEF Accepted, TypeOK
        <3>2. CASE Rejected(s)
            BY <2>1, <3>2, DumpType DEF Rejected
        <3>3. CASE b' = s /\ fed' = fed
            BY <2>1, <3>3 DEF TypeOK
        <3> QED BY <1>2, <3>1, <3>2, <3>3 DEF Segment, s
    <2>4. b'.m_buf = s.m_buf
        BY <2>3
    <2> QED BY <1>2, <2>1, <2>2, <2>3, <2>4 DEF Segment, TypeOK
<1>3. CASE UNCHANGED vars
    BY <1>3 DEF vars, TypeOK
<1> QED BY <1>1, <1>2, <1>3 DEF Next

\* Every behaviour of the reassembly of a direction, wrapped or not, keeps the
\* buffer of CTcpSegBuf well-formed: its cursors are sequence numbers, its
\* string is contiguous and bounded by SeqSpace + MaxSeg.
THEOREM TypeCorrect == Spec => []TypeOK
<1> QED BY TypeInit, TypeStep, PTL DEF Spec

-----------------------------------------------------------------------------
(***************************************************************************)
(* Reassembly is right in any order.  The properties are not inductive:      *)
(* insertData compares a segment with m_end and places it relative to       *)
(* m_start, so the invariant says where those two cursors stand.             *)
(***************************************************************************)

\* m_start is the stream's first number and m_end one past its last arrived
\* byte: the difference is the length of m_buf.
Cursors ==
    /\ b.m_start = first
    /\ \A j \in got : first + j < b.m_end
    /\ got # {} => \E j \in got : b.m_end = first + j + 1

\* m_used is where the parser stands.
Consumed ==
    dir = ToServer => /\ first <= b.m_used
                      /\ b.m_used = first \/ b.m_used <= b.m_end

\* Before the first payload the buffer is as the constructor left it.
Untouched ==
    got = {} => ~b.threw /\ b.m_end = 0 /\ DOMAIN b.m_buf = {}

IInv ==
    /\ TypeOK
    /\ Untouched
    /\ noGap => got = Extent
    /\ Regular => Cursors /\ Consumed /\ Faithful
    /\ FeedAligned
    /\ FeedExact

\* One segment, at any offset, keeps the cursors and the contents right.
LEMMA InsertExact ==
    ASSUME IInv, Regular, NEW off \in Offsets, NEW len \in 1 .. MaxSeg,
           off + len <= StreamLen
    PROVE  LET s == Stored(off, len)
               G == got \cup (off .. off + len - 1)
               E == {i \in Offsets : \E j \in G : i <= j}
           IN  /\ ~s.threw
               /\ s.m_start = first
               /\ s.m_used = b.m_used
               /\ b.m_end <= s.m_end
               /\ \A j \in G : first + j < s.m_end
               /\ \E j \in G : s.m_end = first + j + 1
               /\ DOMAIN s.m_buf = E
               /\ \A i \in E : s.m_buf[i] = IF i \in G THEN i ELSE Hole
<1> DEFINE s == Stored(off, len)
           G == got \cup (off .. off + len - 1)
           E == {i \in Offsets : \E j \in G : i <= j}
           data == Payload(off, len)
           seq  == first + off
           grow == seq + len > b.m_end
           end  == IF grow THEN seq + len ELSE b.m_end
           buf  == IF grow THEN Resize(b.m_buf, end - first) ELSE b.m_buf
<1> USE SeqSpaceAssumption, StreamAssumption
<1>1. /\ first \in 1 .. SeqSpace - 1 /\ off \in Nat /\ len \in Nat /\ len > 0
      /\ StreamLen \in Nat /\ SeqSpace \in Nat /\ b.m_end \in Nat
      /\ first + StreamLen < SeqSpace
    BY DEF IInv, TypeOK, Regular, Offsets, tcp_seq
<1>2. Seq(off) = seq
    <2>1. seq \in tcp_seq
        BY <1>1 DEF tcp_seq
    <2> QED BY <2>1, TruncExact DEF Seq
<1>3. Trunc(seq + len) = seq + len
    <2>1. seq + len \in tcp_seq
        BY <1>1 DEF tcp_seq
    <2> QED BY <2>1, TruncExact
<1>4. end \in first .. SeqSpace - 1 /\ first + off + len <= end
    BY <1>1 DEF IInv, TypeOK, tcp_seq
<1>5. Trunc(end - first) = end - first
    <2>1. end - first \in tcp_seq
        BY <1>1, <1>4 DEF tcp_seq
    <2> QED BY <2>1, TruncExact
<1>6. Trunc(seq - first) = off
    <2>1. seq - first = off /\ off \in tcp_seq
        BY <1>1 DEF tcp_seq
    <2> QED BY <2>1, TruncExact
<1>7. s = IF Beyond(buf, off)
          THEN [b EXCEPT !.m_start = first, !.m_end = end, !.m_buf = buf,
                         !.threw = TRUE]
          ELSE [b EXCEPT !.m_start = first, !.m_end = end,
                         !.m_buf = Replace(buf, off, data, len)]
    <2>1. b.m_start = first /\ first # 0
        BY <1>1 DEF IInv, Cursors
    <2> HIDE DEF data
    <2> QED BY <1>2, <1>3, <1>5, <1>6, <2>1 DEF Stored, insertData, Store, data
<1>8. E = 0 .. end - first - 1
    <2>1. \A j \in got : j \in Offsets /\ first + j < end
        BY <1>1, <1>4 DEF IInv, Cursors, TypeOK, Offsets, tcp_seq
    <2>2. \E j \in G : end = first + j + 1
        <3>1. CASE grow
            <4>1. off + len - 1 \in G /\ end = first + (off + len - 1) + 1
                BY <1>1, <3>1
            <4> QED BY <4>1
        <3>2. CASE ~grow
            <4>1. got # {}
                BY <1>1, <3>2 DEF IInv, Untouched
            <4> QED BY <3>2, <4>1 DEF IInv, Cursors
        <3> QED BY <3>1, <3>2
    <2>3. \A j \in G : j \in Offsets /\ first + j < end
        BY <1>1, <1>4, <2>1 DEF Offsets
    <2> HIDE DEF G, end
    <2> QED BY <1>1, <1>4, <2>2, <2>3 DEF Offsets
<1>9. DOMAIN buf = E
    <2>1. CASE grow
        BY <1>8, <2>1 DEF Resize
    <2>2. CASE ~grow
        <3>1. G \subseteq got \cup (off .. off + len - 1)
            OBVIOUS
        <3>2. got # {}
            BY <1>1, <2>2 DEF IInv, Untouched
        <3>3. PICK j \in got : b.m_end = first + j + 1
            BY <3>2 DEF IInv, Cursors
        <3>4. j \in Offsets
            BY DEF IInv, TypeOK
        <3>5. \A i \in got : i \in Offsets /\ first + i < b.m_end
            BY DEF IInv, Cursors, TypeOK
        <3>6. Extent = 0 .. b.m_end - first - 1
            BY <1>1, <3>3, <3>4, <3>5 DEF Extent, Offsets
        <3> QED BY <1>8, <2>2, <3>6 DEF IInv, Faithful
    <2> QED BY <2>1, <2>2
<1>10. off .. off + len - 1 \subseteq E
    BY <1>1, <1>4, <1>8
<1>11. ~Beyond(buf, off)
    <2> HIDE DEF buf, end
    <2> QED BY <1>1, <1>4, <1>8, <1>9 DEF Beyond
<1>12. \A i \in E : buf[i] = IF i \in got THEN i ELSE Hole
    <2> SUFFICES ASSUME NEW i \in E PROVE buf[i] = IF i \in got THEN i ELSE Hole
        OBVIOUS
    <2>1. DOMAIN b.m_buf = Extent
        BY DEF IInv, Faithful
    <2>2. i \in Extent => b.m_buf[i] = IF i \in got THEN i ELSE Hole
        BY DEF IInv, Faithful
    <2>3. i \notin Extent => i \notin got
        BY <1>1 DEF Extent, Offsets
    <2>4. CASE grow
        <3>1. buf[i] = IF i \in DOMAIN b.m_buf THEN b.m_buf[i] ELSE Hole
            BY <1>8, <2>4 DEF Resize
        <3> QED BY <2>1, <2>2, <2>3, <3>1
    <2>5. CASE ~grow
        BY <1>9, <2>1, <2>2, <2>5
    <2> QED BY <2>4, <2>5
<1>13. /\ DOMAIN Replace(buf, off, data, len) = E
       /\ \A i \in E : Replace(buf, off, data, len)[i]
                        = IF i \in G THEN i ELSE Hole
    <2>1. (DOMAIN buf) \cup (off .. off + len - 1) = E
        BY <1>9, <1>10
    <2>2. ASSUME NEW i \in off .. off + len - 1 PROVE data[i - off] = i
        BY <1>1 DEF Payload
    <2> HIDE DEF buf, data, E
    <2> QED BY <1>12, <2>1, <2>2 DEF Replace
<1>14. b.m_end <= end
    BY <1>1
<1>15. /\ \A j \in G : first + j < end
       /\ \E j \in G : end = first + j + 1
    <2>1. \A j \in G : j \in Offsets
        BY <1>1 DEF IInv, TypeOK, Offsets
    <2>2. \A j \in G : j \in E
        BY <2>1 DEF Offsets
    <2>3. end - first - 1 \in E
        BY <1>1, <1>4, <1>8
    <2>4. PICK j \in G : end - first - 1 <= j
        BY <2>3
    <2>5. j = end - first - 1
        BY SMTT(30), <1>1, <1>4, <1>8, <2>1, <2>2, <2>4
    <2> HIDE DEF G, E, end
    <2> QED BY <1>1, <1>4, <1>8, <2>1, <2>2, <2>5
<1> HIDE DEF s, G, E, end, buf, data
<1>16. s = [b EXCEPT !.m_start = first, !.m_end = end,
                     !.m_buf = Replace(buf, off, data, len)]
    BY <1>7, <1>11
<1>17. /\ ~s.threw /\ s.m_start = first /\ s.m_used = b.m_used
       /\ s.m_end = end /\ s.m_buf = Replace(buf, off, data, len)
    BY <1>16 DEF IInv, TypeOK, Faithful
<1> QED BY <1>13, <1>14, <1>15, <1>17 DEF s, G, E

\* The data that dumpUnusedData hands out is what lies between the parser's
\* position and the end of the buffer, and afterwards nothing is unused.
LEMMA DumpExact ==
    ASSUME NEW s, s \in [m_start : tcp_seq, m_end : tcp_seq, m_used : tcp_seq,
                         m_buf : {s.m_buf}, threw : BOOLEAN],
           s.m_start <= s.m_used, s.m_used <= s.m_end, s.m_start < s.m_end,
           DOMAIN s.m_buf = 0 .. s.m_end - s.m_start - 1
    PROVE  /\ dumpUnusedData(s) = [s EXCEPT !.m_used = s.m_end]
           /\ DOMAIN unusedData(s)
                 = s.m_used - s.m_start .. s.m_end - s.m_start - 1
           /\ \A i \in DOMAIN unusedData(s) : unusedData(s)[i] = s.m_buf[i]
<1> USE SeqSpaceAssumption DEF tcp_seq
<1>1. UnusedFrom(s) = s.m_used - s.m_start
    BY SMTT(30), TruncExact DEF UnusedFrom
<1>2. Trunc(s.m_end - s.m_start) = s.m_end - s.m_start
    BY TruncExact
<1>3. UnusedLen(s) = s.m_end - s.m_used
    BY <1>1, <1>2, TruncExact DEF UnusedLen
<1>4. ~Beyond(s.m_buf, UnusedFrom(s))
    BY <1>1 DEF Beyond
<1>5. {j \in DOMAIN s.m_buf : /\ j >= UnusedFrom(s)
                              /\ j < UnusedFrom(s) + UnusedLen(s)}
        = s.m_used - s.m_start .. s.m_end - s.m_start - 1
    BY <1>1, <1>3
<1> QED BY <1>4, <1>5 DEF dumpUnusedData, unusedData

\* Every step of the specification keeps the invariant.
LEMMA InvariantStep == IInv /\ [Next]_vars => IInv'
<1> SUFFICES ASSUME IInv, [Next]_vars PROVE IInv'
    OBVIOUS
<1>1. TypeOK'
    BY TypeStep DEF IInv
<1>2. CASE SynAck
    <2>1. b' = [b EXCEPT !.m_start = first]
        BY <1>2 DEF SynAck, setStartSeq
    <2>2. /\ b'.m_start = first /\ b'.m_end = b.m_end /\ b'.m_buf = b.m_buf
          /\ b'.threw = b.threw
        BY <2>1 DEF IInv, TypeOK
    <2>3. Regular' => Faithful'
        <3>1. CASE known
            BY <1>2, <2>2, <3>1 DEF SynAck, IInv, Regular, Faithful, Extent
        <3>2. CASE ~known
            BY <1>2, <2>2, <3>2
               DEF SynAck, IInv, Untouched, Regular, Faithful, Extent
        <3> QED BY <3>1, <3>2
    <2>4. Regular' => Cursors'
        <3>1. CASE known
            BY <1>2, <2>2, <3>1 DEF SynAck, IInv, Regular, Cursors
        <3>2. CASE ~known
            BY <1>2, <2>2, <3>2 DEF SynAck, IInv, Regular, Cursors
        <3> QED BY <3>1, <3>2
    <2>5. dir' # ToServer
        BY <1>2 DEF SynAck, ToServer, ToClient
    <2> QED BY <1>1, <1>2, <2>2, <2>3, <2>4, <2>5
            DEF SynAck, IInv, Untouched, Consumed, FeedAligned, FeedExact, Extent
<1>3. ASSUME NEW off \in Offsets, NEW len \in 1 .. MaxSeg, Segment(off, len)
      PROVE  IInv'
    <2> DEFINE s == Stored(off, len)
               G == got \cup (off .. off + len - 1)
    <2>1. off + len <= StreamLen /\ got' = G /\ dir' = dir /\ first' = first
          /\ known' = known /\ noGap' = (noGap /\ \A i \in 0 .. off - 1 : i \in got)
        BY <1>3 DEF Segment
    <2>2. off \in G /\ got' # {}
        BY <2>1 DEF Offsets
    <2>3. Untouched'
        BY <2>2 DEF Untouched
    <2>4. noGap' => got' = Extent'
        <3> SUFFICES ASSUME noGap' PROVE got' = Extent'
            OBVIOUS
        <3>1. got = Extent /\ \A i \in 0 .. off - 1 : i \in got
            BY <2>1 DEF IInv
        <3>2. got' \subseteq Offsets
            BY <1>1 DEF TypeOK
        <3>3. got' \subseteq Extent'
            BY <3>2 DEF Extent, Offsets
        <3>4. ASSUME NEW i \in Offsets, NEW j \in got', i <= j PROVE i \in got'
            <4>1. CASE j \in got
                BY <2>1, <3>1, <3>4, <4>1 DEF Extent
            <4>2. CASE j \in off .. off + len - 1
                BY <2>1, <3>1, <3>4, <4>2 DEF Offsets
            <4> QED BY <2>1, <3>4, <4>1, <4>2
        <3> QED BY <3>3, <3>4 DEF Extent
    <2>5. Regular' = Regular
        BY <2>1 DEF Regular
    <2>6. CASE ~Regular
        BY <1>1, <2>3, <2>4, <2>5, <2>6 DEF IInv, FeedAligned, FeedExact
    <2>7. CASE Regular
        <3>1. /\ ~s.threw
              /\ s.m_start = first
              /\ s.m_used = b.m_used
              /\ b.m_end <= s.m_end
              /\ \A j \in got' : first + j < s.m_end
              /\ \E j \in got' : s.m_end = first + j + 1
              /\ DOMAIN s.m_buf = Extent'
              /\ \A i \in Extent' : s.m_buf[i] = IF i \in got' THEN i ELSE Hole
            BY <2>1, <2>7, InsertExact DEF Extent
        <3>2. s \in [m_start : tcp_seq, m_end : tcp_seq, m_used : tcp_seq,
                     m_buf : {s.m_buf}, threw : BOOLEAN]
            BY <2>1, InsertType DEF IInv, TypeOK
        <3>3. CASE dir # ToServer
            <4>1. b' = s
                BY <1>3, <3>3 DEF Segment
            <4> QED BY <1>1, <2>1, <2>3, <2>4, <3>1, <3>3, <4>1
                    DEF IInv, Cursors, Consumed, Faithful, FeedAligned, FeedExact
        <3>4. CASE dir = ToServer
            <4> DEFINE d == [s EXCEPT !.m_used = s.m_end]
            <4>1. Accepted(s) \/ Rejected(s)
                BY <1>3, <3>1, <3>4 DEF Segment
            <4>2. got' \subseteq Offsets
                BY <1>1 DEF TypeOK
            <4>3. first \in Nat /\ s.m_end \in Nat /\ first < s.m_end
                BY <2>1, <2>2, <3>1, <3>2, <4>2
                   DEF Offsets, IInv, TypeOK, tcp_seq
            <4>4. Extent' = 0 .. s.m_end - first - 1
                <5>1. PICK j \in got' : s.m_end = first + j + 1
                    BY <3>1
                <5>2. j \in Offsets
                    BY <4>2
                <5>3. \A i \in got' : i \in Offsets /\ first + i < s.m_end
                    BY <3>1, <4>2
                <5> QED BY <4>3, <5>1, <5>2, <5>3, StreamAssumption
                        DEF Extent, Offsets
            <4>5. first <= s.m_used /\ s.m_used <= s.m_end
                BY <2>7, <3>1, <3>2, <3>4, <4>3
                   DEF IInv, Consumed, TypeOK, tcp_seq
            <4>6. /\ dumpUnusedData(s) = d
                  /\ DOMAIN unusedData(s)
                        = s.m_used - s.m_start .. s.m_end - s.m_start - 1
                  /\ \A i \in DOMAIN unusedData(s) :
                          unusedData(s)[i] = s.m_buf[i]
                <5> HIDE DEF s
                <5> QED BY <3>1, <3>2, <4>3, <4>4, <4>5, DumpExact
            <4>7. /\ d.m_start = first /\ d.m_end = s.m_end /\ d.m_used = s.m_end
                  /\ d.m_buf = s.m_buf /\ ~d.threw
                <5> HIDE DEF s
                <5> QED BY <3>1, <3>2
            <4> HIDE DEF s, d
            <4>8. CASE Accepted(s)
                <5>1. b' = d
                    BY <4>6, <4>8 DEF Accepted
                <5>2. /\ DOMAIN fed = 0 .. s.m_used - first - 1
                      /\ \A i \in DOMAIN fed : fed[i] \in {i, Hole}
                    BY <2>7, <3>1, <3>4 DEF IInv, FeedAligned
                <5>3. DOMAIN fed' = DOMAIN fed \cup DOMAIN unusedData(s)
                      /\ \A i \in DOMAIN fed' : fed'[i]
                            = IF i \in DOMAIN unusedData(s)
                              THEN unusedData(s)[i] ELSE fed[i]
                    BY <4>8 DEF Accepted
                <5>4. DOMAIN fed' = 0 .. s.m_end - first - 1
                    BY <3>1, <3>2, <4>3, <4>5, <4>6, <5>2, <5>3 DEF tcp_seq
                <5>5. ASSUME NEW i \in DOMAIN unusedData(s)
                      PROVE  unusedData(s)[i] = IF i \in got' THEN i ELSE Hole
                    <6>1. i \in Extent'
                        BY <3>1, <3>2, <4>3, <4>4, <4>5, <4>6 DEF tcp_seq
                    <6> QED BY <3>1, <4>6, <6>1
                <5>6. FeedAligned'
                    BY <2>1, <4>7, <5>1, <5>2, <5>3, <5>4, <5>5 DEF FeedAligned
                <5>7. FeedExact'
                    <6> SUFFICES ASSUME noGap'
                                 PROVE  /\ DOMAIN fed' \subseteq got'
                                        /\ \A i \in DOMAIN fed' : fed'[i] = i
                        BY DEF FeedExact
                    <6>1. noGap /\ \A i \in DOMAIN fed : fed[i] = i
                        BY <2>1, <2>7, <3>4 DEF IInv, FeedExact
                    <6>2. DOMAIN fed' \subseteq got'
                        BY <2>4, <4>4, <5>4
                    <6> QED BY <5>3, <5>5, <6>1, <6>2
                <5> QED BY <1>1, <2>1, <2>3, <2>4, <3>1, <3>2, <4>3, <4>7,
                           <5>1, <5>6, <5>7
                        DEF IInv, Cursors, Consumed, Faithful, tcp_seq
            <4>9. CASE Rejected(s)
                <5>1. b' = [d EXCEPT !.m_used = Trunc(d.m_start + 0)]
                    BY <4>6, <4>9 DEF Rejected, setUsedPos
                <5>2. Trunc(d.m_start + 0) = first
                    BY <4>7, TruncExact DEF IInv, TypeOK, tcp_seq
                <5>3. /\ b'.m_start = first /\ b'.m_end = s.m_end
                      /\ b'.m_used = first /\ b'.m_buf = s.m_buf /\ ~b'.threw
                    BY <3>2, <4>7, <5>1, <5>2 DEF d
                <5>4. DOMAIN fed' = {} /\ 0 .. (first - first) - 1 = {}
                    BY <4>3, <4>9 DEF Rejected
                <5>5. FeedAligned' /\ FeedExact'
                    BY <2>1, <5>3, <5>4 DEF FeedAligned, FeedExact
                <5> QED BY <1>1, <2>1, <2>3, <2>4, <3>1, <4>3, <5>3, <5>5
                        DEF IInv, Cursors, Consumed, Faithful
            <4> QED BY <4>1, <4>8, <4>9
        <3> QED BY <3>3, <3>4
    <2> QED BY <2>6, <2>7
<1>4. CASE UNCHANGED vars
    BY <1>4 DEF vars, IInv, TypeOK, Untouched, Extent, Regular, Cursors,
                Consumed, Faithful, FeedAligned, FeedExact
<1> QED BY <1>2, <1>3, <1>4 DEF Next

\* Initially nothing has arrived and nothing was fed.
LEMMA InvariantInit == Init => IInv
<1> SUFFICES ASSUME Init PROVE IInv
    OBVIOUS
<1>1. TypeOK
    BY TypeInit
<1>2. Trunc(first + 0) = first
    BY TruncExact DEF Init, tcp_seq
<1>3. /\ b.m_end = 0 /\ DOMAIN b.m_buf = {} /\ ~b.threw
      /\ known => b.m_start = first /\ b.m_used = first
    BY <1>2 DEF Init, setUsedPos, setStartSeq, CTcpSegBuf
<1>4. got = {} /\ Extent = {} /\ DOMAIN fed = {}
    BY DEF Init, Extent
<1>5. 0 .. (first - first) - 1 = {}
    BY DEF Init, tcp_seq
<1> QED BY <1>1, <1>3, <1>4, <1>5
        DEF Init, IInv, Untouched, Regular, Cursors, Consumed, Faithful,
            FeedAligned, FeedExact, tcp_seq

\* Whatever order the segments of a stream arrive in, however they overlap or
\* repeat, insertData rebuilds the stream as far as it has arrived and never
\* throws, for every size of the sequence space, as long as the stream does
\* not reach its end and its first sequence number is known and not zero.
THEOREM ReassemblyCorrect == Spec => []AnyOrderFaithful
<1>1. IInv => AnyOrderFaithful
    BY DEF IInv, AnyOrderFaithful
<1> QED BY <1>1, InvariantInit, InvariantStep, PTL DEF Spec

\* Under the same condition the real-time HTTP parser is fed position by
\* position, without gaps or repeats between two restarts, and what it sees at
\* a position is the stream's byte there or a hole.
THEOREM FeedAlignedCorrect == Spec => []FeedAligned
<1>1. IInv => FeedAligned
    BY DEF IInv
<1> QED BY <1>1, InvariantInit, InvariantStep, PTL DEF Spec

\* If moreover no segment leaves a gap, the parser is fed the stream itself:
\* retransmissions and parser restarts never corrupt it.
THEOREM FeedExactCorrect == Spec => []FeedExact
<1>1. IInv => FeedExact
    BY DEF IInv
<1> QED BY <1>1, InvariantInit, InvariantStep, PTL DEF Spec

-----------------------------------------------------------------------------
\* Truncation just above and just below the sequence space.
LEMMA TruncOver ==
    ASSUME NEW n \in Int, SeqSpace <= n, n < 2 * SeqSpace
    PROVE  Trunc(n) = n - SeqSpace
BY SeqSpaceAssumption DEF Trunc

LEMMA TruncUnder ==
    ASSUME NEW n \in Int, n < 0, -SeqSpace <= n
    PROVE  Trunc(n) = n + SeqSpace
BY SeqSpaceAssumption DEF Trunc

\* The numbers of the stream's bytes, across the end of the sequence space.
LEMMA SeqFacts ==
    ASSUME first \in tcp_seq, NEW n \in Nat, NEW k \in Nat, n + k < SeqSpace
    PROVE  /\ Seq(n) \in tcp_seq /\ Seq(0) = first
           /\ Trunc(Seq(n) + k) = Seq(n + k)
           /\ Trunc(Seq(n) - first) = n
<1> DEFINE a == first + n
           c == first + (n + k)
<1>1. first \in Int /\ 0 <= first /\ first < SeqSpace /\ SeqSpace \in Nat
    BY SeqSpaceAssumption DEF tcp_seq
<1>2. Seq(n) = Trunc(a) /\ Seq(n + k) = Trunc(c) /\ Seq(0) = Trunc(first)
    BY <1>1 DEF Seq
<1>3. a \in Int /\ c \in Int /\ 0 <= a /\ a <= c /\ c < 2 * SeqSpace /\ c = a + k
    BY <1>1
<1>4. /\ Trunc(first) = first /\ Seq(n) \in tcp_seq
    BY <1>2, <1>3, TruncExact, TruncType
<1> HIDE DEF a, c
<1>5. CASE a < SeqSpace
    <2>1. Trunc(a) = a
        BY <1>1, <1>3, <1>5, TruncExact DEF tcp_seq
    <2>2. Trunc(a - first) = n
        BY <1>1, TruncExact DEF tcp_seq, a
    <2> QED BY <1>2, <1>3, <1>4, <2>1, <2>2
<1>6. CASE SeqSpace <= a
    <2>1. Trunc(a) = a - SeqSpace
        BY <1>1, <1>3, <1>6, TruncOver
    <2>2. Trunc(c) = c - SeqSpace
        BY <1>1, <1>3, <1>6, TruncOver
    <2>3. (a - SeqSpace) + k \in tcp_seq
        BY <1>1, <1>3, <1>6 DEF tcp_seq
    <2>4. Trunc((a - SeqSpace) + k) = c - SeqSpace
        BY <1>1, <1>3, <2>3, TruncExact
    <2>5. (a - SeqSpace) - first = n - SeqSpace /\ n - SeqSpace < 0 /\ -SeqSpace <= n - SeqSpace
        BY <1>1, <1>6 DEF a
    <2>6. Trunc((a - SeqSpace) - first) = n
        BY <1>1, <2>5, TruncUnder
    <2> QED BY <1>2, <1>4, <2>1, <2>2, <2>4, <2>6
<1> QED BY <1>1, <1>3, <1>5, <1>6

\* The first n bytes have come one after the other, and the parser has all or
\* none of them.
OrderedTo(n) ==
    /\ got = 0 .. n - 1 /\ n <= StreamLen
    /\ ~b.threw
    /\ b.m_end = IF n = 0 THEN 0 ELSE Seq(n)
    /\ DOMAIN b.m_buf = 0 .. n - 1 /\ \A i \in 0 .. n - 1 : b.m_buf[i] = i
    /\ known => b.m_start = first
    /\ dir = ToServer =>
           /\ known
           /\ \E k \in {0, n} : DOMAIN fed = 0 .. k - 1 /\ b.m_used = Seq(k)

OrderInv == (known \/ got = {}) /\ first # 0 /\ inOrder => \E n \in Nat : OrderedTo(n)

\* The next segment.
LEMMA InsertNext ==
    ASSUME TypeOK, NEW n \in Nat, OrderedTo(n), known, first # 0, NEW len \in 1 .. MaxSeg,
           n + len <= StreamLen
    PROVE  LET s == Stored(n, len)
           IN  /\ ~ s.threw /\ s.m_start = first /\ s.m_end = Seq(n + len) /\ s.m_used = b.m_used
               /\ DOMAIN s.m_buf = 0 .. (n + len) - 1
               /\ \A i \in 0 .. (n + len) - 1 : s.m_buf[i] = i
<1> DEFINE e == n + len
           buf == Resize(b.m_buf, e)
           out == Replace(buf, n, Payload(n, len), len)
<1>1. /\ first \in tcp_seq /\ len \in Nat /\ len >= 1 /\ StreamLen \in Nat /\ e < SeqSpace /\ e \in Nat
    BY StreamAssumption, SeqSpaceAssumption DEF TypeOK
<1>2. /\ Seq(n) \in tcp_seq /\ Seq(0) = first /\ Trunc(Seq(n) + len) = Seq(e)
      /\ Trunc(Seq(n) - first) = n /\ Trunc(Seq(e) - first) = e
    <2>1. /\ Seq(n) \in tcp_seq /\ Seq(0) = first /\ Trunc(Seq(n) + len) = Seq(n + len)
          /\ Trunc(Seq(n) - first) = n
        BY <1>1, SeqFacts
    <2>2. e + 0 < SeqSpace
        BY <1>1
    <2>3. Trunc(Seq(e) - first) = e
        BY <1>1, <2>2, SeqFacts
    <2> QED BY <2>1, <2>3
<1>3. Seq(n) + len > b.m_end
    <2>1. Seq(n) \in Int /\ Seq(n) >= 0
        BY <1>2 DEF tcp_seq
    <2> QED BY <1>1, <2>1 DEF OrderedTo
<1>4. b.m_start = first /\ DOMAIN b.m_buf = 0 .. n - 1
    BY DEF OrderedTo
<1>5. DOMAIN buf = 0 .. e - 1 /\ \A i \in 0 .. n - 1 : buf[i] = i
    <2>1. DOMAIN buf = 0 .. e - 1 /\ \A i \in 0 .. e - 1 : buf[i] = IF i \in DOMAIN b.m_buf THEN b.m_buf[i] ELSE Hole
        BY DEF Resize
    <2>2. \A i \in 0 .. n - 1 : i \in 0 .. e - 1 /\ b.m_buf[i] = i
        BY <1>1 DEF OrderedTo
    <2> QED BY <1>4, <2>1, <2>2
<1>6. ~ Beyond(buf, n)
    BY <1>1, <1>5 DEF Beyond
<1>7. Stored(n, len) = [b EXCEPT !.m_start = first, !.m_end = Seq(e), !.m_buf = out]
    BY <1>2, <1>3, <1>4, <1>6 DEF Stored, insertData, Store
<1>8. DOMAIN out = 0 .. e - 1 /\ \A i \in 0 .. e - 1 : out[i] = i
    <2>1. (DOMAIN buf) \cup (n .. n + len - 1) = 0 .. e - 1
        BY <1>1, <1>5
    <2> HIDE DEF buf
    <2>2. /\ DOMAIN out = 0 .. e - 1
          /\ \A i \in 0 .. e - 1 : out[i] = IF i \in n .. n + len - 1 THEN Payload(n, len)[i - n] ELSE buf[i]
        BY <2>1 DEF Replace
    <2>3. \A i \in n .. n + len - 1 : Payload(n, len)[i - n] = i
        BY <1>1 DEF Payload
    <2>4. \A i \in 0 .. e - 1 : i \in n .. n + len - 1 \/ i \in 0 .. n - 1
        BY <1>1
    <2> QED BY <1>5, <2>2, <2>3, <2>4
<1> HIDE DEF out
<1>9. /\ Stored(n, len).m_start = first /\ Stored(n, len).m_end = Seq(e) /\ Stored(n, len).m_buf = out
      /\ Stored(n, len).m_used = b.m_used /\ Stored(n, len).threw = b.threw
    BY <1>7 DEF TypeOK
<1> QED BY <1>8, <1>9 DEF OrderedTo

\* A segment that is not the next one ends inOrder, so only the next one matters.
LEMMA OrderStep == TypeOK /\ Untouched /\ OrderInv /\ [Next]_vars => OrderInv'
<1> SUFFICES ASSUME TypeOK, Untouched, OrderInv, [Next]_vars, known' \/ got' = {}, first' # 0, inOrder'
             PROVE  \E n \in Nat : OrderedTo(n)'
    BY DEF OrderInv
<1>0. first \in tcp_seq /\ StreamLen \in Nat /\ StreamLen < SeqSpace
    BY StreamAssumption DEF TypeOK
<1>1. CASE SynAck
    <2>1. /\ b' = [b EXCEPT !.m_start = first] /\ dir = ToClient
          /\ known' = (known \/ got = {}) /\ UNCHANGED <<dir, first, fed, got, inOrder>>
        BY <1>1 DEF SynAck, setStartSeq
    <2>2. PICK n \in Nat : OrderedTo(n)
        BY <2>1 DEF OrderInv
    <2>3. b'.m_start = first /\ b'.m_end = b.m_end /\ b'.m_buf = b.m_buf /\ b'.threw = b.threw
        BY <2>1 DEF TypeOK
    <2>4. Seq(n)' = Seq(n) /\ dir' # ToServer
        BY <2>1 DEF Seq, ToServer, ToClient
    <2>5. OrderedTo(n)'
        BY <2>1, <2>2, <2>3, <2>4 DEF OrderedTo
    <2> QED BY <2>5
<1>2. ASSUME NEW off \in Offsets, NEW len \in 1 .. MaxSeg, Segment(off, len)
      PROVE  \E n \in Nat : OrderedTo(n)'
    <2> DEFINE s == Stored(off, len)
               e == off + len
    <2>1. /\ off + len <= StreamLen /\ got' = got \cup (off .. off + len - 1)
          /\ inOrder /\ got = 0 .. off - 1 /\ UNCHANGED <<dir, first, known>>
        BY <1>2 DEF Segment
    <2>2. off \in Nat /\ len \in Nat /\ len >= 1 /\ e \in Nat /\ e < SeqSpace
        <3>1. off \in Nat
            BY <1>0 DEF Offsets
        <3>2. len \in Nat /\ len >= 1
            BY StreamAssumption
        <3>3. SeqSpace \in Nat
            BY SeqSpaceAssumption
        <3> QED BY <1>0, <2>1, <3>1, <3>2, <3>3
    <2>3. got' # {} /\ known' /\ known
        <3>1. off \in got'
            BY <2>1, <2>2
        <3> QED BY <2>1, <3>1
    <2>4. OrderedTo(off)
        <3>1. PICK n \in Nat : OrderedTo(n)
            BY <2>1, <2>3 DEF OrderInv
        <3>2. 0 .. n - 1 = 0 .. off - 1
            BY <2>1, <3>1 DEF OrderedTo
        <3>3. n = off
            <4>1. n > 0 => n - 1 \in 0 .. off - 1
                <5>1. n > 0 => n - 1 \in 0 .. n - 1
                    OBVIOUS
                <5> QED BY <3>2, <5>1
            <4>2. off > 0 => off - 1 \in 0 .. n - 1
                <5>1. off > 0 => off - 1 \in 0 .. off - 1
                    BY <2>2
                <5> QED BY <3>2, <5>1
            <4> QED BY <2>2, <4>1, <4>2
        <3> QED BY <3>1, <3>3
    <2>5. /\ ~ s.threw /\ s.m_start = first /\ s.m_end = Seq(e) /\ s.m_used = b.m_used
          /\ DOMAIN s.m_buf = 0 .. e - 1
          /\ \A i \in 0 .. e - 1 : s.m_buf[i] = i
        BY <2>1, <2>2, <2>3, <2>4, InsertNext
    <2>6. s \in [m_start : tcp_seq, m_end : tcp_seq, m_used : {b.m_used}, m_buf : {s.m_buf}, threw : BOOLEAN]
        BY <2>1, InsertType
    <2> HIDE DEF s
    <2>7. got' = 0 .. e - 1 /\ e # 0
        BY <2>1, <2>2
    <2>8. ASSUME ~ b'.threw, b'.m_start = first, b'.m_end = Seq(e), b'.m_buf = s.m_buf,
                 dir = ToServer => \E k \in {0, e} : DOMAIN fed' = 0 .. k - 1 /\ b'.m_used = Seq(k)
          PROVE  \E n \in Nat : OrderedTo(n)'
        <3>1. PICK n \in Nat : n = e
            BY <2>2
        <3>2. \A k : Seq(k)' = Trunc(first + k)
            BY <2>1 DEF Seq
        <3>3. OrderedTo(n)'
            BY <2>1, <2>3, <2>5, <2>7, <2>8, <3>1, <3>2 DEF OrderedTo, Seq
        <3> QED BY <3>3
    <2>9. CASE dir # ToServer
        <3>1. b' = s
            BY <1>2, <2>9 DEF Segment, s
        <3> QED BY <2>5, <2>8, <2>9, <3>1
    <2>10. CASE dir = ToServer
        <3>1. PICK k \in {0, off} : DOMAIN fed = 0 .. k - 1 /\ b.m_used = Seq(k)
            BY <2>4, <2>10 DEF OrderedTo
        <3>2. k \in Nat /\ k <= off /\ k + 0 < SeqSpace /\ e + 0 < SeqSpace
            <4>1. SeqSpace \in Nat
                BY SeqSpaceAssumption
            <4>2. k = 0 \/ k = off
                BY <3>1
            <4> QED BY <2>2, <4>1, <4>2
        <3>3. /\ Seq(k) \in tcp_seq /\ Trunc(Seq(k) - first) = k
              /\ Seq(e) \in tcp_seq /\ Trunc(Seq(e) - first) = e /\ Seq(0) = first
            BY <1>0, <2>2, <3>2, SeqFacts
        <3>4. UnusedFrom(s) = k /\ UnusedLen(s) = e - k
            <4>1. UnusedFrom(s) = k
                BY <2>5, <3>1, <3>3 DEF UnusedFrom
            <4>2. e - k \in tcp_seq
                BY <2>2, <3>2, SeqSpaceAssumption DEF tcp_seq
            <4> QED BY <2>5, <3>3, <4>1, <4>2, TruncExact DEF UnusedLen
        <3>5. ~ Beyond(s.m_buf, UnusedFrom(s))
            BY <2>2, <2>5, <3>2, <3>4 DEF Beyond
        <3>6. dumpUnusedData(s) = [s EXCEPT !.m_used = s.m_end]
            BY <3>5 DEF dumpUnusedData
        <3>7. /\ dumpUnusedData(s).m_start = first /\ dumpUnusedData(s).m_end = Seq(e)
              /\ dumpUnusedData(s).m_buf = s.m_buf /\ dumpUnusedData(s).m_used = Seq(e)
              /\ ~ dumpUnusedData(s).threw
              /\ dumpUnusedData(s) \in [m_start : tcp_seq, m_end : tcp_seq, m_used : tcp_seq,
                                        m_buf : {s.m_buf}, threw : BOOLEAN]
            BY <2>5, <2>6, <3>3, <3>6
        <3>8. Accepted(s) \/ Rejected(s)
            BY <1>2, <2>5, <2>10 DEF Segment, s
        <3>9. CASE Accepted(s)
            <4> DEFINE new == unusedData(s)
            <4>1. DOMAIN new = k .. e - 1
                <5>1. DOMAIN new = {j \in 0 .. e - 1 : j >= k /\ j < k + (e - k)}
                    BY <2>5, <3>4 DEF unusedData
                <5> QED BY <2>2, <3>2, <5>1
            <4> HIDE DEF new
            <4>2. DOMAIN fed' = DOMAIN fed \cup DOMAIN new
                BY <3>9 DEF Accepted, new
            <4>3. DOMAIN fed' = 0 .. e - 1
                BY <2>2, <3>1, <3>2, <4>1, <4>2
            <4>4. b' = dumpUnusedData(s)
                BY <3>9 DEF Accepted
            <4> QED BY <2>8, <3>7, <4>3, <4>4
        <3>10. CASE Rejected(s)
            <4>1. b' = setUsedPos(dumpUnusedData(s), 0) /\ DOMAIN fed' = {}
                BY <3>10 DEF Rejected
            <4>2. Trunc(first + 0) = Seq(0)
                BY DEF Seq
            <4>3. /\ b'.m_start = first /\ b'.m_end = Seq(e) /\ b'.m_buf = s.m_buf /\ ~ b'.threw
                  /\ b'.m_used = Seq(0)
                BY <3>7, <4>1, <4>2 DEF setUsedPos
            <4>4. 0 .. 0 - 1 = {}
                OBVIOUS
            <4> QED BY <2>8, <4>1, <4>3, <4>4
        <3> QED BY <3>8, <3>9, <3>10
    <2> QED BY <2>9, <2>10
<1>3. CASE UNCHANGED vars
    <2>1. UNCHANGED <<dir, first, b, fed, got, known, inOrder>>
        BY <1>3 DEF vars
    <2>2. PICK n \in Nat : OrderedTo(n)
        BY <2>1 DEF OrderInv
    <2>3. OrderedTo(n)'
        BY <2>1, <2>2 DEF OrderedTo, Seq
    <2> QED BY <2>3
<1> QED BY <1>1, <1>2, <1>3 DEF Next

\* Segments that come in order are reassembled for any first sequence number, where
\* the numbers wrap within the stream too, and the real-time parser was given all
\* or, after a restart, none of them (insertData, dumpUnusedData).
THEOREM InOrderFaithfulCorrect == Spec => []InOrderFaithful
<1>1. Init => OrderInv
    <2> SUFFICES ASSUME Init, first # 0 PROVE OrderedTo(0)
        BY DEF OrderInv
    <2>1. first \in tcp_seq /\ Trunc(first) = first
        BY TruncExact DEF Init
    <2>2. Seq(0) = first
        BY <2>1 DEF Seq, tcp_seq
    <2>3. /\ b.m_end = 0 /\ DOMAIN b.m_buf = {} /\ ~ b.threw
          /\ dir = ToServer => b.m_start = first /\ b.m_used = Trunc(first + 0)
        BY DEF Init, setUsedPos, setStartSeq, CTcpSegBuf
    <2>4. got = {} /\ DOMAIN fed = {} /\ (known <=> dir = ToServer) /\ 0 .. 0 - 1 = {}
        <3>1. got = {} /\ DOMAIN fed = {}
            BY DEF Init
        <3>2. known <=> dir = ToServer
            BY Zenon DEF Init
        <3>3. 0 .. 0 - 1 = {}
            OBVIOUS
        <3> QED BY <3>1, <3>2, <3>3
    <2>5. 0 <= StreamLen
        BY StreamAssumption
    <2> QED BY <2>2, <2>3, <2>4, <2>5 DEF OrderedTo, Seq
<1>2. IInv /\ OrderInv /\ [Next]_vars => OrderInv'
    BY OrderStep DEF IInv
<1>3. OrderInv => InOrderFaithful
    <2> SUFFICES ASSUME OrderInv, known, first # 0, inOrder
                 PROVE  Faithful /\ (dir = ToServer => DOMAIN fed \in {{}, got})
        BY DEF InOrderFaithful
    <2>1. PICK n \in Nat : OrderedTo(n)
        BY DEF OrderInv
    <2>2. Extent = got
        BY <2>1, StreamAssumption DEF Extent, Offsets, OrderedTo
    <2>3. Faithful
        BY <2>1, <2>2 DEF Faithful, OrderedTo
    <2>4. dir = ToServer => DOMAIN fed \in {{}, got}
        BY <2>1 DEF OrderedTo
    <2> QED BY <2>3, <2>4
<1> QED BY <1>1, <1>2, <1>3, InvariantInit, InvariantStep, PTL DEF Spec
=============================================================================
