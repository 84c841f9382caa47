----------------------------- MODULE Reassembly -----------------------------
(***************************************************************************)
(* One direction of one TCP connection as killerfinder sees it: segments of *)
(* a byte stream arrive in any order, again, or overlapping, and the        *)
(* capture thread stores them in the session's CTcpSegBuf.  On the          *)
(* to-server side of an HTTP session every stored payload is followed, in   *)
(* the same handler, by the real-time decoder: it takes what is new in the  *)
(* buffer, gives it to http_parser, and on a parse error starts again from  *)
(* the beginning of the buffer.                                             *)
(*                                                                         *)
(* A byte of the stream is its offset in the stream, so that a misplaced    *)
(* byte can be told from the right one.                                     *)
(***************************************************************************)
EXTENDS SegBuf, FiniteSets

CONSTANTS StreamLen,   \* bytes the sender has to send in this direction
          MaxSeg       \* largest payload of a segment

ASSUME StreamAssumption == /\ StreamLen \in Nat \ {0}
                           /\ MaxSeg \in Nat \ {0}
                           /\ StreamLen < SeqSpace

VARIABLES dir,      \* DIRECTION_TO_SERVER or DIRECTION_TO_CLIENT
          first,    \* the sequence number of the stream's first byte (ISN + 1)
          b,        \* m_continuousSeg[dir]
          fed,      \* what http_parser was given since parserInit, by position
          got,      \* history: the stream offsets that have arrived
          known,    \* history: setStartSeq came before the first payload
          noGap,    \* history: no segment has left bytes before it missing
          inOrder   \* history: every segment was exactly the next one
vars == <<dir, first, b, fed, got, known, noGap, inOrder>>

ToServer == "DIRECTION_TO_SERVER"
ToClient == "DIRECTION_TO_CLIENT"

Offsets == 0 .. StreamLen - 1

\* The SYN creates the session: processL5 gives the to-server buffer its
\* start; the to-client buffer waits for a SYN+ACK that may not be captured.
Init ==
    /\ dir \in {ToServer, ToClient}
    /\ first \in tcp_seq
    /\ b = IF dir = ToServer
           THEN setUsedPos(setStartSeq(CTcpSegBuf, first), 0)
           ELSE CTcpSegBuf
    /\ fed = [i \in {} |-> Hole]
    /\ got = {}
    /\ known = (dir = ToServer)
    /\ noGap = TRUE
    /\ inOrder = TRUE

\* updateMe on a SYN+ACK: the server's ISN is known (and set again by a
\* retransmitted SYN+ACK).
SynAck ==
    /\ ~b.threw
    /\ dir = ToClient
    /\ b' = setStartSeq(b, first)
    /\ known' = (known \/ got = {})
    /\ UNCHANGED <<dir, first, fed, got, noGap, inOrder>>

Seq(off) == Trunc(first + off)
Payload(off, len) == [i \in 0 .. len - 1 |-> off + i]

\* savePayload
Stored(off, len) == insertData(b, Seq(off), Payload(off, len), len)

\* decodeHttpActive with a parser that accepts, or rejects, what it is given.
Accepted(stored) ==
    /\ b' = dumpUnusedData(stored)
    /\ LET new == unusedData(stored)
       IN  fed' = [i \in DOMAIN fed \cup DOMAIN new |->
                      IF i \in DOMAIN new THEN new[i] ELSE fed[i]]
\* Variant: the parser is reset but m_used is not.
Rejected_KeepsUsed(stored) ==
    /\ b' = dumpUnusedData(stored)
    /\ fed' = [i \in {} |-> Hole]
Rejected(stored) ==
    /\ b' = setUsedPos(dumpUnusedData(stored), 0)
    /\ fed' = [i \in {} |-> Hole]

\* updateMe with a payload of len bytes of the stream, starting at off.
Segment(off, len) ==
    /\ ~b.threw
    /\ off + len <= StreamLen
    /\ got' = got \cup (off .. off + len - 1)
    /\ noGap' = (noGap /\ \A i \in 0 .. off - 1 : i \in got)
    /\ inOrder' = (inOrder /\ got = 0 .. off - 1)
    /\ LET stored == Stored(off, len)
       IN  IF dir = ToServer /\ ~stored.threw
           THEN Accepted(stored) \/ Rejected(stored)
           ELSE b' = stored /\ fed' = fed
    /\ UNCHANGED <<dir, first, known>>

Next == SynAck \/ \E off \in Offsets, len \in 1 .. MaxSeg : Segment(off, len)

Spec == Init /\ [][Next]_vars

-----------------------------------------------------------------------------
Bytes == Offsets \cup {Hole}

\* Contents of m_buf.  m_end - m_start is less than SeqSpace, so a segment that
\* reaches past m_end takes the string at most MaxSeg bytes further.
IsString(str) == \E n \in 0 .. SeqSpace + MaxSeg : str \in [0 .. n - 1 -> Bytes]

\* The types of the variables: in particular m_buf stays contiguous and its
\* length stays below SeqSpace + MaxSeg, whatever arrives in whatever order.
TypeOK ==
    /\ dir \in {ToServer, ToClient}
    /\ first \in tcp_seq
    /\ b \in [m_start : tcp_seq, m_end : tcp_seq, m_used : tcp_seq,
              m_buf : {b.m_buf}, threw : BOOLEAN]
    /\ IsString(b.m_buf)
    /\ \A i \in DOMAIN fed : i \in Nat /\ fed[i] \in Bytes
    /\ got \subseteq Offsets
    /\ known \in BOOLEAN /\ noGap \in BOOLEAN /\ inOrder \in BOOLEAN

\* The length of the reassembled stream: one past the last byte that arrived.
Extent == {i \in Offsets : \E j \in got : i <= j}

\* The buffer is the stream as far as it has arrived, with holes exactly where
\* bytes are missing, and no std::string operation has thrown.
Faithful ==
    /\ ~b.threw
    /\ DOMAIN b.m_buf = Extent
    /\ \A i \in Extent : b.m_buf[i] = IF i \in got THEN i ELSE Hole

\* The stream does not reach the end of the sequence space, and the start of
\* the buffer is known and is not the number that stands for "unknown".
Regular == known /\ first # 0 /\ first + StreamLen < SeqSpace

\* In the absence of wrap-around, insertData reassembles any arrival order,
\* with retransmissions and overlaps, and never throws.
AnyOrderFaithful == Regular => Faithful

\* Segments that come strictly in order are reassembled across the wrap of the
\* sequence space too, and the real-time parser, unless it has just started
\* again, has been given all of them: m_end is compared before it is truncated.
InOrderFaithful ==
    known /\ first # 0 /\ inOrder =>
        Faithful /\ (dir = ToServer => DOMAIN fed \in {{}, got})

\* What the real-time parser sees at position i is the stream's byte i or a
\* hole, never another byte, and positions are fed without gaps or repeats.
FeedAligned ==
    dir = ToServer /\ Regular =>
        /\ DOMAIN fed = 0 .. (b.m_used - first) - 1
        /\ \A i \in DOMAIN fed : fed[i] \in {i, Hole}

\* If no segment ever leaves a gap, the parser sees the stream itself, however
\* often segments are retransmitted and however often the parser restarts.
FeedExact ==
    dir = ToServer /\ Regular /\ noGap =>
        /\ DOMAIN fed \subseteq got
        /\ \A i \in DOMAIN fed : fed[i] = i
=============================================================================
