------------------------------- MODULE SegBuf -------------------------------
(***************************************************************************)
(* CTcpSegBuf: the reassembly buffer that a TCP session keeps for each      *)
(* direction.  Sequence numbers are unsigned and wrap at SeqSpace (2^32 in    *)
(* the code); `seq + size' is computed in size_t, so it does NOT wrap       *)
(* before the comparison with m_end, and is truncated when it is stored.    *)
(*                                                                         *)
(* A byte is whatever the payload holds; a byte of the std::string that no  *)
(* payload has written is Hole (the zero that resize() fills in).  The      *)
(* string is a function on 0 .. n-1, as its offsets are.                    *)
(***************************************************************************)
EXTENDS Integers

CONSTANTS SeqSpace,   \* the modulus of tcp_seq
          Hole      \* the filler byte of std::string::resize

ASSUME SeqSpaceAssumption == SeqSpace \in Nat /\ SeqSpace > 1

tcp_seq == 0 .. SeqSpace - 1

\* Stores and differences of tcp_seq values wrap.
Trunc(n) == n % SeqSpace

\* The members m_start, m_end, m_used, m_buf; `threw' is set when a
\* std::string operation raised std::out_of_range, which nothing catches.
CTcpSegBuf == [m_start |-> 0, m_end |-> 0, m_used |-> 0,
               m_buf |-> [i \in {} |-> Hole], threw |-> FALSE]

\* Variant: the sequence number the SYN itself takes is not skipped.
setStartSeq_AtSyn(b, seq) == [b EXCEPT !.m_start = Trunc(seq - 1)]

setStartSeq(b, seq) == [b EXCEPT !.m_start = seq]

setUsedPos(b, used) == [b EXCEPT !.m_used = Trunc(b.m_start + used)]

\* std::string::resize(n): cut, or padded with Hole.
Resize(str, n) ==
    [i \in 0 .. n - 1 |-> IF i \in DOMAIN str THEN str[i] ELSE Hole]

\* std::string::replace(pos, size, data, size) with pos not beyond the end:
\* the string grows when the data reaches past its end.
Replace(str, pos, data, size) ==
    [i \in (DOMAIN str) \cup (pos .. pos + size - 1) |->
        IF i \in pos .. pos + size - 1 THEN data[i - pos] ELSE str[i]]

\* pos > m_buf.size()
Beyond(str, pos) == pos # 0 /\ (pos - 1) \notin DOMAIN str

\* insertData, where `grow' tells whether the segment reaches past m_end.
Store(b, seq, data, size, grow) ==
    LET start == IF b.m_start = 0 THEN seq ELSE b.m_start
        end   == IF grow THEN Trunc(seq + size) ELSE b.m_end
        buf   == IF grow THEN Resize(b.m_buf, Trunc(end - start)) ELSE b.m_buf
        pos   == Trunc(seq - start)
    IN  IF Beyond(buf, pos)
        THEN [b EXCEPT !.m_start = start, !.m_end = end, !.m_buf = buf,
                       !.threw = TRUE]
        ELSE [b EXCEPT !.m_start = start, !.m_end = end,
                       !.m_buf = Replace(buf, pos, data, size)]

\* Variants: m_end follows every segment, retransmissions included; and the
\* sum is truncated before it is compared.
insertData_EndFollows(b, seq, data, size) == Store(b, seq, data, size, TRUE)
insertData_WrapsFirst(b, seq, data, size) ==
    Store(b, seq, data, size, Trunc(seq + size) > b.m_end)

insertData(b, seq, data, size) == Store(b, seq, data, size, seq + size > b.m_end)

\* What dumpUnusedData hands out: the positions of m_buf from m_used to m_end.
UnusedFrom(b) == Trunc(b.m_used - b.m_start)
UnusedLen(b) == Trunc(Trunc(b.m_end - b.m_start) - UnusedFrom(b))
unusedData(b) ==
    [i \in {j \in DOMAIN b.m_buf : /\ j >= UnusedFrom(b)
                                   /\ j < UnusedFrom(b) + UnusedLen(b)}
        |-> b.m_buf[i]]

dumpUnusedData(b) ==
    IF Beyond(b.m_buf, UnusedFrom(b))
    THEN [b EXCEPT !.threw = TRUE]
    ELSE [b EXCEPT !.m_used = b.m_end]
=============================================================================
