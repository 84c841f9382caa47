----------------------------- MODULE HttpActive -----------------------------
(***************************************************************************)
(* Real-time URL blocking in killerfinder.  Requests of one connection      *)
(* arrive in segments; after each payload the capture thread gives what is  *)
(* new in the to-server buffer to http_parser, whose callbacks collect the  *)
(* URL and the Host header in members of CHttpTxnDecoder, look them up and  *)
(* set the session's block flag; blockMe then resets the connection if the  *)
(* flag is set.  On a parse error the decoder starts again from the first   *)
(* byte of the buffer, but it keeps the text it has collected.              *)
(*                                                                         *)
(* Text is a sequence of atoms (what find() and the comparisons tell        *)
(* apart); each atom is sent as one byte, so that a segment may end in the  *)
(* middle of any element.  Names of header fields are taken up to case.     *)
(* Request targets are in origin form, absolute form or "*".                *)
(*                                                                         *)
(* A byte that has not arrived is Hole.  http_parser rejects it everywhere  *)
(* except in a header value, where it is text like any other; from then on  *)
(* the parser reads a request that nobody sent, and the model stops.        *)
(***************************************************************************)
EXTENDS SegBuf, SequencesExt

CONSTANTS Streams,   \* the sequences of requests a client may send
          Dbs,       \* the databases CDBManager may have loaded
          Domains,   \* host atoms of two labels: "bad.com"
          Dotted,    \* host atoms that end in a dot: "www."
          Ports,     \* host atoms that start with a colon: ":80"
          MaxSeg,    \* largest payload of a segment
          Window,    \* how far from the first missing byte a segment may be
          MaxStale   \* bound on the restarts that find collected text

ASSUME ActiveAssumption == /\ MaxSeg \in Nat \ {0}
                           /\ Window \in Nat
                           /\ MaxStale \in Nat

VARIABLES stream,  \* the requests of this connection
          db,      \* CDBManager: m_httpMap by host name and by domain
          badIps,  \* CDBManager: which end points are in m_ip4Map
          b,       \* m_continuousSeg[DIRECTION_TO_SERVER]
          h,       \* CHttpTxnDecoder, its http_parser and m_shouldBlock
          pkt,     \* the source of the last packet
          got,     \* history: the offsets that have arrived
          stale    \* history: how many restarts have found collected text
vars == <<stream, db, badIps, b, h, pkt, got, stale>>

Client == "client"
Server == "server"

-----------------------------------------------------------------------------
(* The requests as bytes *)

Host == <<"ho", "st">>

Byte(kind, atom) == [k |-> kind, v |-> atom]
Text(kind, atoms) == [i \in 1 .. Len(atoms) |-> Byte(kind, atoms[i])]

RequestLine(r) == <<Byte("method", r.method)>> \o Text("url", r.url)
                      \o <<Byte("http", "")>>
HeaderLine(f) == Text("field", f.name) \o <<Byte("colon", "")>>
                     \o Text("value", f.value) \o <<Byte("cr", "")>>
HeaderLines(r, n) == FlattenSeq([i \in 1 .. n |-> HeaderLine(r.fields[i])])
Request(r) == RequestLine(r) \o HeaderLines(r, Len(r.fields))
                  \o <<Byte("end", "")>>
Bytes(requests) ==
    FlattenSeq([i \in 1 .. Len(requests) |-> Request(requests[i])])

\* What the client sends, byte by byte.
Wire == [requests \in Streams |-> Bytes(requests)]

-----------------------------------------------------------------------------
(* CDBManager *)

Find(map, key) == IF key \in DOMAIN map THEN map[key] ELSE "end"

\* host.substr(0, host.find(":"))
WithoutPort(host) ==
    LET p == SelectInSeq(host, LAMBDA a : a \in Ports)
    IN  IF p = 0 THEN host ELSE SubSeq(host, 1, p - 1)

HasTwoLabels(host) ==
    \E i \in 1 .. Len(host) : host[i] \in Domains \cup Dotted

\* The last two labels: the last atom, unless it is run together with the
\* atom before it.
DomainOf(host) ==
    LET n == Len(host)
    IN  IF /\ host[n] \in Domains
           /\ n = 1 \/ host[n - 1] \in Dotted
        THEN <<host[n]>>
        ELSE host

\* The first of the three look-ups that finds "1" or "0" answers; failing
\* that, `hit' is what the last look-up left in it.  (Every caller's path
\* starts with "/", so that none is put before it.)
isUrlHit(prot, host, path) ==
    LET host_   == WithoutPort(host)
        answers == <<Find(db.hostname, host_ \o path), Find(db.hostname, host_)>>
                       \o (IF HasTwoLabels(host_)
                           THEN <<Find(db.domain, DomainOf(host_))>>
                           ELSE <<>>)
        clear   == SelectInSeq(answers, LAMBDA a : a \in {"0", "1"})
    IN  /\ prot \in {<<"http">>, <<"https">>, <<"ftp">>}
        /\ IF clear # 0 THEN answers[clear] = "1" ELSE Last(answers) # "end"

-----------------------------------------------------------------------------
(* The callbacks of http_parser, in real-time mode.  `final' is the test of  *)
(* p->state: the element is complete.                                       *)

FindIn(text, atom) == SelectInSeq(text, LAMBDA a : a = atom)

\* substr(find("/")), or "/" when there is none.
PathIn(text) ==
    LET p == FindIn(text, "/")
    IN  IF p = 0 THEN <<"/">> ELSE SubSeq(text, p, Len(text))

\* Variant: the method is noted only when the URL came in one piece.
requestUrlCb_OnePiece(d, frag, final) ==
    [d EXCEPT !.m_url = @ \o frag,
              !.m_activeMethod = IF final /\ d.m_url = <<>> THEN d.method ELSE @]

requestUrlCb(d, frag, final) ==
    [d EXCEPT !.m_url = @ \o frag,
              !.m_activeMethod = IF final THEN d.method ELSE @]

headerFieldCb(d, frag, final) ==
    LET field == d.m_hostField \o frag
    IN  [d EXCEPT !.m_hostField =
             IF final /\ field # Host THEN <<>> ELSE field]

\* A target that has no scheme and does not start with "/": npos + 3 is 2,
\* and substr(2) throws when the target is shorter.
Throws(url) == Len(url) < 2 /\ url # <<"/">>

headerValueCb(d, frag, final) ==
    LET value  == d.m_hostValue \o frag
        url    == d.m_url
        scheme == FindIn(url, "://")
        prot   == IF scheme = 0 THEN <<"http">> ELSE SubSeq(url, 1, scheme - 1)
        path   == IF url[1] = "/" THEN url
                  ELSE PathIn(SubSeq(url, (IF scheme = 0 THEN 2 ELSE scheme) + 1,
                                     Len(url)))
    IN  IF d.m_hostField # Host THEN d
        ELSE IF ~final THEN [d EXCEPT !.m_hostValue = value]
        ELSE IF Throws(url) THEN [d EXCEPT !.m_hostValue = value, !.threw = TRUE]
        ELSE [d EXCEPT !.m_hostValue = value,
                       !.m_shouldBlock = isUrlHit(prot, value, path)]

\* A request without a Host header is looked up by its absolute URL.
Decided(d) ==
    LET scheme == FindIn(d.m_url, "://")
        rest   == SubSeq(d.m_url, scheme + 1, Len(d.m_url))
        slash  == FindIn(rest, "/")
    IN  IF d.m_hostValue = <<>> /\ scheme # 0
        THEN isUrlHit(SubSeq(d.m_url, 1, scheme - 1),
                      IF slash = 0 THEN rest ELSE SubSeq(rest, 1, slash - 1),
                      PathIn(rest))
        ELSE d.m_shouldBlock

\* Variant: the host value is not cleared for the next request.
headersCompleteCb_KeepsHost(d) ==
    [d EXCEPT !.m_shouldBlock = Decided(d),
              !.m_hostField = <<>>, !.m_url = <<>>]

headersCompleteCb(d) ==
    [d EXCEPT !.m_shouldBlock = Decided(d),
              !.m_hostField = <<>>, !.m_hostValue = <<>>, !.m_url = <<>>]

-----------------------------------------------------------------------------
(* http_parser_execute, on bytes that follow what it was given before.      *)

Enter(d, state, frag) == [d EXCEPT !.state = state, !.frag = frag]

\* A byte that has arrived.  `frag' is the text since the mark of the element
\* that is being read.
ParseText(d, byte) ==
    LET next == Enter(d, byte.k, <<>>)
    IN  CASE byte.k = "method" -> [next EXCEPT !.method = byte.v]
          [] byte.k \in {"url", "field", "value"} ->
                [next EXCEPT !.frag = Append(d.frag, byte.v)]
          [] byte.k = "http"  -> requestUrlCb(next, d.frag, TRUE)
          [] byte.k = "colon" -> headerFieldCb(next, d.frag, TRUE)
          [] byte.k = "cr"    -> headerValueCb(next, d.frag, TRUE)
          [] byte.k = "end"   -> headersCompleteCb(next)

ParseByte(d, byte) ==
    IF d.err \/ d.threw \/ d.swallowed THEN d
    ELSE IF byte # Hole THEN ParseText(d, byte)
    ELSE IF d.state \in {"colon", "value"} THEN [d EXCEPT !.swallowed = TRUE]
    ELSE [d EXCEPT !.err = TRUE]

\* The end of the chunk: the fragment of the element being read is handed out.
\* An error drops it; no bytes at all are an error in the middle of a request.
EndOfChunk(d) ==
    LET next == Enter(d, d.state, <<>>)
    IN  CASE d.err \/ d.threw \/ d.swallowed -> next
          [] d.state = "url"   -> requestUrlCb(next, d.frag, FALSE)
          [] d.state = "field" -> headerFieldCb(next, d.frag, FALSE)
          [] d.state = "value" -> headerValueCb(next, d.frag, FALSE)
          [] OTHER -> next

parserExecute(d, chunk) ==
    IF chunk = <<>>
    THEN [d EXCEPT !.err = (d.state # "end")]
    ELSE EndOfChunk(FoldLeft(ParseByte, d, chunk))

\* memset and http_parser_init: the collected text is not the parser's.
parserInit(d) == [d EXCEPT !.state = "end", !.frag = <<>>, !.method = "0",
                           !.err = FALSE]

CHttpTxnDecoder ==
    [state |-> "end", frag |-> <<>>, method |-> "0", err |-> FALSE,
     m_url |-> <<>>, m_hostField |-> <<>>, m_hostValue |-> <<>>,
     m_activeMethod |-> "0", m_shouldBlock |-> FALSE,
     threw |-> FALSE, swallowed |-> FALSE]

-----------------------------------------------------------------------------
(* The capture thread *)

blockMe(d, src) == [d EXCEPT !.m_shouldBlock = @ \/ src \in badIps]

\* The SYN creates the session, with its decoder and its buffer.
Init ==
    /\ stream \in Streams
    /\ db \in Dbs
    /\ badIps \in SUBSET {Client, Server}
    /\ b = setUsedPos(setStartSeq(CTcpSegBuf, 1), 0)
    /\ h = blockMe(parserInit(CHttpTxnDecoder), Client)
    /\ pkt = Client
    /\ got = {}
    /\ stale = 0

Ended == h.threw \/ h.swallowed

\* The first byte that is missing.
Prefix == CHOOSE n \in 0 .. Len(Wire[stream]) :
              n \notin got /\ \A i \in 0 .. n - 1 : i \in got

Unused(stored) ==
    LET data == unusedData(stored)
    IN  [i \in 1 .. UnusedLen(stored) |-> data[UnusedFrom(stored) + i - 1]]

Collected(d) == <<d.m_url, d.m_hostField, d.m_hostValue>> # <<<<>>, <<>>, <<>>>>

\* decodeHttpActive, and the blockMe that processL5 calls next.
decodeHttpActive(stored) ==
    LET d == parserExecute(h, Unused(stored))
    IN  /\ b' = IF d.err THEN setUsedPos(dumpUnusedData(stored), 0)
                         ELSE dumpUnusedData(stored)
        /\ h' = blockMe(IF d.err THEN parserInit(d) ELSE d, Client)
        /\ stale' = IF d.err /\ Collected(d) THEN stale + 1 ELSE stale

\* The start of the to-server buffer is known from the SYN, so that insertData
\* does not throw (AnyOrderFaithful of Reassembly).
Stored(off, len) ==
    insertData(b, b.m_start + off,
               [i \in 0 .. len - 1 |-> Wire[stream][off + i + 1]], len)

\* A packet of the client with len bytes of the requests, from offset off.
Segment(off, len) ==
    /\ ~Ended
    /\ stale < MaxStale
    /\ off + len <= Len(Wire[stream])
    /\ Prefix - Window <= off /\ off + len <= Prefix + Window
    /\ decodeHttpActive(Stored(off, len))
    /\ got' = got \cup (off .. off + len - 1)
    /\ pkt' = Client
    /\ UNCHANGED <<stream, db, badIps>>

\* Any other packet that is not a pure ACK: a reply, a FIN.
OtherPacket(src) ==
    /\ ~Ended
    /\ h' = blockMe(h, src)
    /\ pkt' = src
    /\ UNCHANGED <<stream, db, badIps, b, got, stale>>

Next ==
    \/ \E off \in 0 .. Len(Wire[stream]) - 1, len \in 1 .. MaxSeg : Segment(off, len)
    \/ \E src \in {Client, Server} : OtherPacket(src)

Spec == Init /\ [][Next]_vars

-----------------------------------------------------------------------------
(* What the decisions should be.  A request also says what it asks for: its *)
(* host (without a port), domain and path.                                  *)

\* The most specific entry of the database that says "1" or "0" decides.
Verdict(r) ==
    LET entries == <<Find(db.hostname, r.host \o r.path),
                     Find(db.hostname, r.host), Find(db.domain, r.domain)>>
    IN  \E i \in 1 .. 3 : /\ entries[i] = "1"
                          /\ \A j \in 1 .. i - 1 : entries[j] # "0"

Start(k) == Len(Bytes(SubSeq(stream, 1, k - 1)))

\* Where request k has shown its URL, and where it has shown its host.
UrlShown(k) == Start(k) + Len(RequestLine(stream[k]))
HostShown(k) ==
    LET r == stream[k]
        f == SelectInSeq(r.fields, LAMBDA x : x.name = Host)
    IN  IF f = 0 THEN Start(k) + Len(Request(r))
        ELSE UrlShown(k) + Len(HeaderLines(r, f))

\* The last request that shows it in the bytes that have arrived without a gap.
LastShown(At(_)) == SelectLastInSeq([k \in 1 .. Len(stream) |-> At(k)],
                                    LAMBDA n : n <= Prefix)

\* The connection is reset on the verdict of the last request whose host is
\* known from the bytes without a gap, however the requests are cut into
\* segments, and with gaps and repetitions, as long as no restart of the
\* decoder found text of a request half read.  A packet from a listed address
\* is always reset.
ResetRight ==
    ~Ended =>
        /\ pkt \in badIps => h.m_shouldBlock
        /\ stale = 0 /\ badIps = {} =>
               LET k == LastShown(HostShown)
               IN  h.m_shouldBlock = (k # 0 /\ Verdict(stream[k]))

\* The method by which the decode thread later decides whether the session is
\* worth decoding is that of the last request whose URL is complete in the
\* bytes without a gap: no restart loses it or takes it back, whatever text
\* was left over.
MethodKnown ==
    ~Ended =>
        LET k == LastShown(UrlShown)
        IN  h.m_activeMethod = IF k = 0 THEN "0" ELSE stream[k].method
=============================================================================
