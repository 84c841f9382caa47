---------------------------- MODULE KillerFinder ----------------------------
(***************************************************************************)
(* The killerfinder process: its main thread, the packet-capture thread that *)
(* builds TCP sessions, and the decode thread that takes closed sessions     *)
(* from CTcpSessionPool, decodes them and deletes them.                      *)
(*                                                                         *)
(* m_activeSessMap belongs to the capture thread alone and has no lock.      *)
(* m_closedSessList is shared and every access to it is under m_lock; the    *)
(* one logging read of its size without the lock (printMe) is left out.      *)
(* A session object changes hands when its pointer is pushed on that list,   *)
(* while the map still holds the pointer until the erase that follows.       *)
(*                                                                         *)
(* Of a session this module keeps its TCP state and the time of its last     *)
(* packet.  Payload bytes are SegBuf and Reassembly; the block flag and the  *)
(* RST packets that blockMe sends do not touch the pool.                     *)
(***************************************************************************)
EXTENDS TcpSession, Sequences

CONSTANTS Ids,          \* connections (CTcpSessionId, equal in both directions)
          NoId,         \* no map entry in hand
          Seen,         \* the packets that occur
          MaxSess,      \* bound: sessions created in a run
          PacketNum,    \* m_packetNum: packets until pcap_loop returns
          MaxTime,      \* bound: last packet timestamp
          Timeout,      \* 60 seconds without a packet
          SweepPeriod,  \* 10: sweeps happen in seconds that are multiples of it
          SweepMax      \* 10: `++num > 10' ends a sweep

ASSUME ConstantsAssumption ==
    /\ NoId \notin Ids
    /\ Seen \subseteq Packets
    /\ MaxSess \in Nat \ {0} /\ PacketNum \in Nat /\ MaxTime \in Nat
    /\ Timeout \in Nat /\ SweepPeriod \in Nat \ {0} /\ SweepMax \in Nat

VARIABLES
    packets,     \* packets pcap_loop has handled
    now,         \* timestamp of the last one
    m_index,     \* sessions created so far; a session is its number
    active,      \* m_activeSessMap: a session for each connection, or NULL
    sm,          \* m_tcpState of each session
    lastUpdate,  \* m_lastUpdateTime of each session
    closed,      \* m_closedSessList
    freed,       \* sessions that were deleted
    lock,        \* holder of m_lock
    capPc,       \* where the capture thread is
    capId,       \* `it': the map entry it is posting
    sweeping,    \* whether it is inside postTimeoutSessions
    left,        \* entries that sweep has not visited
    num,         \* sessions that sweep has posted
    decPc,       \* where the decode thread is
    sess,        \* the session it holds
    m_isRunning, \* CTxnDecodeThread::m_isRunning
    mainPc,      \* where the main thread is
    dead         \* exit(), an uncaught exception or a crash ended the process

NULL == 0
Sessions == 1 .. MaxSess

poolVars == <<m_index, active, sm, lastUpdate>>
capVars == <<packets, now, capPc, capId, sweeping, left, num>>
decVars == <<decPc, sess, freed>>
vars == <<packets, now, m_index, active, sm, lastUpdate, closed, freed, lock,
          capPc, capId, sweeping, left, num, decPc, sess, m_isRunning, mainPc,
          dead>>

Init ==
    /\ packets = 0 /\ now = 0 /\ m_index = 0
    /\ active = [id \in Ids |-> NULL]
    /\ sm = [s \in Sessions |-> "HANDSHAKE"]
    /\ lastUpdate = [s \in Sessions |-> 0]
    /\ closed = <<>> /\ freed = {} /\ lock = "free"
    /\ capPc = "none" /\ capId = NoId /\ sweeping = FALSE /\ left = {} /\ num = 0
    /\ decPc = "none" /\ sess = NULL
    /\ m_isRunning = FALSE /\ mainPc = "start_decode" /\ dead = FALSE

\* The process is there: main has not returned and nothing has ended it.
Alive == ~dead /\ mainPc # "done"

-----------------------------------------------------------------------------
(* CMain::Main and the two start() functions                               *)

\* CTxnDecodeThread::start creates the thread first and sets the flag after.
StartDecode ==
    /\ Alive /\ mainPc = "start_decode"
    /\ \/ decPc' = "outer" /\ mainPc' = "set_running"
       \/ decPc' = decPc /\ mainPc' = "start_capture"  \* pthread_create failed
    /\ UNCHANGED <<poolVars, capVars, sess, freed, closed, lock, m_isRunning, dead>>

SetRunning ==
    /\ Alive /\ mainPc = "set_running"
    /\ m_isRunning' = TRUE
    /\ mainPc' = "start_capture"
    /\ UNCHANGED <<poolVars, capVars, decVars, closed, lock, dead>>

StartCapture ==
    /\ Alive /\ mainPc = "start_capture"
    /\ \/ capPc' = "open"
       \/ capPc' = capPc                               \* pthread_create failed
    /\ mainPc' = "join_capture"
    /\ UNCHANGED <<poolVars, decVars, closed, lock, packets, now, capId, sweeping,
                   left, num, m_isRunning, dead>>

\* pthread_join; the join of a thread that was never created uses an
\* uninitialized m_pid: it fails at once or crashes.
Join(pc, next) ==
    /\ Alive
    /\ \/ pc \in {"out", "none"} /\ mainPc' = next /\ dead' = dead
       \/ pc = "none" /\ mainPc' = mainPc /\ dead' = TRUE
    /\ UNCHANGED <<poolVars, capVars, decVars, closed, lock, m_isRunning>>

\* Variant: the decode thread is told to stop before capture has ended.
JoinCapture_NoWait == mainPc = "join_capture" /\ Join("out", "stop")

JoinCapture == mainPc = "join_capture" /\ Join(capPc, "stop")
JoinDecode == mainPc = "join_decode" /\ Join(decPc, "done")

\* Variant: stop() leaves the flag as it is.
StopDecode_NoFlag ==
    /\ Alive /\ mainPc = "stop"
    /\ mainPc' = "join_decode"
    /\ UNCHANGED <<poolVars, capVars, decVars, closed, lock, m_isRunning, dead>>

StopDecode ==
    /\ Alive /\ mainPc = "stop"
    /\ m_isRunning' = FALSE
    /\ mainPc' = "join_decode"
    /\ UNCHANGED <<poolVars, capVars, decVars, closed, lock, dead>>

Main == StartDecode \/ SetRunning \/ StartCapture \/ JoinCapture \/ StopDecode
        \/ JoinDecode

-----------------------------------------------------------------------------
(* CPacketCaptureThread and CPacketHandler::processL5                      *)

Capture(pc) == Alive /\ capPc = pc

\* pcap_open_*, pcap_compile, pcap_setfilter: a failure is exit(EXIT_FAILURE).
OpenDevice ==
    /\ Capture("open")
    /\ \/ capPc' = "loop" /\ dead' = dead
       \/ capPc' = capPc /\ dead' = TRUE
    /\ UNCHANGED <<poolVars, decVars, closed, lock, packets, now, capId, sweeping,
                   left, num, m_isRunning, mainPc>>

\* pcap_loop calls back with a packet stamped t, or returns: at the end of an
\* offline file, on an error, or when PacketNum packets have been handled.
NextPacket(t) ==
    /\ Capture("loop")
    /\ packets < PacketNum
    /\ packets' = packets + 1
    /\ t \in now .. MaxTime
    /\ now' = t

EndOfCapture ==
    /\ Capture("loop")
    /\ capPc' = "out"
    /\ UNCHANGED <<poolVars, decVars, closed, lock, packets, now, capId, sweeping,
                   left, num, m_isRunning, mainPc, dead>>

\* No session for the connection, and the packet is a SYN: createSession.
CreateSession(id, p, t) ==
    /\ NextPacket(t)
    /\ active[id] = NULL
    /\ p.syn /\ ~p.ack
    /\ m_index < MaxSess
    /\ m_index' = m_index + 1
    /\ active' = [active EXCEPT ![id] = m_index + 1]
    /\ sm' = [sm EXCEPT ![m_index + 1] = "HANDSHAKE"]
    /\ lastUpdate' = [lastUpdate EXCEPT ![m_index + 1] = t]
    /\ UNCHANGED <<decVars, closed, lock, capPc, capId, sweeping, left, num,
                   m_isRunning, mainPc, dead>>

\* No session, and the packet is not a SYN: "drop it".
DropPacket(id, p, t) ==
    /\ NextPacket(t)
    /\ active[id] = NULL
    /\ ~p.syn \/ p.ack
    /\ UNCHANGED <<poolVars, decVars, closed, lock, capPc, capId, sweeping, left,
                   num, m_isRunning, mainPc, dead>>

\* An acknowledgement only refreshes the session; in a second that is a
\* multiple of SweepPeriod it starts postTimeoutSessions.
AckPacket(id, p, t) ==
    /\ NextPacket(t)
    /\ active[id] # NULL
    /\ isAckPacket(p)
    /\ lastUpdate' = [lastUpdate EXCEPT ![active[id]] = t]
    /\ IF t % SweepPeriod = 0
       THEN /\ capPc' = "sweep" /\ sweeping' = TRUE /\ num' = 0
            /\ left' = {i \in Ids : active[i] # NULL}
       ELSE UNCHANGED <<capPc, sweeping, left, num>>
    /\ UNCHANGED <<decVars, closed, lock, m_index, active, sm, capId,
                   m_isRunning, mainPc, dead>>

\* Variant: a session that becomes closed is not posted.
UpdateSession_NoPost(id, p, t) ==
    /\ NextPacket(t)
    /\ active[id] # NULL
    /\ ~isAckPacket(p)
    /\ lastUpdate' = [lastUpdate EXCEPT ![active[id]] = t]
    /\ sm' = [sm EXCEPT ![active[id]] = updateMe(sm[active[id]], p)]
    /\ UNCHANGED <<decVars, closed, lock, m_index, active, capPc, capId, sweeping,
                   left, num, m_isRunning, mainPc, dead>>

\* Any other packet updates the session; if that closes it, it is posted.
UpdateSession(id, p, t) ==
    /\ NextPacket(t)
    /\ active[id] # NULL
    /\ ~isAckPacket(p)
    /\ lastUpdate' = [lastUpdate EXCEPT ![active[id]] = t]
    /\ IF isClosed(sm[active[id]])
       THEN UNCHANGED <<sm, capPc, capId>>           \* dropped
       ELSE LET new == updateMe(sm[active[id]], p)
            IN  /\ sm' = [sm EXCEPT ![active[id]] = new]
                /\ IF isClosed(new)
                   THEN capPc' = "lock" /\ capId' = id
                   ELSE UNCHANGED <<capPc, capId>>
    /\ UNCHANGED <<decVars, closed, lock, m_index, active, sweeping, left, num,
                   m_isRunning, mainPc, dead>>

\* insertData throws out_of_range (see Reassembly): nothing catches it.
PayloadThrows(id, p, t) ==
    /\ NextPacket(t)
    /\ active[id] # NULL
    /\ ~p.syn /\ p.data /\ ~isClosed(sm[active[id]])
    /\ dead' = TRUE
    /\ UNCHANGED <<poolVars, decVars, closed, lock, capPc, capId, sweeping, left,
                   num, m_isRunning, mainPc>>

\* Variant: a session that is exactly as old as the timeout has expired.
Expired_AtTimeout(id) == lastUpdate[active[id]] + Timeout <= now

\* postTimeoutSessions visits the map's entries in the order of the hash table.
Expired(id) == lastUpdate[active[id]] + Timeout < now

SweepVisit(id) ==
    /\ Capture("sweep")
    /\ id \in left
    /\ IF Expired(id)
       THEN capPc' = "lock" /\ capId' = id /\ left' = left
       ELSE left' = left \ {id} /\ UNCHANGED <<capPc, capId>>
    /\ UNCHANGED <<poolVars, decVars, closed, lock, packets, now, sweeping, num,
                   m_isRunning, mainPc, dead>>

SweepEnd ==
    /\ Capture("sweep")
    /\ left = {}
    /\ capPc' = "loop" /\ sweeping' = FALSE /\ num' = 0
    /\ UNCHANGED <<poolVars, decVars, closed, lock, packets, now, capId, left,
                   m_isRunning, mainPc, dead>>

\* Posting, by postSession or by a sweep: m_lock.lock() ...
PostLock ==
    /\ Capture("lock")
    /\ lock = "free"
    /\ lock' = "capture"
    /\ capPc' = "push"
    /\ UNCHANGED <<poolVars, decVars, closed, packets, now, capId, sweeping, left,
                   num, m_isRunning, mainPc, dead>>

\* ... push_back and m_lock.unlock() ...
PostPush ==
    /\ Capture("push")
    /\ closed' = Append(closed, active[capId])
    /\ lock' = "free"
    /\ capPc' = "erase"
    /\ UNCHANGED <<poolVars, decVars, packets, now, capId, sweeping, left, num,
                   m_isRunning, mainPc, dead>>

\* Variant: the entry stays in the map.
PostErase_KeepsEntry ==
    /\ Capture("erase")
    /\ capPc' = "loop" /\ capId' = NoId
    /\ sweeping' = FALSE /\ num' = 0 /\ left' = {}
    /\ UNCHANGED <<poolVars, decVars, closed, lock, packets, now, m_isRunning,
                   mainPc, dead>>

\* ... and m_activeSessMap.erase(it).
PostErase ==
    /\ Capture("erase")
    /\ active' = [active EXCEPT ![capId] = NULL]
    /\ capId' = NoId
    /\ IF sweeping /\ num + 1 <= SweepMax
       THEN /\ capPc' = "sweep" /\ sweeping' = TRUE
            /\ num' = num + 1 /\ left' = left \ {capId}
       ELSE capPc' = "loop" /\ sweeping' = FALSE /\ num' = 0 /\ left' = {}
    /\ UNCHANGED <<decVars, closed, lock, packets, now, m_index, sm, lastUpdate,
                   m_isRunning, mainPc, dead>>

HandlePacket(id, p, t) ==
    \/ CreateSession(id, p, t) \/ DropPacket(id, p, t) \/ AckPacket(id, p, t)
    \/ UpdateSession(id, p, t) \/ PayloadThrows(id, p, t)

\* What the capture thread does by itself once it has been given a packet.
CaptureWork ==
    OpenDevice \/ (\E id \in Ids : SweepVisit(id)) \/ SweepEnd \/ PostLock
    \/ PostPush \/ PostErase

CaptureThread ==
    \/ CaptureWork \/ EndOfCapture
    \/ \E id \in Ids, p \in Seen, t \in now .. MaxTime : HandlePacket(id, p, t)

-----------------------------------------------------------------------------
(* CTxnDecodeThread::threadMain and popClosedSession                       *)

Decode(pc) == Alive /\ decPc = pc

\* while (m_isRunning)
DecodeTest ==
    /\ Decode("outer")
    /\ decPc' = IF m_isRunning THEN "lock" ELSE "out"
    /\ UNCHANGED <<poolVars, capVars, closed, lock, sess, freed, m_isRunning,
                   mainPc, dead>>

PopLock ==
    /\ Decode("lock")
    /\ lock = "free"
    /\ lock' = "decode"
    /\ decPc' = "pop"
    /\ UNCHANGED <<poolVars, capVars, closed, sess, freed, m_isRunning, mainPc, dead>>

\* Variants: front() without pop_front(); the newest session first; and the
\* last session of the list left in it.
PopClosed_Peek ==
    /\ Decode("pop")
    /\ lock' = "free"
    /\ IF closed = <<>>
       THEN decPc' = "outer" /\ sess' = sess
       ELSE decPc' = "decode" /\ sess' = Head(closed)
    /\ UNCHANGED <<poolVars, capVars, closed, freed, m_isRunning, mainPc, dead>>
PopClosed_Newest ==
    /\ Decode("pop")
    /\ lock' = "free"
    /\ IF closed = <<>>
       THEN decPc' = "outer" /\ UNCHANGED <<closed, sess>>
       ELSE /\ decPc' = "decode" /\ sess' = closed[Len(closed)]
            /\ closed' = SubSeq(closed, 1, Len(closed) - 1)
    /\ UNCHANGED <<poolVars, capVars, freed, m_isRunning, mainPc, dead>>
PopClosed_KeepsOne ==
    /\ Decode("pop")
    /\ lock' = "free"
    /\ IF Len(closed) <= 1
       THEN decPc' = "outer" /\ UNCHANGED <<closed, sess>>
       ELSE decPc' = "decode" /\ sess' = Head(closed) /\ closed' = Tail(closed)
    /\ UNCHANGED <<poolVars, capVars, freed, m_isRunning, mainPc, dead>>

\* An empty list makes popClosedSession return NULL and ends the inner loop.
PopClosed ==
    /\ Decode("pop")
    /\ lock' = "free"
    /\ IF closed = <<>>
       THEN decPc' = "outer" /\ UNCHANGED <<closed, sess>>
       ELSE decPc' = "decode" /\ sess' = Head(closed) /\ closed' = Tail(closed)
    /\ UNCHANGED <<poolVars, capVars, freed, m_isRunning, mainPc, dead>>

\* The HTTP or SMTP decoder works on the session and saves its files; the SMTP
\* decoder rethrows what the MIME parser throws, and nothing catches it.
DecodeSession ==
    /\ Decode("decode")
    /\ \/ decPc' = "delete" /\ dead' = dead
       \/ decPc' = decPc /\ dead' = TRUE
    /\ UNCHANGED <<poolVars, capVars, closed, lock, sess, freed, m_isRunning, mainPc>>

DeleteSession ==
    /\ Decode("delete")
    /\ freed' = freed \cup {sess}
    /\ sess' = NULL
    /\ decPc' = "lock"
    /\ UNCHANGED <<poolVars, capVars, closed, lock, m_isRunning, mainPc, dead>>

DecodeThread == DecodeTest \/ PopLock \/ PopClosed \/ DecodeSession \/ DeleteSession

-----------------------------------------------------------------------------
\* The process has ended.
Ended == ~Alive /\ UNCHANGED vars

Next == Main \/ CaptureThread \/ DecodeThread \/ Ended

Spec == Init /\ [][Next]_vars

\* The scheduler runs every thread that can run.  Nothing makes a packet arrive
\* or pcap_loop return: a live capture may wait for ever.
Fairness == WF_vars(Main) /\ WF_vars(CaptureWork) /\ WF_vars(DecodeThread)
FairSpec == Spec /\ Fairness

-----------------------------------------------------------------------------
(* Properties                                                              *)

CapturePcs == {"none", "open", "loop", "sweep", "lock", "push", "erase", "out"}
DecodePcs == {"none", "outer", "lock", "pop", "decode", "delete", "out"}
MainPcs == {"start_decode", "set_running", "start_capture", "join_capture",
            "stop", "join_decode", "done"}

\* The types of the variables; m_lock is held exactly by the thread that is
\* inside a critical section.
TypeOK ==
    /\ packets \in 0 .. PacketNum /\ now \in 0 .. MaxTime /\ m_index \in 0 .. MaxSess
    /\ active \in [Ids -> 0 .. MaxSess]
    /\ sm \in [Sessions -> TcpStates]
    /\ lastUpdate \in [Sessions -> 0 .. MaxTime]
    /\ closed \in Seq(Sessions) /\ freed \subseteq Sessions
    /\ lock \in {"free", "capture", "decode"}
    /\ lock = "capture" <=> capPc = "push"
    /\ lock = "decode" <=> decPc = "pop"
    /\ capPc \in CapturePcs /\ capId \in Ids \cup {NoId}
    /\ capId \in Ids <=> capPc \in {"lock", "push", "erase"}
    /\ sweeping \in BOOLEAN /\ left \subseteq Ids /\ num \in 0 .. SweepMax
    /\ decPc \in DecodePcs /\ sess \in 0 .. MaxSess
    /\ sess # NULL <=> decPc \in {"decode", "delete"}
    /\ m_isRunning \in BOOLEAN /\ mainPc \in MainPcs /\ dead \in BOOLEAN

\* The places a session can be.  A map entry whose pointer has been pushed and
\* that is about to be erased no longer counts.
InMap(s) == \E id \in Ids : active[id] = s /\ ~(capPc = "erase" /\ capId = id)
InClosed(s) == \E i \in 1 .. Len(closed) : closed[i] = s

Placed ==
    \A s \in Sessions :
        /\ s <= m_index => InMap(s) \/ InClosed(s) \/ sess = s \/ s \in freed
        /\ InMap(s) => s <= m_index /\ ~InClosed(s) /\ sess # s /\ s \notin freed
        /\ InClosed(s) => s <= m_index /\ sess # s /\ s \notin freed
        /\ sess = s => s <= m_index /\ s \notin freed
        /\ s \in freed => s <= m_index
ListedOnce == \A i, j \in 1 .. Len(closed) : closed[i] = closed[j] => i = j
MappedOnce == \A i, j \in Ids : active[i] = active[j] /\ active[i] # NULL => i = j

\* Every session that was created is in exactly one place, once: the active
\* map, the closed list, the decode thread's hands, or deleted.  So none is
\* leaked, decoded twice or deleted twice, in spite of the window between
\* push_back and erase in postSession and postTimeoutSessions.
OnePlace == Placed /\ ListedOnce /\ MappedOnce

\* The pool as its users see it: a pointer leaves the map's side when it is
\* pushed, not when its entry is erased.
Building == {s \in Sessions : InMap(s)}
Handoff == INSTANCE SessionHandoff
    WITH Limit <- MaxSess, created <- m_index, building <- Building,
         queue <- closed, decoding <- (IF sess = NULL THEN {} ELSE {sess}),
         deleted <- freed

\* The two threads implement the hand-over that the pool promises: first
\* posted is first decoded, each session once.
HandoffSpec == Handoff!Spec

\* The pointers the capture thread dereferences, through findActiveSession when
\* a packet arrives and in a sweep, are to sessions it still owns: the decode
\* thread neither has them nor has deleted them.
CaptureOwns ==
    \A id \in Ids :
        LET s == active[id]
        IN  \/ s = NULL
            \/ capPc = "erase" /\ capId = id
            \/ ~InClosed(s) /\ sess # s /\ s \notin freed

\* Between packets no session in the map is closed: the branch of processL5
\* that drops data for a closed session is never taken.
NoClosedActive ==
    capPc = "loop" => \A id \in Ids : active[id] # NULL => ~isClosed(sm[active[id]])

\* A session is handed to the decode thread only when its TCP connection is
\* closed or has been silent for more than the timeout: in particular a sweep
\* never posts the session whose packet started it.
ClosedOrSilent ==
    \A i \in 1 .. Len(closed) :
        isClosed(sm[closed[i]]) \/ lastUpdate[closed[i]] + Timeout < now

\* Unless it looks at m_isRunning before start() has set it, the decode thread
\* does not end before the capture thread has: no session is posted to a list
\* that nobody will read, except in the last moments of the process.
DecoderOutlivesCapture ==
    [][decPc = "outer" /\ decPc' = "out" /\ mainPc # "set_running"
        => capPc \in {"none", "out"}]_vars

\* Every posted session is decoded and deleted even if no packet ever comes
\* again, unless the process ends or there is no decode thread (it could not be
\* created, or has ended).
PostedIsDecoded ==
    \A s \in Sessions : InClosed(s) ~> s \in freed \/ ~Alive \/ decPc \in {"none", "out"}

\* When the capture is over the process ends: the decode thread works off what
\* it has, sees the flag and can be joined.
Terminates ==
    mainPc = "join_capture" /\ capPc \in {"none", "out"} ~> ~Alive

\* What CTxnDecodeThread::start logs when it returns: "decoder thread works
\* now".  From then until stop() the thread has not ended.
DecoderWorks ==
    mainPc \in {"start_capture", "join_capture"} /\ m_isRunning => decPc # "out"
=============================================================================
