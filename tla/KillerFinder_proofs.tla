------------------------- MODULE KillerFinder_proofs -------------------------
(***************************************************************************)
(* Proofs about KillerFinder, for any number of connections, sessions and    *)
(* packets, any timeout and any limits of a sweep.                           *)
(***************************************************************************)
EXTENDS KillerFinder, TLAPS

\* A thread that has not been started is nowhere.
Startup ==
    /\ mainPc = "start_decode" => decPc = "none"
    /\ mainPc \in {"start_decode", "set_running", "start_capture"} => capPc = "none"

\* What the capture thread relies on while it posts: the entry it is about to
\* push, and the entries its sweep has still to visit, are there.
Posting ==
    /\ capPc \in {"lock", "push"} => active[capId] # NULL
    /\ \A id \in left : active[id] # NULL

TypeInv == TypeOK /\ Startup /\ Posting

\* The TCP state machine stays within its states.
LEMMA UpdateType ==
    ASSUME NEW s \in TcpStates, NEW p \in Packets
    PROVE  updateMe(s, p) \in TcpStates
BY DEF TcpStates, Packets, Directions, updateMe, finishMe, AfterPayload, AfterFin,
       Sending, Finished, ToServer, ToClient

LEMMA TypeInit == Init => TypeInv
<1> SUFFICES ASSUME Init PROVE TypeInv
    OBVIOUS
<1> USE ConstantsAssumption DEF Init
<1>1. /\ active \in [Ids -> 0 .. MaxSess]
      /\ sm \in [Sessions -> TcpStates]
      /\ lastUpdate \in [Sessions -> 0 .. MaxTime]
    BY DEF NULL, Sessions, TcpStates
<1>2. closed \in Seq(Sessions) /\ sess \in 0 .. MaxSess /\ m_index \in 0 .. MaxSess
    BY DEF NULL
<1>3. num \in 0 .. SweepMax /\ packets \in 0 .. PacketNum /\ now \in 0 .. MaxTime
    OBVIOUS
<1>4. TypeOK BY <1>1, <1>2, <1>3 DEF TypeOK, CapturePcs, DecodePcs, MainPcs
<1> QED BY <1>4 DEF TypeInv, Startup, Posting

\* The main thread.
LEMMA TypeMain == TypeInv /\ Main => TypeInv'
<1> SUFFICES ASSUME TypeInv, Main PROVE TypeInv'
    OBVIOUS
<1> USE DEF TypeInv, TypeOK, Startup, Posting, poolVars, capVars, decVars, MainPcs, CapturePcs, DecodePcs
<1>1. CASE StartDecode BY <1>1 DEF StartDecode
<1>2. CASE SetRunning BY <1>2 DEF SetRunning
<1>3. CASE StartCapture BY <1>3 DEF StartCapture
<1>4. CASE JoinCapture BY <1>4 DEF JoinCapture, Join
<1>5. CASE StopDecode BY <1>5 DEF StopDecode
<1>6. CASE JoinDecode BY <1>6 DEF JoinDecode, Join
<1> QED BY <1>1, <1>2, <1>3, <1>4, <1>5, <1>6 DEF Main

\* The decode thread.
LEMMA TypeDecode == TypeInv /\ DecodeThread => TypeInv'
<1> SUFFICES ASSUME TypeInv, DecodeThread PROVE TypeInv'
    OBVIOUS
<1> USE DEF TypeInv, TypeOK, Startup, Posting, poolVars, capVars, Decode, DecodePcs
<1>1. CASE DecodeTest BY <1>1 DEF DecodeTest
<1>2. CASE PopLock BY <1>2 DEF PopLock
<1>3. CASE PopClosed
    <2>1. CASE closed = <<>> BY <1>3, <2>1 DEF PopClosed
    <2>2. CASE closed # <<>>
        <3>1. Head(closed) \in Sessions /\ Tail(closed) \in Seq(Sessions)
            BY <2>2
        <3>2. Head(closed) \in 0 .. MaxSess /\ Head(closed) # NULL
            BY <3>1, ConstantsAssumption DEF Sessions, NULL
        <3> QED BY <1>3, <2>2, <3>1, <3>2 DEF PopClosed
    <2> QED BY <2>1, <2>2
<1>4. CASE DecodeSession BY <1>4 DEF DecodeSession
<1>5. CASE DeleteSession
    <2>1. sess \in Sessions
        BY <1>5, ConstantsAssumption DEF DeleteSession, Sessions, NULL
    <2> QED BY <1>5, <2>1, ConstantsAssumption DEF DeleteSession, NULL
<1> QED BY <1>1, <1>2, <1>3, <1>4, <1>5 DEF DecodeThread

\* A packet that is handled.
LEMMA TypePacket ==
    ASSUME TypeInv, NEW id \in Ids, NEW p \in Seen, NEW t \in now .. MaxTime,
           HandlePacket(id, p, t)
    PROVE  TypeInv'
<1> USE DEF TypeInv, TypeOK, Startup, Posting, poolVars, decVars, CapturePcs
<1>1. /\ capPc = "loop" /\ packets' \in 0 .. PacketNum /\ now' \in 0 .. MaxTime
      /\ t \in 0 .. MaxTime
    BY ConstantsAssumption
       DEF HandlePacket, CreateSession, DropPacket, AckPacket, UpdateSession,
           PayloadThrows, NextPacket, Capture
<1>2. p \in Packets BY ConstantsAssumption
<1>3. CASE CreateSession(id, p, t)
    <2>1. m_index + 1 \in Sessions /\ m_index + 1 \in 0 .. MaxSess /\ m_index + 1 # NULL
        BY <1>3, ConstantsAssumption DEF CreateSession, Sessions, NULL
    <2>2. /\ active' \in [Ids -> 0 .. MaxSess] /\ sm' \in [Sessions -> TcpStates]
          /\ lastUpdate' \in [Sessions -> 0 .. MaxTime]
        BY <1>1, <1>3, <2>1 DEF CreateSession, TcpStates
    <2>3. \A i \in Ids : active[i] # NULL => active'[i] # NULL
        BY <1>3, <2>1 DEF CreateSession
    <2>4. m_index' \in 0 .. MaxSess BY <1>3, <2>1 DEF CreateSession
    <2> QED BY <1>1, <1>3, <2>2, <2>3, <2>4 DEF CreateSession
<1>4. CASE DropPacket(id, p, t) BY <1>1, <1>4 DEF DropPacket
<1>5. ASSUME active[id] # NULL PROVE active[id] \in Sessions
    BY <1>5, ConstantsAssumption DEF Sessions, NULL
<1>6. CASE AckPacket(id, p, t)
    <2>1. lastUpdate' \in [Sessions -> 0 .. MaxTime]
        BY <1>1, <1>5, <1>6 DEF AckPacket
    <2>2. 0 \in 0 .. SweepMax BY ConstantsAssumption
    <2>3. CASE t % SweepPeriod = 0 BY <1>1, <1>6, <2>1, <2>2, <2>3 DEF AckPacket
    <2>4. CASE t % SweepPeriod # 0 BY <1>1, <1>6, <2>1, <2>4 DEF AckPacket
    <2> QED BY <2>3, <2>4
<1>7. CASE UpdateSession(id, p, t)
    <2>1. /\ active[id] \in Sessions
          /\ lastUpdate' \in [Sessions -> 0 .. MaxTime]
        BY <1>1, <1>5, <1>7 DEF UpdateSession
    <2>2. CASE isClosed(sm[active[id]])
        BY <1>1, <1>7, <2>1, <2>2 DEF UpdateSession
    <2>3. CASE ~isClosed(sm[active[id]])
        <3> DEFINE new == updateMe(sm[active[id]], p)
        <3>1. new \in TcpStates BY <1>2, <2>1, UpdateType
        <3>2. sm' = [sm EXCEPT ![active[id]] = new]
            BY <1>7, <2>3 DEF UpdateSession
        <3>3. sm' \in [Sessions -> TcpStates] BY <3>1, <3>2
        <3>4. CASE isClosed(new)
            <4>1. capPc' = "lock" /\ capId' = id
                BY <1>7, <2>3, <3>4 DEF UpdateSession
            <4> QED BY <1>1, <1>7, <2>1, <3>3, <4>1 DEF UpdateSession
        <3>5. CASE ~isClosed(new)
            <4>1. capPc' = capPc /\ capId' = capId
                BY <1>7, <2>3, <3>5 DEF UpdateSession
            <4> QED BY <1>1, <1>7, <2>1, <3>3, <4>1 DEF UpdateSession
        <3> QED BY <3>4, <3>5
    <2> QED BY <2>2, <2>3
<1>8. CASE PayloadThrows(id, p, t) BY <1>1, <1>8 DEF PayloadThrows
<1> QED BY <1>3, <1>4, <1>6, <1>7, <1>8 DEF HandlePacket

\* The rest of the capture thread.
LEMMA TypeCapture == TypeInv /\ CaptureThread => TypeInv'
<1> SUFFICES ASSUME TypeInv, CaptureThread PROVE TypeInv'
    OBVIOUS
<1>0. ASSUME NEW id \in Ids, NEW p \in Seen, NEW t \in now .. MaxTime,
             HandlePacket(id, p, t)
      PROVE  TypeInv'
    BY <1>0, TypePacket
<1> USE DEF TypeInv, TypeOK, Startup, Posting, poolVars, decVars, Capture, CapturePcs
<1>1. CASE OpenDevice BY <1>1 DEF OpenDevice
<1>2. CASE EndOfCapture BY <1>2 DEF EndOfCapture
<1>3. ASSUME NEW id \in Ids, SweepVisit(id) PROVE TypeInv'
    <2>1. CASE Expired(id) BY <1>3, <2>1 DEF SweepVisit
    <2>2. CASE ~Expired(id) BY <1>3, <2>2 DEF SweepVisit
    <2> QED BY <2>1, <2>2
<1>4. CASE SweepEnd
    <2>1. 0 \in 0 .. SweepMax BY ConstantsAssumption
    <2> QED BY <1>4, <2>1 DEF SweepEnd
<1>5. CASE PostLock BY <1>5 DEF PostLock
<1>6. CASE PostPush
    <2>1. active[capId] \in Sessions
        BY <1>6, ConstantsAssumption DEF PostPush, Sessions, NULL
    <2>2. closed' \in Seq(Sessions) BY <1>6, <2>1 DEF PostPush
    <2> QED BY <1>6, <2>2 DEF PostPush
<1>7. CASE PostErase
    <2>1. /\ capId \in Ids /\ active' = [active EXCEPT ![capId] = NULL]
          /\ active' \in [Ids -> 0 .. MaxSess]
        BY <1>7, ConstantsAssumption DEF PostErase, NULL
    <2>2. \A id \in Ids \ {capId} : active'[id] = active[id] BY <2>1
    <2>3. NoId \notin Ids /\ SweepMax \in Nat /\ 0 \in 0 .. SweepMax BY ConstantsAssumption
    <2>4. CASE sweeping /\ num + 1 <= SweepMax
        BY <1>7, <2>1, <2>2, <2>3, <2>4 DEF PostErase
    <2>5. CASE ~(sweeping /\ num + 1 <= SweepMax)
        BY <1>7, <2>1, <2>2, <2>3, <2>5 DEF PostErase
    <2> QED BY <2>4, <2>5
<1> QED BY <1>0, <1>1, <1>2, <1>3, <1>4, <1>5, <1>6, <1>7 DEF CaptureThread, CaptureWork

LEMMA TypeStep == TypeInv /\ [Next]_vars => TypeInv'
<1> SUFFICES ASSUME TypeInv, [Next]_vars PROVE TypeInv'
    OBVIOUS
<1>1. CASE Main BY <1>1, TypeMain
<1>2. CASE CaptureThread BY <1>2, TypeCapture
<1>3. CASE DecodeThread BY <1>3, TypeDecode
<1>4. CASE UNCHANGED vars BY <1>4 DEF TypeInv, TypeOK, Startup, Posting, vars
<1> QED BY <1>1, <1>2, <1>3, <1>4 DEF Next, Ended

\* The variables keep their types, m_lock is held exactly inside a critical
\* section and the iterator of a post is valid, in every run of the threads.
THEOREM TypeCorrect == Spec => []TypeOK
<1>1. Spec => []TypeInv BY TypeInit, TypeStep, PTL DEF Spec
<1>2. TypeInv => TypeOK BY DEF TypeInv
<1> QED BY <1>1, <1>2, PTL

-----------------------------------------------------------------------------
(***************************************************************************)
(* Sessions change hands in five steps; every other step leaves each of      *)
(* them where it is.                                                         *)
(***************************************************************************)

Still ==
    /\ UNCHANGED <<m_index, active, closed, sess, freed>>
    /\ UNCHANGED <<capPc, capId>> \/ (capPc # "erase" /\ capPc' # "erase")

Create == \E id \in Ids, p \in Seen, t \in now .. MaxTime : CreateSession(id, p, t)

LEMMA StepKinds ==
    TypeInv /\ [Next]_vars =>
        Still \/ Create \/ PostPush \/ PostErase \/ PopClosed \/ DeleteSession
<1> SUFFICES ASSUME TypeInv, [Next]_vars
             PROVE  Still \/ Create \/ PostPush \/ PostErase \/ PopClosed
                    \/ DeleteSession
    OBVIOUS
<1> USE DEF Still, poolVars, capVars, decVars
<1>1. CASE Main
    BY <1>1 DEF Main, StartDecode, SetRunning, StartCapture, JoinCapture, StopDecode,
                JoinDecode, Join, TypeInv, Startup
<1>2. CASE CaptureThread
    <2>1. ASSUME NEW id \in Ids, NEW p \in Seen, NEW t \in now .. MaxTime,
                 HandlePacket(id, p, t)
          PROVE  Still \/ Create
        <3>1. CASE CreateSession(id, p, t) BY <3>1 DEF Create
        <3>2. CASE DropPacket(id, p, t) BY <3>2 DEF DropPacket
        <3>3. CASE AckPacket(id, p, t) BY <3>3 DEF AckPacket, NextPacket, Capture
        <3>4. CASE UpdateSession(id, p, t)
            BY <3>4 DEF UpdateSession, NextPacket, Capture
        <3>5. CASE PayloadThrows(id, p, t) BY <3>5 DEF PayloadThrows
        <3> QED BY <2>1, <3>1, <3>2, <3>3, <3>4, <3>5 DEF HandlePacket
    <2>2. ASSUME NEW id \in Ids, SweepVisit(id) PROVE Still
        BY <2>2 DEF SweepVisit, Capture
    <2>3. OpenDevice \/ EndOfCapture \/ SweepEnd \/ PostLock => Still
        BY DEF OpenDevice, EndOfCapture, SweepEnd, PostLock, Capture
    <2> QED BY <1>2, <2>1, <2>2, <2>3 DEF CaptureThread, CaptureWork
<1>3. CASE DecodeThread
    BY <1>3 DEF DecodeThread, DecodeTest, PopLock, DecodeSession
<1>4. CASE UNCHANGED vars BY <1>4 DEF vars
<1> QED BY <1>1, <1>2, <1>3, <1>4 DEF Next, Ended

\* Where each session is after each of those steps.
LEMMA StillPlaces ==
    ASSUME TypeInv, Still, NEW s
    PROVE  (InMap(s)' <=> InMap(s)) /\ (InClosed(s)' <=> InClosed(s))
BY DEF TypeInv, Still, InMap, InClosed

LEMMA CreatePlaces ==
    ASSUME TypeInv, Create, NEW s \in Sessions
    PROVE  /\ InMap(s)' <=> InMap(s) \/ s = m_index + 1
           /\ InClosed(s)' <=> InClosed(s)
           /\ m_index' = m_index + 1 /\ m_index + 1 \in Sessions
           /\ UNCHANGED <<closed, sess, freed>>
<1>1. PICK id \in Ids, p \in Seen, t \in now .. MaxTime : CreateSession(id, p, t)
    BY DEF Create
<1> USE <1>1 DEF CreateSession, NextPacket, Capture, TypeInv, TypeOK, decVars
<1>2. m_index' = m_index + 1 /\ m_index + 1 \in Sessions
    BY ConstantsAssumption DEF Sessions
<1>3. /\ active[id] = NULL /\ active'[id] = m_index + 1 /\ capPc = "loop" /\ capPc' = "loop"
      /\ \A i \in Ids \ {id} : active'[i] = active[i]
    OBVIOUS
<1>4. s # NULL BY ConstantsAssumption DEF Sessions, NULL
<1>5. InMap(s)' <=> InMap(s) \/ s = m_index + 1
    BY <1>3, <1>4 DEF InMap
<1>6. InClosed(s)' <=> InClosed(s) BY DEF InClosed
<1> QED BY <1>2, <1>5, <1>6

LEMMA PushPlaces ==
    ASSUME TypeInv, OnePlace, PostPush, NEW s \in Sessions
    PROVE  /\ active[capId] \in Sessions /\ InMap(active[capId])
           /\ InMap(s)' <=> InMap(s) /\ s # active[capId]
           /\ InClosed(s)' <=> InClosed(s) \/ s = active[capId]
           /\ closed' = Append(closed, active[capId])
           /\ UNCHANGED <<m_index, active, sess, freed>>
<1> USE DEF PostPush, Capture, TypeInv, TypeOK, Posting, poolVars, decVars
<1>1. active[capId] \in Sessions /\ capId \in Ids /\ s # NULL
    BY ConstantsAssumption DEF Sessions, NULL
<1>2. InMap(active[capId]) BY <1>1 DEF InMap
<1>3. InMap(s)' <=> InMap(s) /\ s # active[capId]
    BY <1>1 DEF InMap, OnePlace, MappedOnce
<1>4. /\ Len(closed') = Len(closed) + 1 /\ closed'[Len(closed) + 1] = active[capId]
      /\ \A i \in 1 .. Len(closed) : closed'[i] = closed[i]
      /\ Len(closed) \in Nat
    BY <1>1
<1>5. InClosed(s)' <=> InClosed(s) \/ s = active[capId]
    BY <1>4 DEF InClosed
<1> QED BY <1>1, <1>2, <1>3, <1>5

LEMMA ErasePlaces ==
    ASSUME TypeInv, PostErase, NEW s \in Sessions
    PROVE  /\ InMap(s)' <=> InMap(s)
           /\ InClosed(s)' <=> InClosed(s)
           /\ UNCHANGED <<m_index, closed, sess, freed>>
<1> USE DEF PostErase, Capture, TypeInv, TypeOK, decVars
<1>1. /\ capId \in Ids /\ s # NULL /\ active'[capId] = NULL
      /\ \A i \in Ids \ {capId} : active'[i] = active[i]
      /\ capPc = "erase" /\ capPc' # "erase"
    BY ConstantsAssumption DEF Sessions, NULL
<1>2. InMap(s)' <=> InMap(s) BY <1>1 DEF InMap
<1> QED BY <1>2 DEF InClosed

LEMMA TailFacts ==
    ASSUME NEW S, NEW q \in Seq(S), q # <<>>
    PROVE  /\ Len(q) \in Nat \ {0} /\ Head(q) = q[1] /\ Head(q) \in S
           /\ Len(Tail(q)) = Len(q) - 1
           /\ \A i \in 1 .. Len(q) - 1 : Tail(q)[i] = q[i + 1]
OBVIOUS

LEMMA PopPlaces ==
    ASSUME TypeInv, PopClosed, closed # <<>>, NEW s \in Sessions
    PROVE  /\ InMap(s)' <=> InMap(s)
           /\ InClosed(s) <=> InClosed(s)' \/ s = Head(closed)
           /\ sess = NULL /\ sess' = Head(closed) /\ Head(closed) \in Sessions
           /\ closed' = Tail(closed)
           /\ UNCHANGED <<m_index, active, freed>>
<1> USE DEF PopClosed, Decode, TypeInv, TypeOK, poolVars, capVars
<1>1. InMap(s)' <=> InMap(s) BY DEF InMap
<1>0. closed \in Seq(Sessions) /\ closed' = Tail(closed) OBVIOUS
<1>2. /\ closed[1] = Head(closed) /\ Len(closed) \in Nat \ {0}
      /\ Len(closed') = Len(closed) - 1 /\ Head(closed) \in Sessions
      /\ \A i \in 1 .. Len(closed) - 1 : closed'[i] = closed[i + 1]
    BY <1>0, TailFacts
<1>3. ASSUME InClosed(s)' PROVE InClosed(s)
    <2>1. PICK i \in 1 .. Len(closed') : closed'[i] = s BY <1>3 DEF InClosed
    <2>2. i + 1 \in 1 .. Len(closed) /\ closed[i + 1] = s BY <1>2, <2>1
    <2> QED BY <2>2 DEF InClosed
<1>4. ASSUME InClosed(s), s # Head(closed) PROVE InClosed(s)'
    <2>1. PICK i \in 1 .. Len(closed) : closed[i] = s BY <1>4 DEF InClosed
    <2>2. i # 1 /\ i - 1 \in 1 .. Len(closed) - 1 BY SMTT(30), <1>2, <1>4, <2>1
    <2>3. closed'[i - 1] = s BY SMTT(30), <1>2, <2>1, <2>2
    <2> QED BY <1>2, <2>2, <2>3 DEF InClosed
<1>5. InClosed(Head(closed)) /\ Head(closed) \in Sessions BY <1>2 DEF InClosed
<1> QED BY <1>1, <1>3, <1>4, <1>5

-----------------------------------------------------------------------------
(* Every session is in exactly one place.                                  *)

LEMMA PlacedStep == TypeInv /\ OnePlace /\ [Next]_vars => Placed'
<1> SUFFICES ASSUME TypeInv, OnePlace, [Next]_vars PROVE Placed'
    OBVIOUS
<1>0. /\ Sessions' = Sessions /\ m_index \in Nat /\ Placed
      /\ \A s \in Sessions : s \in Nat /\ s # NULL
    BY ConstantsAssumption DEF TypeInv, TypeOK, Sessions, NULL, OnePlace
<1>1. CASE Still BY <1>0, <1>1, StillPlaces DEF Placed, Still
<1>2. CASE Create BY <1>0, <1>2, CreatePlaces DEF Placed
<1>3. CASE PostPush BY <1>0, <1>3, PushPlaces DEF Placed
<1>4. CASE PostErase BY <1>0, <1>4, ErasePlaces DEF Placed
<1>5. CASE PopClosed
    <2>1. CASE closed = <<>>
        <3>1. Still BY <1>5, <2>1 DEF PopClosed, Still, poolVars, capVars
        <3> QED BY <1>0, <3>1, StillPlaces DEF Placed, Still
    <2>2. CASE closed # <<>>
        <3>1. \A s \in Sessions : InClosed(s)' => s # Head(closed)
            <4>1. closed \in Seq(Sessions) /\ closed' = Tail(closed)
                BY <1>5, <2>2 DEF PopClosed, TypeInv, TypeOK
            <4>2. \A i \in 1 .. Len(closed) - 1 : closed'[i] # closed[1]
                BY <2>2, <4>1, TailFacts DEF OnePlace, ListedOnce
            <4> QED BY <2>2, <4>1, <4>2, TailFacts DEF InClosed
        <3> QED BY <1>0, <1>5, <2>2, <3>1, PopPlaces DEF Placed
    <2> QED BY <2>1, <2>2
<1>6. CASE DeleteSession
    <2>1. \A s \in Sessions : (InMap(s)' <=> InMap(s)) /\ (InClosed(s)' <=> InClosed(s))
        BY <1>6 DEF DeleteSession, poolVars, capVars, InMap, InClosed
    <2>2. m_index' = m_index /\ sess' = NULL /\ freed' = freed \cup {sess}
        BY <1>6 DEF DeleteSession, poolVars
    <2> QED BY <1>0, <2>1, <2>2 DEF Placed
<1> QED BY <1>1, <1>2, <1>3, <1>4, <1>5, <1>6, StepKinds

LEMMA ListedOnceStep == TypeInv /\ OnePlace /\ [Next]_vars => ListedOnce'
<1> SUFFICES ASSUME TypeInv, OnePlace, [Next]_vars PROVE ListedOnce'
    OBVIOUS
<1>0. closed \in Seq(Sessions) /\ ListedOnce
    BY DEF TypeInv, TypeOK, OnePlace
<1>1. CASE closed' = closed BY <1>0, <1>1 DEF ListedOnce
<1>2. CASE PostPush
    <2>1. /\ active[capId] \in Sessions /\ closed' = Append(closed, active[capId])
          /\ ~InClosed(active[capId])
        <3>1. active[capId] \in Sessions
            BY <1>2, ConstantsAssumption
               DEF PostPush, Capture, TypeInv, TypeOK, Posting, Sessions, NULL
        <3> QED BY <1>2, <3>1, PushPlaces DEF OnePlace, Placed
    <2>2. \A i \in 1 .. Len(closed) : closed[i] # active[capId]
        BY <2>1 DEF InClosed
    <2> QED BY <1>0, <2>1, <2>2 DEF ListedOnce
<1>3. CASE PopClosed
    <2>1. CASE closed = <<>> BY <1>1, <1>3, <2>1 DEF PopClosed
    <2>2. CASE closed # <<>>
        <3>1. closed' = Tail(closed) BY <1>3, <2>2 DEF PopClosed
        <3> QED BY <1>0, <2>2, <3>1, TailFacts DEF ListedOnce
    <2> QED BY <2>1, <2>2
<1> QED BY <1>1, <1>2, <1>3, StepKinds
        DEF Still, Create, CreateSession, PostErase, DeleteSession

LEMMA MappedOnceStep == TypeInv /\ OnePlace /\ [Next]_vars => MappedOnce'
<1> SUFFICES ASSUME TypeInv, OnePlace, [Next]_vars PROVE MappedOnce'
    OBVIOUS
<1>0. active \in [Ids -> 0 .. MaxSess] /\ MappedOnce
    BY DEF TypeInv, TypeOK, OnePlace
<1>1. CASE active' = active BY <1>0, <1>1 DEF MappedOnce
<1>2. CASE Create
    <2>1. PICK id \in Ids, p \in Seen, t \in now .. MaxTime : CreateSession(id, p, t)
        BY <1>2 DEF Create
    <2>2. /\ capPc = "loop" /\ active' = [active EXCEPT ![id] = m_index + 1]
        BY <2>1 DEF CreateSession, NextPacket, Capture
    <2>3. \A i \in Ids : active[i] # m_index + 1
        <3> SUFFICES ASSUME NEW i \in Ids, active[i] = m_index + 1 PROVE FALSE
            OBVIOUS
        <3>1. m_index \in Nat /\ active[i] \in Sessions
            BY <1>0, ConstantsAssumption DEF TypeInv, TypeOK, Sessions
        <3>2. InMap(active[i]) BY <2>2 DEF InMap
        <3>3. active[i] <= m_index BY <3>1, <3>2 DEF OnePlace, Placed
        <3> QED BY <3>1, <3>3
    <2> QED BY <1>0, <2>2, <2>3 DEF MappedOnce
<1>3. CASE PostErase
    <2>1. active' = [active EXCEPT ![capId] = NULL] BY <1>3 DEF PostErase
    <2> QED BY <1>0, <2>1 DEF MappedOnce
<1> QED BY <1>1, <1>2, <1>3, StepKinds
        DEF Still, PostPush, PopClosed, DeleteSession, poolVars

LEMMA OnePlaceInit == Init => OnePlace
<1> SUFFICES ASSUME Init PROVE OnePlace
    OBVIOUS
<1>1. \A s \in Sessions : s \in Nat /\ s > 0 /\ ~InMap(s)
    BY ConstantsAssumption DEF Init, Sessions, NULL, InMap
<1>2. Len(closed) = 0 BY DEF Init
<1>3. \A s : ~InClosed(s) BY <1>2 DEF InClosed
<1> QED BY <1>1, <1>2, <1>3
        DEF Init, OnePlace, Placed, ListedOnce, MappedOnce, NULL

Inv == TypeInv /\ OnePlace

LEMMA Invariant == Spec => []Inv
<1>1. Init => Inv BY TypeInit, OnePlaceInit DEF Inv
<1>2. Inv /\ [Next]_vars => Inv'
    BY TypeStep, PlacedStep, ListedOnceStep, MappedOnceStep DEF Inv, OnePlace
<1> QED BY <1>1, <1>2, PTL DEF Spec

\* No session is ever leaked, decoded twice or deleted twice, whatever the
\* interleaving of postSession, postTimeoutSessions and popClosedSession.
THEOREM OnePlaceCorrect == Spec => []OnePlace
<1>1. Inv => OnePlace BY DEF Inv
<1> QED BY <1>1, Invariant, PTL

\* The capture thread never reaches, through the map, a session that the decode
\* thread has or has deleted.
THEOREM CaptureOwnsCorrect == Spec => []CaptureOwns
<1>1. Inv => CaptureOwns
    <2> SUFFICES ASSUME Inv, NEW id \in Ids, active[id] # NULL,
                        ~(capPc = "erase" /\ capId = id)
                 PROVE  ~InClosed(active[id]) /\ sess # active[id] /\ active[id] \notin freed
        BY DEF CaptureOwns
    <2>1. active[id] \in Sessions
        BY ConstantsAssumption DEF Inv, TypeInv, TypeOK, Sessions, NULL
    <2>2. InMap(active[id]) BY DEF InMap
    <2> QED BY <2>1, <2>2 DEF Inv, OnePlace, Placed
<1> QED BY <1>1, Invariant, PTL

-----------------------------------------------------------------------------
(* The threads implement the hand-over that the pool promises.             *)

LEMMA HandoffStep == Inv /\ [Next]_vars => [Handoff!Next]_(Handoff!vars)
<1> SUFFICES ASSUME Inv, [Next]_vars PROVE [Handoff!Next]_(Handoff!vars)
    OBVIOUS
<1>0. TypeInv /\ OnePlace /\ m_index \in Nat /\ NULL \notin Sessions
    BY ConstantsAssumption DEF Inv, TypeInv, TypeOK, Sessions, NULL
<1>1. ASSUME Still PROVE UNCHANGED Handoff!vars
    <2>1. Building' = Building BY <1>0, <1>1, StillPlaces DEF Building
    <2> QED BY <1>1, <2>1 DEF Handoff!vars, Still
<1>2. ASSUME Create PROVE Handoff!Open
    <2>1. PICK id \in Ids, p \in Seen, t \in now .. MaxTime : CreateSession(id, p, t)
        BY <1>2 DEF Create
    <2>2. /\ m_index < MaxSess /\ m_index' = m_index + 1
          /\ closed' = closed /\ sess' = sess /\ freed' = freed
        BY <2>1 DEF CreateSession, decVars
    <2>3. m_index + 1 \in Sessions BY <1>0, <2>2, ConstantsAssumption DEF Sessions
    <2>4. Building' = Building \cup {m_index + 1}
        BY <1>0, <1>2, <2>3, CreatePlaces DEF Building
    <2> QED BY <2>2, <2>4 DEF Handoff!Open
<1>3. ASSUME PostPush PROVE Handoff!Next
    <2>1. active[capId] \in Sessions
        BY <1>0, <1>3, ConstantsAssumption
           DEF PostPush, Capture, TypeInv, TypeOK, Posting, Sessions, NULL
    <2>2. /\ InMap(active[capId]) /\ closed' = Append(closed, active[capId])
          /\ UNCHANGED <<m_index, sess, freed>>
        BY <1>0, <1>3, <2>1, PushPlaces
    <2>3. Building' = Building \ {active[capId]}
        BY <1>0, <1>3, PushPlaces DEF Building
    <2>4. active[capId] \in Building BY <2>1, <2>2 DEF Building
    <2>5. Handoff!Post(active[capId]) BY <2>2, <2>3, <2>4 DEF Handoff!Post
    <2> QED BY <2>1, <2>5 DEF Handoff!Next, Sessions
<1>4. ASSUME PostErase PROVE UNCHANGED Handoff!vars
    <2>1. Building' = Building BY <1>0, <1>4, ErasePlaces DEF Building
    <2>2. UNCHANGED <<m_index, closed, sess, freed>>
        BY <1>4 DEF PostErase, decVars
    <2> QED BY <2>1, <2>2 DEF Handoff!vars
<1>5. ASSUME PopClosed PROVE UNCHANGED Handoff!vars \/ Handoff!Take
    <2>1. CASE closed = <<>>
        BY <1>1, <1>5, <2>1 DEF PopClosed, Still, poolVars, capVars
    <2>2. CASE closed # <<>>
        <3>1. Head(closed) \in Sessions
            BY <2>2, <1>0, TailFacts DEF TypeInv, TypeOK
        <3>2. /\ sess = NULL /\ sess' = Head(closed) /\ closed' = Tail(closed)
              /\ UNCHANGED <<m_index, freed>>
            BY <1>0, <1>5, <2>2, <3>1, PopPlaces
        <3>3. Building' = Building BY <1>0, <1>5, <2>2, PopPlaces DEF Building
        <3> QED BY <1>0, <2>2, <3>1, <3>2, <3>3 DEF Handoff!Take
    <2> QED BY <2>1, <2>2
<1>6. ASSUME DeleteSession PROVE Handoff!Delete
    <2>1. /\ sess # NULL /\ sess' = NULL /\ freed' = freed \cup {sess}
          /\ UNCHANGED <<m_index, active, closed, capPc, capId>>
        BY <1>0, <1>6 DEF DeleteSession, Decode, TypeInv, TypeOK, poolVars, capVars
    <2>2. Building' = Building BY <2>1 DEF Building, InMap
    <2> QED BY <2>1, <2>2 DEF Handoff!Delete
<1> QED BY <1>0, <1>1, <1>2, <1>3, <1>4, <1>5, <1>6, StepKinds DEF Handoff!Next

\* The three threads, their lock and their map implement SessionHandoff: first
\* posted is first decoded, one at a time, each session once.
THEOREM ImplementsHandoff == Spec => HandoffSpec
<1>1. Init => Handoff!Init
    <2> SUFFICES ASSUME Init PROVE Handoff!Init
        OBVIOUS
    <2>1. Building = {}
        BY ConstantsAssumption DEF Init, Building, InMap, Sessions, NULL
    <2> QED BY <2>1 DEF Init, Handoff!Init
<1> QED BY <1>1, HandoffStep, Invariant, PTL DEF Spec, HandoffSpec, Handoff!Spec

-----------------------------------------------------------------------------
(***************************************************************************)
(* What is posted, and why.  A closed session is in the map only while the   *)
(* capture thread is posting it; what is being posted is closed or expired.  *)
(***************************************************************************)

ClosedIsPosted ==
    \A id \in Ids : active[id] # NULL /\ isClosed(sm[active[id]])
                        => capId = id /\ capPc \in {"lock", "push", "erase"}
DueToPost ==
    capPc \in {"lock", "push"} => isClosed(sm[active[capId]]) \/ Expired(capId)

Reasons == ClosedIsPosted /\ DueToPost /\ ClosedOrSilent

\* A packet changes only a session that the capture thread owns, and time does
\* not go back.
LEMMA PacketTouches ==
    ASSUME Inv, NEW id \in Ids, NEW p \in Seen, NEW t \in now .. MaxTime,
           HandlePacket(id, p, t)
    PROVE  /\ capPc = "loop" /\ closed' = closed /\ now' = t /\ now <= now'
           /\ \A i \in 1 .. Len(closed) :
                 /\ sm'[closed[i]] = sm[closed[i]]
                 /\ lastUpdate'[closed[i]] = lastUpdate[closed[i]]
<1>0. TypeInv /\ OnePlace /\ now \in Nat /\ t \in Nat
    BY ConstantsAssumption DEF Inv, TypeInv, TypeOK
<1>1. capPc = "loop" /\ closed' = closed /\ now' = t /\ now <= now'
    BY <1>0 DEF HandlePacket, CreateSession, DropPacket, AckPacket, UpdateSession,
           PayloadThrows, NextPacket, Capture
<1>2. /\ sm \in [Sessions -> TcpStates] /\ lastUpdate \in [Sessions -> 0 .. MaxTime]
      /\ closed \in Seq(Sessions)
    BY <1>0 DEF TypeInv, TypeOK
<1> SUFFICES ASSUME NEW i \in 1 .. Len(closed)
             PROVE  sm'[closed[i]] = sm[closed[i]]
                    /\ lastUpdate'[closed[i]] = lastUpdate[closed[i]]
    BY <1>1
<1>3. closed[i] \in Sessions /\ InClosed(closed[i]) BY <1>2 DEF InClosed
<1>4. closed[i] # active[id]
    BY <1>0, <1>1, <1>3 DEF OnePlace, Placed, InMap
<1>5. closed[i] # m_index + 1
    <2>1. closed[i] <= m_index BY <1>0, <1>3 DEF OnePlace, Placed
    <2> QED BY SMTT(30), <1>0, <1>3, <2>1, ConstantsAssumption DEF TypeInv, TypeOK, Sessions
<1>6. CASE CreateSession(id, p, t) BY <1>2, <1>3, <1>5, <1>6 DEF CreateSession
<1>7. CASE DropPacket(id, p, t) BY <1>7 DEF DropPacket, poolVars
<1>8. CASE AckPacket(id, p, t) BY <1>2, <1>3, <1>4, <1>8 DEF AckPacket
<1>9. CASE UpdateSession(id, p, t) BY <1>2, <1>3, <1>4, <1>9 DEF UpdateSession
<1>10. CASE PayloadThrows(id, p, t) BY <1>10 DEF PayloadThrows, poolVars
<1> QED BY <1>6, <1>7, <1>8, <1>9, <1>10 DEF HandlePacket

LEMMA ReasonsPacket ==
    ASSUME Inv, Reasons, NEW id \in Ids, NEW p \in Seen, NEW t \in now .. MaxTime,
           HandlePacket(id, p, t)
    PROVE  Reasons'
<1>0. /\ TypeInv /\ OnePlace /\ capPc = "loop" /\ closed' = closed /\ now' = t
      /\ now <= now' /\ now \in Nat /\ now' \in Nat
    BY SMTT(30), PacketTouches, ConstantsAssumption DEF Inv, TypeInv, TypeOK
<1>1. ClosedOrSilent'
    <2>1. \A i \in 1 .. Len(closed) : closed[i] \in Sessions /\ lastUpdate[closed[i]] \in Nat
        BY <1>0 DEF TypeInv, TypeOK
    <2>2. Timeout \in Nat BY ConstantsAssumption
    <2> QED BY <1>0, <2>1, <2>2, PacketTouches DEF Reasons, ClosedOrSilent
<1>2. /\ sm \in [Sessions -> TcpStates] /\ active \in [Ids -> 0 .. MaxSess]
      /\ \A i \in Ids : active[i] # NULL => active[i] \in Sessions
    BY <1>0, ConstantsAssumption DEF TypeInv, TypeOK, Sessions, NULL
<1>3. \A i \in Ids : active[i] # NULL => ~isClosed(sm[active[i]])
    BY <1>0 DEF Reasons, ClosedIsPosted
<1>4. CASE CreateSession(id, p, t)
    <2>1. \A i \in Ids : active[i] # m_index + 1
        <3> SUFFICES ASSUME NEW i \in Ids, active[i] = m_index + 1 PROVE FALSE
            OBVIOUS
        <3>1. m_index \in Nat /\ active[i] \in Sessions
            BY <1>0, <1>2, ConstantsAssumption DEF TypeInv, TypeOK, NULL
        <3>2. InMap(active[i]) BY <1>0 DEF InMap
        <3>3. active[i] <= m_index BY <1>0, <3>1, <3>2 DEF OnePlace, Placed
        <3> QED BY <3>1, <3>3
    <2>2. m_index + 1 \in Sessions
        BY <1>0, <1>4, ConstantsAssumption DEF CreateSession, TypeInv, TypeOK, Sessions
    <2>3. \A i \in Ids : active'[i] # NULL => ~isClosed(sm'[active'[i]])
        BY <1>2, <1>3, <1>4, <2>1, <2>2 DEF CreateSession, isClosed
    <2>4. capPc' = "loop" BY <1>0, <1>4 DEF CreateSession
    <2> QED BY <1>1, <2>3, <2>4 DEF Reasons, ClosedIsPosted, DueToPost
<1>5. CASE DropPacket(id, p, t)
    BY <1>0, <1>1, <1>5 DEF DropPacket, poolVars, Reasons, ClosedIsPosted, DueToPost
<1>6. CASE AckPacket(id, p, t)
    <2>1. sm' = sm /\ active' = active /\ capPc' \in {"loop", "sweep"}
        BY <1>0, <1>6 DEF AckPacket
    <2> QED BY <1>1, <1>3, <2>1 DEF Reasons, ClosedIsPosted, DueToPost
<1>7. CASE UpdateSession(id, p, t)
    <2> DEFINE new == updateMe(sm[active[id]], p)
    <2>1. /\ active' = active /\ active[id] # NULL
          /\ sm' = [sm EXCEPT ![active[id]] = new]
          /\ isClosed(new) => capPc' = "lock" /\ capId' = id
          /\ ~isClosed(new) => capPc' = capPc /\ capId' = capId
        BY <1>3, <1>7 DEF UpdateSession
    <2>2. \A i \in Ids : i # id /\ active[i] # NULL => active[i] # active[id]
        BY <1>0, <2>1 DEF OnePlace, MappedOnce
    <2>3. /\ sm'[active[id]] = new
          /\ \A i \in Ids : i # id /\ active[i] # NULL => sm'[active[i]] = sm[active[i]]
        BY <1>2, <2>1, <2>2
    <2>4. CASE isClosed(new)
        BY <1>1, <1>3, <2>1, <2>3, <2>4 DEF Reasons, ClosedIsPosted, DueToPost
    <2>5. CASE ~isClosed(new)
        <3>1. \A i \in Ids : active[i] # NULL => ~isClosed(sm'[active[i]])
            BY <1>3, <2>3, <2>5
        <3> QED BY <1>0, <1>1, <2>1, <2>5, <3>1 DEF Reasons, ClosedIsPosted, DueToPost
    <2> QED BY <2>4, <2>5
<1>8. CASE PayloadThrows(id, p, t)
    BY <1>0, <1>1, <1>8 DEF PayloadThrows, poolVars, Reasons, ClosedIsPosted, DueToPost
<1> QED BY <1>4, <1>5, <1>6, <1>7, <1>8 DEF HandlePacket

LEMMA ReasonsStep == Inv /\ Reasons /\ [Next]_vars => Reasons'
<1> SUFFICES ASSUME Inv, Reasons, [Next]_vars PROVE Reasons'
    OBVIOUS
<1>0. TypeInv /\ OnePlace BY DEF Inv
<1>1. ASSUME NEW id \in Ids, NEW p \in Seen, NEW t \in now .. MaxTime,
             HandlePacket(id, p, t)
      PROVE  Reasons'
    BY <1>1, ReasonsPacket
<1> USE DEF Reasons, ClosedIsPosted, DueToPost, ClosedOrSilent, Expired
<1>2. ASSUME UNCHANGED <<active, sm, lastUpdate, closed, now>>,
             UNCHANGED <<capPc, capId>> \/ capPc' \notin {"lock", "push", "erase"},
             capPc' \notin {"lock", "push", "erase"}
                => capPc \notin {"lock", "push", "erase"}
      PROVE  Reasons'
    BY <1>2
<1>3. CASE Main
    BY <1>0, <1>2, <1>3
       DEF Main, StartDecode, SetRunning, StartCapture, JoinCapture, StopDecode,
           JoinDecode, Join, poolVars, capVars, TypeInv, Startup
<1>4. CASE OpenDevice \/ EndOfCapture \/ SweepEnd
    BY <1>2, <1>4 DEF OpenDevice, EndOfCapture, SweepEnd, Capture, poolVars
<1>5. ASSUME NEW id \in Ids, SweepVisit(id) PROVE Reasons'
    <2>1. \A i \in Ids : active[i] # NULL => ~isClosed(sm[active[i]])
        BY <1>5 DEF SweepVisit, Capture
    <2>2. UNCHANGED <<active, sm, lastUpdate, closed, now>>
        BY <1>5 DEF SweepVisit, poolVars
    <2>3. capPc' = "lock" => Expired(id) /\ capId' = id
        BY <1>5 DEF SweepVisit, Capture
    <2>4. capPc' \in {"lock", "sweep"} BY <1>5 DEF SweepVisit, Capture
    <2> QED BY <2>1, <2>2, <2>3, <2>4
<1>6. CASE PostLock BY <1>6 DEF PostLock, Capture, poolVars
<1>7. CASE PostPush
    <2>1. /\ closed \in Seq(Sessions) /\ active[capId] \in Sessions
          /\ closed' = Append(closed, active[capId])
          /\ UNCHANGED <<active, sm, lastUpdate, now, capId>>
          /\ capPc = "push" /\ capPc' = "erase"
        BY <1>0, <1>7, ConstantsAssumption
           DEF PostPush, Capture, TypeInv, TypeOK, Posting, Sessions, NULL, poolVars
    <2>2. isClosed(sm[active[capId]]) \/ lastUpdate[active[capId]] + Timeout < now
        BY <2>1
    <2>3. /\ Len(closed') = Len(closed) + 1 /\ Len(closed) \in Nat
          /\ \A i \in 1 .. Len(closed) : closed'[i] = closed[i]
          /\ closed'[Len(closed) + 1] = active[capId]
        BY <2>1
    <2>4. ClosedOrSilent'
        <3> SUFFICES ASSUME NEW i \in 1 .. Len(closed')
                     PROVE  isClosed(sm[closed'[i]]) \/ lastUpdate[closed'[i]] + Timeout < now
            BY <2>1
        <3>1. CASE i \in 1 .. Len(closed) BY <2>3, <3>1
        <3>2. CASE i = Len(closed) + 1 BY <2>2, <2>3, <3>2
        <3> QED BY <2>3, <3>1, <3>2
    <2> QED BY <2>1, <2>4
<1>8. CASE PostErase
    <2>1. /\ active' = [active EXCEPT ![capId] = NULL] /\ capPc = "erase"
          /\ capPc' \notin {"lock", "push"} /\ active \in [Ids -> 0 .. MaxSess]
          /\ UNCHANGED <<sm, lastUpdate, closed, now>>
        BY <1>0, <1>8 DEF PostErase, Capture, TypeInv, TypeOK
    <2>2. \A i \in Ids : active'[i] # NULL => active'[i] = active[i] /\ i # capId
        BY <2>1
    <2>3. ClosedIsPosted' BY <2>1, <2>2
    <2> QED BY <2>1, <2>3
<1>9. CASE DecodeThread
    <2>1. CASE closed' = closed
        BY <1>2, <1>9, <2>1
           DEF DecodeThread, DecodeTest, PopLock, PopClosed, DecodeSession,
               DeleteSession, poolVars, capVars
    <2>2. CASE closed' # closed
        <3>1. PopClosed /\ closed # <<>>
            BY <1>9, <2>2
               DEF DecodeThread, DecodeTest, PopLock, PopClosed, DecodeSession,
                   DeleteSession
        <3>2. closed' = Tail(closed) /\ closed \in Seq(Sessions)
            BY <1>0, <3>1 DEF PopClosed, TypeInv, TypeOK
        <3>3. UNCHANGED <<active, sm, lastUpdate, now, capPc, capId>>
            BY <3>1 DEF PopClosed, poolVars, capVars
        <3>4. ClosedOrSilent'
            <4> SUFFICES ASSUME NEW i \in 1 .. Len(closed')
                         PROVE  isClosed(sm[closed'[i]])
                                \/ lastUpdate[closed'[i]] + Timeout < now
                BY <3>3
            <4>1. i + 1 \in 1 .. Len(closed) /\ closed'[i] = closed[i + 1]
                BY <3>1, <3>2, TailFacts
            <4> QED BY <4>1
        <3> QED BY <3>3, <3>4
    <2> QED BY <2>1, <2>2
<1>10. CASE UNCHANGED vars BY <1>2, <1>10 DEF vars
<1> QED BY <1>1, <1>3, <1>4, <1>5, <1>6, <1>7, <1>8, <1>9, <1>10
        DEF Next, Ended, CaptureThread, CaptureWork

LEMMA ReasonsInvariant == Spec => []Reasons
<1>1. Init => Reasons
    BY DEF Init, Reasons, ClosedIsPosted, DueToPost, ClosedOrSilent
<1> QED BY <1>1, ReasonsStep, Invariant, PTL DEF Spec

\* Between packets the map holds no closed session, so that processL5 never
\* drops a packet for one.
THEOREM NoClosedActiveCorrect == Spec => []NoClosedActive
<1>1. Reasons => NoClosedActive BY DEF Reasons, ClosedIsPosted, NoClosedActive
<1> QED BY <1>1, ReasonsInvariant, PTL

\* A session reaches the decode thread only when its connection is closed or
\* has been silent for longer than the timeout.
THEOREM ClosedOrSilentCorrect == Spec => []ClosedOrSilent
<1>1. Reasons => ClosedOrSilent BY DEF Reasons
<1> QED BY <1>1, ReasonsInvariant, PTL

-----------------------------------------------------------------------------
(* The decode thread's flag and the end of the capture.                    *)

Shutdown ==
    /\ mainPc \in {"stop", "join_decode", "done"} => capPc \in {"none", "out"}
    /\ m_isRunning \/ decPc = "none"
       \/ mainPc \in {"start_decode", "set_running", "join_decode", "done"}

LEMMA ShutdownStep == TypeInv /\ Shutdown /\ [Next]_vars => Shutdown'
<1> SUFFICES ASSUME TypeInv, Shutdown, [Next]_vars PROVE Shutdown'
    OBVIOUS
<1> USE DEF Shutdown, poolVars, capVars, decVars
<1>1. CASE Main
    BY <1>1 DEF Main, StartDecode, SetRunning, StartCapture, JoinCapture, StopDecode,
                JoinDecode, Join, TypeInv, Startup
<1>2. CASE CaptureThread
    <2>1. capPc \notin {"none", "out"} /\ UNCHANGED <<mainPc, m_isRunning, decPc>>
        BY <1>2 DEF CaptureThread, CaptureWork, OpenDevice, EndOfCapture, HandlePacket,
                    CreateSession, DropPacket, AckPacket, UpdateSession, PayloadThrows,
                    NextPacket, SweepVisit, SweepEnd, PostLock, PostPush, PostErase, Capture
    <2> QED BY <2>1
<1>3. CASE DecodeThread
    BY <1>3 DEF DecodeThread, DecodeTest, PopLock, PopClosed, DecodeSession,
                DeleteSession, Decode
<1>4. CASE UNCHANGED vars BY <1>4 DEF vars
<1> QED BY <1>1, <1>2, <1>3, <1>4 DEF Next, Ended

\* Apart from the start race, the decode thread ends only when capture is over.
THEOREM DecoderOutlivesCorrect == Spec => DecoderOutlivesCapture
<1>1. Init => Shutdown BY DEF Init, Shutdown
<1>2. ASSUME TypeInv, Shutdown, [Next]_vars, decPc = "outer", decPc' = "out",
             mainPc # "set_running"
      PROVE  capPc \in {"none", "out"}
    <2>1. ~m_isRunning
        BY <1>2 DEF Next, Ended, vars, Main, StartDecode, SetRunning, StartCapture,
                    JoinCapture, StopDecode, JoinDecode, Join, CaptureThread, CaptureWork,
                    OpenDevice, EndOfCapture, HandlePacket, CreateSession, DropPacket,
                    AckPacket, UpdateSession, PayloadThrows, SweepVisit, SweepEnd,
                    PostLock, PostPush, PostErase, DecodeThread, DecodeTest, PopLock,
                    PopClosed, DecodeSession, DeleteSession, Decode, decVars
    <2> QED BY <1>2, <2>1 DEF Shutdown, TypeInv, Startup
<1>3. TypeInv /\ Shutdown /\ [Next]_vars
        => [decPc = "outer" /\ decPc' = "out" /\ mainPc # "set_running"
              => capPc \in {"none", "out"}]_vars
    BY <1>2
<1>4. Spec => []TypeInv BY TypeInit, TypeStep, PTL DEF Spec
<1> QED BY <1>1, <1>3, <1>4, ShutdownStep, PTL DEF Spec, DecoderOutlivesCapture
=============================================================================
