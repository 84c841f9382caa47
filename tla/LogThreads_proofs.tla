-------------------------- MODULE LogThreads_proofs --------------------------
(***************************************************************************)
(* Proofs about LogThreads, for any number of writers, records and calls.  *)
(***************************************************************************)
EXTENDS LogThreads, TLAPS

Record == Nat \ {0}
InNames == {"Init", "Write", "SetBuf", "Flush", "Rotate", "Heartbeat", "Finish"}
OutNames == {"Disable", "KillMe", "FlushWriteBuffer", "RotationFinished", "Finished"}
Message == [name : InNames, recs : Seq(Record)]
Frontend == [disabled : BOOLEAN, backend : BOOLEAN, deleted : BOOLEAN, buf : BOOLEAN,
             write_buffer : Seq(Record)]

\* The types of the variables.
TypeInv ==
  /\ created \in 0 .. MaxWriters /\ cur \in 0 .. created
  /\ fe \in [Writers -> Frontend] /\ th \in [Writers -> [Flags -> BOOLEAN]]
  /\ qin \in [Writers -> Seq(Message)]
  /\ qout \in [Writers -> Seq(OutNames)] /\ todo \in [Writers -> Seq(OutNames)]
  /\ file \in [Writers -> Seq(Nat)] /\ accepted \in [Writers -> Seq(Record)]
  /\ mpc \in {"idle", "process", "join", "wait", "final", "closed", "exit", "undefined"}
  /\ stage \in {"run", "bro_done", "threads"}
  /\ turn \in Nat \ {0} /\ dead \subseteq 1 .. created /\ records \in Nat /\ ops \in Nat

LEMMA InitType == Init => TypeInv
BY ConstantsAssumption DEF Init, TypeInv, Frontend, Empty


-----------------------------------------------------------------------------
(* Sequences                                                               *)

LEMMA Concatenated ==
  ASSUME NEW S, NEW s \in Seq(S), NEW t \in Seq(S)
  PROVE  /\ s \o t \in Seq(S) /\ Len(s \o t) = Len(s) + Len(t)
         /\ \A i \in 1 .. Len(s) : (s \o t)[i] = s[i]
         /\ \A i \in 1 .. Len(t) : (s \o t)[Len(s) + i] = t[i]
         /\ \A i \in 1 .. Len(s \o t) : i \notin 1 .. Len(s) =>
                i - Len(s) \in 1 .. Len(t) /\ (s \o t)[i] = t[i - Len(s)]
<1>1. /\ s \o t \in Seq(S) /\ Len(s \o t) = Len(s) + Len(t)
      /\ \A i \in 1 .. Len(s) : (s \o t)[i] = s[i]
    OBVIOUS
<1>2. \A i \in 1 .. Len(s \o t) : i \notin 1 .. Len(s) =>
         i - Len(s) \in 1 .. Len(t) /\ (s \o t)[i] = t[i - Len(s)]
    BY <1>1
<1>3. \A i \in 1 .. Len(t) : (s \o t)[Len(s) + i] = t[i]
    BY <1>1, <1>2
<1> QED BY <1>1, <1>2, <1>3

LEMMA Appended ==
  ASSUME NEW S, NEW s \in Seq(S), NEW e \in S
  PROVE  /\ Append(s, e) \in Seq(S) /\ Len(Append(s, e)) = Len(s) + 1
         /\ \A i \in 1 .. Len(s) : Append(s, e)[i] = s[i]
         /\ Append(s, e)[Len(s) + 1] = e
OBVIOUS

LEMMA Shortened ==
  ASSUME NEW S, NEW s \in Seq(S), s # << >>
  PROVE  /\ Head(s) = s[1] /\ s[1] \in S /\ Tail(s) \in Seq(S)
         /\ Len(s) >= 1 /\ Len(Tail(s)) = Len(s) - 1
         /\ \A i \in 1 .. Len(Tail(s)) : Tail(s)[i] = s[i + 1]
OBVIOUS

LEMMA Prefixed ==
  ASSUME NEW S, NEW s \in Seq(S), NEW n \in 0 .. Len(s)
  PROVE  /\ SubSeq(s, 1, n) \in Seq(S) /\ Len(SubSeq(s, 1, n)) = n
         /\ \A i \in 1 .. n : SubSeq(s, 1, n)[i] = s[i]
OBVIOUS

-----------------------------------------------------------------------------
(* Messages to a child                                                      *)

LEMMA MsgType ==
  /\ \A n \in InNames : Msg(n) \in Message /\ Msg(n).name = n /\ Msg(n).recs = << >>
  /\ \A s \in Seq(Record) : [name |-> "Write", recs |-> s] \in Message
<1>1. << >> \in Seq(Record)
    OBVIOUS
<1> QED BY <1>1 DEF Msg, Message, InNames

LEMMA CallTypes ==
  ASSUME TypeInv, NEW w \in Writers
  PROVE  /\ Flushed(w) \in Seq(Message) /\ SignalStop(w) \in Seq(Message)
         /\ Emptied(w) \in Frontend
         /\ \A msgs \in Seq(Message) : SendIn(w, msgs) \in Seq(Message)
<1>1. fe[w] \in Frontend /\ fe[w].write_buffer \in Seq(Record)
    BY DEF TypeInv, Frontend
<1>2. Flushed(w) \in Seq(Message)
    BY <1>1, MsgType DEF Flushed
<1>3. SignalStop(w) \in Seq(Message)
    BY MsgType DEF SignalStop, InNames
<1>4. Emptied(w) \in Frontend
    <2>1. << >> \in Seq(Record)
        OBVIOUS
    <2> QED BY <1>1, <2>1 DEF Emptied, Frontend
<1>5. \A msgs \in Seq(Message) : SendIn(w, msgs) \in Seq(Message)
    BY DEF SendIn
<1> QED BY <1>2, <1>3, <1>4, <1>5

LEMMA CallType ==
  ASSUME TypeInv, NEW w \in Writers, NEW msgs \in Seq(Message), NEW f \in Frontend,
         Call(w, msgs, f)
  PROVE  qin' \in [Writers -> Seq(Message)] /\ fe' \in [Writers -> Frontend]
<1>1. qin[w] \o msgs \in Seq(Message)
    BY Concatenated DEF TypeInv
<1>2. qin \in [Writers -> Seq(Message)] /\ fe \in [Writers -> Frontend]
    BY DEF TypeInv
<1>3. qin' = [qin EXCEPT ![w] = qin[w] \o msgs] /\ fe' = [fe EXCEPT ![w] = f]
    BY DEF Call
<1> QED BY <1>1, <1>2, <1>3

-----------------------------------------------------------------------------
(* What a child sends                                                      *)

Has(s, x) == \E i \in 1 .. Len(s) : s[i] = x

\* A "Disable" with no "KillMe" before it.
Tells(s) == \E i \in 1 .. Len(s) : s[i] = "Disable" /\ \A j \in 1 .. i - 1 : s[j] # "KillMe"

LEMMA HasConcat ==
  ASSUME NEW S, NEW s \in Seq(S), NEW t \in Seq(S), NEW x
  PROVE  Has(s \o t, x) <=> Has(s, x) \/ Has(t, x)
<1>1. ASSUME Has(s, x) PROVE Has(s \o t, x)
    BY <1>1, Concatenated DEF Has
<1>2. ASSUME Has(t, x) PROVE Has(s \o t, x)
    <2>1. PICK i \in 1 .. Len(t) : t[i] = x
        BY <1>2 DEF Has
    <2>2. (s \o t)[Len(s) + i] = x /\ Len(s) + i \in 1 .. Len(s \o t)
        BY <2>1, Concatenated
    <2> QED BY <2>2 DEF Has
<1>3. ASSUME Has(s \o t, x) PROVE Has(s, x) \/ Has(t, x)
    <2>1. PICK i \in 1 .. Len(s \o t) : (s \o t)[i] = x
        BY <1>3 DEF Has
    <2>2. CASE i \in 1 .. Len(s)
        BY <2>1, <2>2, Concatenated DEF Has
    <2>3. CASE i \notin 1 .. Len(s)
        <3>1. i - Len(s) \in 1 .. Len(t) /\ t[i - Len(s)] = x
            BY <2>1, <2>3, Concatenated
        <3> QED BY <3>1 DEF Has
    <2> QED BY <2>2, <2>3
<1> QED BY <1>1, <1>2, <1>3

LEMMA HasAppend ==
  ASSUME NEW S, NEW s \in Seq(S), NEW e \in S, NEW x
  PROVE  Has(Append(s, e), x) <=> Has(s, x) \/ e = x
<1>1. ASSUME Has(s, x) \/ e = x PROVE Has(Append(s, e), x)
    <2>1. CASE Has(s, x)
        BY <2>1, Appended DEF Has
    <2>2. CASE e = x
        <3>1. Append(s, e)[Len(s) + 1] = x /\ Len(s) + 1 \in 1 .. Len(Append(s, e))
            BY <2>2, Appended
        <3> QED BY <3>1 DEF Has
    <2> QED BY <1>1, <2>1, <2>2
<1>2. ASSUME Has(Append(s, e), x) PROVE Has(s, x) \/ e = x
    <2>1. PICK i \in 1 .. Len(Append(s, e)) : Append(s, e)[i] = x
        BY <1>2 DEF Has
    <2>2. i \in 1 .. Len(s) \/ i = Len(s) + 1
        BY <2>1, Appended
    <2> QED BY <2>1, <2>2, Appended DEF Has
<1> QED BY <1>1, <1>2

LEMMA HasTail ==
  ASSUME NEW S, NEW s \in Seq(S), s # << >>, NEW x
  PROVE  Has(s, x) <=> Head(s) = x \/ Has(Tail(s), x)
<1>1. ASSUME Has(Tail(s), x) PROVE Has(s, x)
    <2>1. PICK i \in 1 .. Len(Tail(s)) : Tail(s)[i] = x
        BY <1>1 DEF Has
    <2>2. s[i + 1] = x /\ i + 1 \in 1 .. Len(s)
        BY <2>1, Shortened
    <2> QED BY <2>2 DEF Has
<1>2. ASSUME Has(s, x), Head(s) # x PROVE Has(Tail(s), x)
    <2>1. PICK i \in 1 .. Len(s) : s[i] = x
        BY <1>2 DEF Has
    <2>2. i - 1 \in 1 .. Len(Tail(s)) /\ Tail(s)[i - 1] = x
        BY <1>2, <2>1, Shortened
    <2> QED BY <2>2 DEF Has
<1>3. ASSUME Head(s) = x PROVE Has(s, x)
    <2>1. s[1] = x /\ 1 \in 1 .. Len(s)
        BY <1>3, Shortened
    <2> QED BY <2>1 DEF Has
<1> QED BY <1>1, <1>2, <1>3

LEMMA HasOne == \A x, y : /\ Has(<<y>>, x) <=> x = y
                          /\ ~ Has(<< >>, x)
BY DEF Has

LEMMA TellsConcat ==
  ASSUME NEW S, NEW s \in Seq(S), NEW t \in Seq(S), Tells(t), ~ Has(s, "KillMe")
  PROVE  Tells(s \o t)
<1>1. PICK i \in 1 .. Len(t) : t[i] = "Disable" /\ \A j \in 1 .. i - 1 : t[j] # "KillMe"
    BY DEF Tells
<1>2. Len(s) + i \in 1 .. Len(s \o t) /\ (s \o t)[Len(s) + i] = "Disable"
    BY <1>1, Concatenated
<1>3. ASSUME NEW j \in 1 .. Len(s) + i - 1 PROVE (s \o t)[j] # "KillMe"
    <2>1. CASE j \in 1 .. Len(s)
        BY <2>1, Concatenated DEF Has
    <2>2. CASE j \notin 1 .. Len(s)
        <3>1. j \in 1 .. Len(s \o t)
            BY <1>1, Concatenated
        <3>2. j - Len(s) \in 1 .. i - 1 /\ (s \o t)[j] = t[j - Len(s)]
            BY <2>2, <3>1, <1>1, Concatenated
        <3> QED BY <3>2, <1>1
    <2> QED BY <2>1, <2>2
<1> QED BY <1>2, <1>3 DEF Tells

LEMMA EmittedFacts ==
  ASSUME NEW m \in Message, NEW failed \in BOOLEAN, NEW ok \in BOOLEAN
  PROVE  /\ Emitted(m, failed, ok) \in Seq(OutNames)
         /\ Has(Emitted(m, failed, ok), "Finished") => m.name = "Finish"
         /\ Has(Emitted(m, failed, ok), "KillMe") => ~ ok
         /\ ~ ok /\ m.name # "Finish" => Tells(Emitted(m, failed, ok))
<1> DEFINE a == IF m.name = "Finish" THEN << >> ELSE <<"Disable">>
           f == IF ok THEN << >> ELSE Failure(m)
           p == CASE m.name = "Finish" -> <<"Finished">>
                  [] m.name = "Heartbeat" /\ ~ failed -> <<"FlushWriteBuffer">>
                  [] m.name = "Rotate" /\ ~ failed /\ ok -> <<"RotationFinished">>
                  [] OTHER -> << >>
<1>1. << >> \in Seq(OutNames) /\ \A n \in OutNames : <<n>> \in Seq(OutNames)
    OBVIOUS
<1>2. /\ a \in Seq(OutNames) /\ <<"KillMe">> \in Seq(OutNames)
      /\ a \o <<"KillMe">> = Failure(m)
    BY <1>1 DEF OutNames, Failure
<1>3. Failure(m) \in Seq(OutNames) /\ ~ Has(Failure(m), "Finished")
    <2>1. ~ Has(a, "Finished") /\ ~ Has(<<"KillMe">>, "Finished")
        BY HasOne
    <2>2. a \o <<"KillMe">> \in Seq(OutNames)
        BY <1>2, Concatenated
    <2>3. ~ Has(a \o <<"KillMe">>, "Finished")
        BY <1>2, <2>1, HasConcat
    <2> QED BY <1>2, <2>2, <2>3
<1>4. ASSUME m.name # "Finish" PROVE Tells(Failure(m))
    <2>1. /\ Len(<<"Disable">>) = 1 /\ <<"Disable">>[1] = "Disable"
          /\ <<"Disable">> \in Seq(OutNames)
        BY <1>1 DEF OutNames
    <2>2. /\ Failure(m) = <<"Disable">> \o <<"KillMe">>
          /\ Len(Failure(m)) >= 1 /\ Failure(m)[1] = "Disable"
        BY <1>4, <1>2, <2>1, Concatenated DEF Failure
    <2>3. \A j \in 1 .. 1 - 1 : Failure(m)[j] # "KillMe"
        OBVIOUS
    <2>4. Len(Failure(m)) \in Nat
        BY <1>3
    <2>5. 1 \in 1 .. Len(Failure(m))
        BY <2>2, <2>4
    <2> QED BY <2>2, <2>3, <2>5 DEF Tells
<1>5. f \in Seq(OutNames) /\ ~ Has(f, "Finished") /\ (Has(f, "KillMe") => ~ ok)
    BY <1>1, <1>3, HasOne
<1>6. /\ p \in Seq(OutNames) /\ ~ Has(p, "KillMe")
      /\ Has(p, "Finished") => m.name = "Finish"
    BY <1>1, HasOne DEF OutNames
<1>7. Emitted(m, failed, ok) = p \o f
    BY DEF Emitted
<1> HIDE DEF a, f, p
<1>8. /\ p \o f \in Seq(OutNames)
      /\ Has(p \o f, "Finished") => m.name = "Finish"
      /\ Has(p \o f, "KillMe") => ~ ok
    BY <1>5, <1>6, Concatenated, HasConcat
<1>9. ASSUME ~ ok, m.name # "Finish" PROVE Tells(p \o f)
    <2>1. Tells(f)
        BY <1>4, <1>9 DEF f
    <2> QED BY <1>5, <1>6, <2>1, TellsConcat
<1> QED BY <1>7, <1>8, <1>9

-----------------------------------------------------------------------------
(* Types                                                                   *)

\* The actions that leave the queues, the flags and the frontends alone.
Quiet == ProcessNext \/ ProcessDead \/ ProcessEnd \/ StartTerminate \/ JoinAll \/ Closed
         \/ Undefined

Tokens == {<< >>} \cup {<<Msg(n)>> : n \in InNames \ {"Write"}}

\* A call for w that is no write sends at most a message, the flushed buffer and
\* another message; Finish comes last, after the buffer, and only from Stop.
Delivers(w) ==
  \E a, z \in Tokens : \E flush \in BOOLEAN :
    /\ qin' = [qin EXCEPT ![w] = ((qin[w] \o a)
                 \o (IF flush THEN SendIn(w, Flushed(w)) ELSE << >>)) \o z]
    /\ fe' = [fe EXCEPT ![w] = fe'[w]] /\ fe'[w] \in Frontend
    /\ fe'[w].write_buffer = (IF flush THEN << >> ELSE fe[w].write_buffer)
    /\ a # <<Msg("Finish")>>
    /\ z = <<Msg("Finish")>> => flush /\ ~ fe'[w].backend /\ ~ th[w].terminating
    /\ \/ fe'[w].backend = fe[w].backend /\ fe'[w].disabled = fe[w].disabled
          /\ fe'[w].deleted = fe[w].deleted
       \/ ~ fe'[w].backend /\ fe'[w].disabled /\ flush

LEMMA ConcatAssoc ==
  ASSUME NEW S, NEW r \in Seq(S), NEW s \in Seq(S), NEW t \in Seq(S)
  PROVE  (r \o s) \o t = r \o (s \o t)
OBVIOUS

LEMMA ConcatEmpty ==
  ASSUME NEW S, NEW s \in Seq(S)
  PROVE  s \o << >> = s /\ << >> \o s = s
OBVIOUS

LEMMA ConcatAppend ==
  ASSUME NEW S, NEW s \in Seq(S), NEW e \in S
  PROVE  s \o <<e>> = Append(s, e)
OBVIOUS

LEMMA TokenType ==
  /\ Tokens \subseteq Seq(Message) /\ << >> \in Tokens
  /\ \A n \in InNames \ {"Write"} : <<Msg(n)>> \in Tokens
<1>1. << >> \in Tokens /\ \A n \in InNames \ {"Write"} : <<Msg(n)>> \in Tokens
    BY DEF Tokens
<1>2. ASSUME NEW t \in Tokens PROVE t \in Seq(Message)
    <2>1. CASE t = << >>
        BY <2>1
    <2>2. ASSUME NEW n \in InNames, t = <<Msg(n)>> PROVE t \in Seq(Message)
        <3>1. Msg(n) \in Message
            BY MsgType
        <3> QED BY <3>1, <2>2
    <2> QED BY <2>1, <2>2 DEF Tokens
<1> QED BY <1>1, <1>2

LEMMA RegroupedMessages ==
  \A q, a, z \in Seq(Message) : /\ q \o (a \o z) = (q \o a) \o z
                                /\ q \o (a \o z) = ((q \o << >>) \o a) \o z
                                /\ q \o (a \o z) = ((q \o a) \o z) \o << >>
<1> SUFFICES ASSUME NEW q \in Seq(Message), NEW a \in Seq(Message), NEW z \in Seq(Message)
             PROVE  /\ q \o (a \o z) = (q \o a) \o z
                    /\ q \o (a \o z) = ((q \o << >>) \o a) \o z
                    /\ q \o (a \o z) = ((q \o a) \o z) \o << >>
    OBVIOUS
<1>1. q \o << >> = q
    BY ConcatEmpty
<1>2. (q \o a) \o z = q \o (a \o z)
    BY ConcatAssoc
<1>3. q \o (a \o z) \in Seq(Message)
    OBVIOUS
<1>4. (q \o (a \o z)) \o << >> = q \o (a \o z)
    BY <1>3, ConcatEmpty
<1> QED BY <1>1, <1>2, <1>4

LEMMA TokenNames == \A m, n \in InNames : <<Msg(m)>> = <<Msg(n)>> => m = n
<1> SUFFICES ASSUME NEW m \in InNames, NEW n \in InNames, <<Msg(m)>> = <<Msg(n)>>
             PROVE  m = n
    OBVIOUS
<1>1. <<Msg(m)>>[1] = Msg(m) /\ <<Msg(n)>>[1] = Msg(n)
    OBVIOUS
<1> QED BY <1>1, MsgType

LEMMA TokenNonempty == \A n \in InNames : <<Msg(n)>> # << >>
OBVIOUS

LEMMA StopDelivers ==
  ASSUME TypeInv, NEW w \in Writers, NEW delete \in BOOLEAN, Stop(w, delete)
  PROVE  Delivers(w) /\ ~ fe'[w].backend
<1> DEFINE a == SendIn(w, Flushed(w))
           f == [Emptied(w) EXCEPT !.disabled = TRUE, !.backend = FALSE, !.deleted = delete]
<1>1. /\ fe \in [Writers -> Frontend] /\ qin \in [Writers -> Seq(Message)]
      /\ Emptied(w) \in Frontend
    BY CallTypes DEF TypeInv
<1>2. f \in Frontend /\ f.disabled /\ ~ f.backend /\ f.write_buffer = << >>
    BY <1>1 DEF Frontend, Emptied
<1>3. fe' = [fe EXCEPT ![w] = f] /\ qin' = [qin EXCEPT ![w] = @ \o (a \o SignalStop(w))]
    BY DEF Stop, Call
<1>4. fe'[w] = f /\ fe' = [fe EXCEPT ![w] = fe'[w]]
    BY <1>1, <1>3
<1>5. SignalStop(w) \in Tokens /\ << >> \in Tokens
    BY TokenType DEF SignalStop, InNames
<1>6. a \in Seq(Message) /\ SignalStop(w) \in Seq(Message) /\ qin[w] \in Seq(Message)
    BY <1>1, CallTypes
<1>7. qin[w] \o (a \o SignalStop(w)) = ((qin[w] \o << >>) \o a) \o SignalStop(w)
    BY <1>6, RegroupedMessages
<1>8. qin' = [qin EXCEPT ![w] = ((qin[w] \o << >>) \o (IF TRUE THEN a ELSE << >>))
                                \o SignalStop(w)]
    BY <1>3, <1>7
<1>9. /\ << >> # <<Msg("Finish")>>
      /\ SignalStop(w) = <<Msg("Finish")>> => ~ th[w].terminating
    BY TokenNonempty DEF InNames, SignalStop
<1> HIDE DEF f
<1> QED BY <1>2, <1>4, <1>5, <1>8, <1>9 DEF Delivers

LEMMA StreamCallDelivers ==
  ASSUME TypeInv, Flush \/ Rotate \/ (\E b \in BOOLEAN : SetBuf(b))
  PROVE  Undefined \/ (cur \in Writers /\ ~ Dangling(cur) /\ ~ fe[cur].disabled /\ Delivers(cur)
                       /\ mpc = "idle" /\ ops' \in Nat
                       /\ UNCHANGED <<th, qout, mpc, stage, logVars, childVars, mgrVars, records>>)
<1> SUFFICES ASSUME ~ Undefined
             PROVE  cur \in Writers /\ ~ Dangling(cur) /\ ~ fe[cur].disabled /\ Delivers(cur)
                    /\ mpc = "idle" /\ ops' \in Nat
                    /\ UNCHANGED <<th, qout, mpc, stage, logVars, childVars, mgrVars, records>>
    OBVIOUS
<1>1. PICK msgs, f : StreamCall(msgs, f)
    BY DEF Flush, Rotate, SetBuf
<1>2. /\ cur \in Writers /\ ~ Dangling(cur) /\ ~ fe[cur].disabled /\ mpc = "idle"
      /\ ops' \in Nat
      /\ UNCHANGED <<th, qout, mpc, stage, logVars, childVars, mgrVars, records>>
    <2>1. cur \in Writers /\ ops + 1 \in Nat
        BY <1>1, ConstantsAssumption DEF StreamCall, TypeInv, Writers
    <2> QED BY <2>1, <1>1 DEF StreamCall
<1> DEFINE w == cur
           a == SendIn(w, Flushed(w))
<1>3. /\ fe \in [Writers -> Frontend] /\ qin \in [Writers -> Seq(Message)]
      /\ Emptied(w) \in Frontend /\ Emptied(w).write_buffer = << >>
      /\ Emptied(w).backend = fe[w].backend /\ Emptied(w).disabled = fe[w].disabled
      /\ Emptied(w).deleted = fe[w].deleted
    BY <1>2, CallTypes DEF TypeInv, Emptied, Frontend
<1>4. a \in Seq(Message) /\ Flushed(w) \in Seq(Message) /\ qin[w] \in Seq(Message)
    BY <1>2, <1>3, CallTypes
<1>5. ASSUME NEW n \in {"Flush", "Rotate"},
             StreamCall(Append(Flushed(cur), Msg(n)), Emptied(cur))
      PROVE  Delivers(cur)
    <2>1. Call(w, SendIn(w, Append(Flushed(w), Msg(n))), Emptied(w))
        BY <1>5, <1>2 DEF StreamCall
    <2> DEFINE z == SendIn(w, <<Msg(n)>>)
    <2>2. z \in Tokens /\ << >> \in Tokens /\ z \in Seq(Message) /\ Msg(n) \in Message
        BY TokenType, MsgType DEF SendIn, InNames
    <2>3. Append(Flushed(w), Msg(n)) = Flushed(w) \o <<Msg(n)>>
        BY <1>4, <2>2, ConcatAppend
    <2>4. SendIn(w, Append(Flushed(w), Msg(n))) = a \o z
        BY <2>3 DEF SendIn
    <2>5. qin[w] \o (a \o z) = ((qin[w] \o << >>) \o a) \o z
        BY <1>4, <2>2, RegroupedMessages
    <2>6. qin' = [qin EXCEPT ![w] = ((qin[w] \o << >>) \o (IF TRUE THEN a ELSE << >>)) \o z]
        BY <2>1, <2>4, <2>5 DEF Call
    <2>7. fe' = [fe EXCEPT ![w] = fe'[w]] /\ fe'[w] = Emptied(w)
        BY <2>1, <1>2, <1>3 DEF Call
    <2>8. << >> # <<Msg("Finish")>> /\ z # <<Msg("Finish")>>
        BY TokenNonempty, TokenNames DEF InNames, SendIn
    <2> HIDE DEF z, a
    <2> QED BY <2>2, <2>6, <2>7, <2>8, <1>3 DEF Delivers, a
<1>6. ASSUME NEW enabled \in BOOLEAN, SetBuf(enabled) PROVE Delivers(cur)
    <2> DEFINE g == [fe[cur] EXCEPT !.buf = enabled, !.write_buffer = BufferAfter(@, ~ enabled)]
               y == IF enabled THEN << >> ELSE Flushed(w)
               z == SendIn(w, <<Msg("SetBuf")>>)
    <2>1. Call(w, SendIn(w, <<Msg("SetBuf")>> \o y), g)
        BY <1>6, <1>2 DEF StreamCall, SetBuf
    <2>2. z \in Tokens /\ << >> \in Tokens /\ z \in Seq(Message) /\ y \in Seq(Message)
        BY <1>4, TokenType DEF SendIn, InNames
    <2>3. SendIn(w, <<Msg("SetBuf")>> \o y) = z \o (IF ~ enabled THEN a ELSE << >>)
        BY <2>2, ConcatEmpty DEF SendIn
    <2> DEFINE x == IF ~ enabled THEN a ELSE << >>
    <2>4. x \in Seq(Message)
        BY <1>4
    <2>5. qin[w] \o (z \o x) = ((qin[w] \o z) \o x) \o << >>
        BY ZenonT(40), <1>4, <2>2, <2>4, RegroupedMessages
    <2>6. qin' = [qin EXCEPT ![w] = ((qin[w] \o z) \o (IF ~ enabled THEN a ELSE << >>)) \o << >>]
        BY <2>1, <2>3, <2>5 DEF Call
    <2>7. /\ g \in Frontend /\ g.backend = fe[w].backend /\ g.disabled = fe[w].disabled
          /\ g.deleted = fe[w].deleted
          /\ g.write_buffer = (IF ~ enabled THEN << >> ELSE fe[w].write_buffer)
        <3>1. << >> \in Seq(Record)
            OBVIOUS
        <3> QED BY <3>1, <1>2, <1>3 DEF Frontend, BufferAfter
    <2>8. fe' = [fe EXCEPT ![w] = g] /\ fe'[w] = g
        BY <2>1, <1>2, <1>3 DEF Call
    <2>9. << >> # <<Msg("Finish")>> /\ z # <<Msg("Finish")>>
        BY TokenNonempty, TokenNames DEF InNames, SendIn
    <2>10. (~ enabled) \in BOOLEAN
        OBVIOUS
    <2> HIDE DEF z, a, g
    <2> QED BY <2>2, <2>6, <2>7, <2>8, <2>9, <2>10 DEF Delivers, a
<1>7. Delivers(cur)
    BY <1>5, <1>6 DEF Flush, Rotate
<1> QED BY <1>2, <1>7

LEMMA DeliversType ==
  ASSUME TypeInv, NEW w \in Writers, Delivers(w)
  PROVE  qin' \in [Writers -> Seq(Message)] /\ fe' \in [Writers -> Frontend]
<1>1. PICK a \in Tokens, z \in Tokens, flush \in BOOLEAN :
        /\ qin' = [qin EXCEPT ![w] = ((qin[w] \o a)
                     \o (IF flush THEN SendIn(w, Flushed(w)) ELSE << >>)) \o z]
        /\ fe' = [fe EXCEPT ![w] = fe'[w]] /\ fe'[w] \in Frontend
    BY DEF Delivers
<1> DEFINE x == IF flush THEN SendIn(w, Flushed(w)) ELSE << >>
<1>2. /\ a \in Seq(Message) /\ z \in Seq(Message) /\ x \in Seq(Message)
      /\ qin[w] \in Seq(Message)
    BY TokenType, CallTypes DEF TypeInv
<1> HIDE DEF x
<1>3. ((qin[w] \o a) \o x) \o z \in Seq(Message)
    BY <1>2
<1>4. qin' = [qin EXCEPT ![w] = ((qin[w] \o a) \o x) \o z]
    BY <1>1 DEF x
<1> QED BY <1>1, <1>3, <1>4 DEF TypeInv

\* The writer a record goes to.
Target == IF cur = 0 THEN created + 1 ELSE cur

\* A record that is accepted, after the message that opens a new writer.
Accepts ==
  \E first, flush \in BOOLEAN :
    LET buffer == Append(fe[Target].write_buffer, records + 1)
    IN /\ qin' = [qin EXCEPT ![Target] =
                    (qin[Target] \o (IF first THEN SendIn(Target, <<Msg("Init")>>) ELSE << >>))
                      \o (IF flush THEN SendIn(Target, <<[name |-> "Write", recs |-> buffer]>>)
                         ELSE << >>)]
       /\ fe' = [fe EXCEPT ![Target] =
                   [fe[Target] EXCEPT !.write_buffer = BufferAfter(buffer, flush)]]
       /\ accepted' = [accepted EXCEPT ![Target] = Append(accepted[Target], records + 1)]
       /\ flush => ~ Dangling(Target)

LEMMA WriteFacts ==
  ASSUME TypeInv, Write
  PROVE  \/ Undefined
         \/ /\ Target \in Writers /\ mpc = "idle" /\ cur' = Target /\ records' = records + 1
            /\ created' = (IF cur = 0 THEN Target ELSE created)
            /\ UNCHANGED <<th, qout, mpc, stage, childVars, mgrVars, ops>>
            /\ \/ fe[Target].disabled /\ UNCHANGED <<fe, qin, accepted>>
               \/ ~ fe[Target].disabled /\ Accepts
<1> DEFINE first == cur = 0
           buffer == Append(fe[Target].write_buffer, records + 1)
           flush == Len(buffer) >= BufferSize \/ ~ fe[Target].buf \/ stage # "run"
           a == IF first THEN <<Msg("Init")>> ELSE << >>
           x == IF flush THEN <<[name |-> "Write", recs |-> buffer]>> ELSE << >>
<1> SUFFICES ASSUME ~ Undefined
             PROVE  /\ Target \in Writers /\ mpc = "idle" /\ cur' = Target /\ records' = records + 1
                    /\ created' = (IF cur = 0 THEN Target ELSE created)
                    /\ UNCHANGED <<th, qout, mpc, stage, childVars, mgrVars, ops>>
                    /\ \/ fe[Target].disabled /\ UNCHANGED <<fe, qin, accepted>>
                       \/ ~ fe[Target].disabled /\ Accepts
    OBVIOUS
<1>1. Target \in Writers /\ mpc = "idle"
    BY DEF Write, Target
<1>2. ~ (Dangling(Target) /\ flush /\ ~ fe[Target].disabled)
    BY DEF Write, Target
<1>3. /\ cur' = Target /\ records' = records + 1
      /\ created' = (IF cur = 0 THEN Target ELSE created)
      /\ UNCHANGED <<th, qout, mpc, stage, childVars, mgrVars, ops>>
    BY DEF Write, Target
<1>4. CASE fe[Target].disabled
    <2>1. UNCHANGED <<fe, qin, accepted>>
        BY <1>4 DEF Write, Target
    <2> QED BY <1>1, <1>3, <1>4, <2>1
<1>5. CASE ~ fe[Target].disabled
    <2>1. /\ Call(Target, SendIn(Target, a \o x),
                  [fe[Target] EXCEPT !.write_buffer = BufferAfter(buffer, flush)])
          /\ accepted' = [accepted EXCEPT ![Target] = Append(@, records + 1)]
        BY <1>5, <1>2 DEF Write, Target
    <2>2. buffer \in Seq(Record)
        BY <1>1 DEF TypeInv, Frontend, Record
    <2> HIDE DEF buffer
    <2>3. a \in Seq(Message) /\ x \in Seq(Message) /\ qin[Target] \in Seq(Message)
        <3>1. Msg("Init") \in Message /\ [name |-> "Write", recs |-> buffer] \in Message
            BY <2>2, MsgType DEF InNames
        <3> QED BY <3>1, <1>1 DEF TypeInv
    <2>4. SendIn(Target, a \o x) = SendIn(Target, a) \o SendIn(Target, x)
        <3>1. << >> \o << >> = << >>
            OBVIOUS
        <3> HIDE DEF a, x
        <3> QED BY <3>1 DEF SendIn
    <2> DEFINE c == IF first THEN SendIn(Target, <<Msg("Init")>>) ELSE << >>
               y == IF flush THEN SendIn(Target, <<[name |-> "Write", recs |-> buffer]>>) ELSE << >>
    <2>5. SendIn(Target, a) = c /\ SendIn(Target, x) = y
        BY DEF SendIn
    <2>6. c \in Seq(Message) /\ y \in Seq(Message)
        BY <2>3, <2>5 DEF SendIn
    <2> HIDE DEF a, x, c, y
    <2>7. qin[Target] \o (c \o y) = (qin[Target] \o c) \o y
        BY <2>3, <2>6, RegroupedMessages
    <2>8. qin' = [qin EXCEPT ![Target] = (qin[Target] \o c) \o y]
        BY <2>1, <2>4, <2>5, <2>7 DEF Call
    <2>9. fe' = [fe EXCEPT ![Target] =
                   [fe[Target] EXCEPT !.write_buffer = BufferAfter(buffer, flush)]]
        BY <2>1 DEF Call
    <2>10. /\ flush => ~ Dangling(Target)
           /\ accepted' = [accepted EXCEPT ![Target] = Append(accepted[Target], records + 1)]
        BY <1>2, <1>5, <2>1
    <2>11. first \in BOOLEAN /\ flush \in BOOLEAN
        OBVIOUS
    <2> HIDE DEF flush, first
    <2>12. Accepts
        BY <2>8, <2>9, <2>10, <2>11 DEF Accepts, buffer, c, y
    <2> QED BY <1>1, <1>3, <1>5, <2>12
<1> QED BY <1>4, <1>5

LEMMA AcceptsType ==
  ASSUME TypeInv, Target \in Writers, Accepts
  PROVE  /\ qin' \in [Writers -> Seq(Message)] /\ fe' \in [Writers -> Frontend]
         /\ accepted' \in [Writers -> Seq(Record)]
<1> DEFINE buffer == Append(fe[Target].write_buffer, records + 1)
           c(first) == IF first THEN SendIn(Target, <<Msg("Init")>>) ELSE << >>
           y(flush) == IF flush THEN SendIn(Target, <<[name |-> "Write", recs |-> buffer]>>) ELSE << >>
<1>1. PICK first \in BOOLEAN, flush \in BOOLEAN :
       /\ qin' = [qin EXCEPT ![Target] = (qin[Target] \o c(first)) \o y(flush)]
       /\ fe' = [fe EXCEPT ![Target] =
                   [fe[Target] EXCEPT !.write_buffer = BufferAfter(buffer, flush)]]
       /\ accepted' = [accepted EXCEPT ![Target] = Append(accepted[Target], records + 1)]
    BY DEF Accepts
<1>2. buffer \in Seq(Record) /\ records + 1 \in Record
    BY DEF TypeInv, Frontend, Record
<1> HIDE DEF buffer
<1>3. <<Msg("Init")>> \in Seq(Message) /\ <<[name |-> "Write", recs |-> buffer]>> \in Seq(Message)
    BY <1>2, MsgType DEF InNames
<1>4. c(first) \in Seq(Message) /\ y(flush) \in Seq(Message) /\ qin[Target] \in Seq(Message)
    BY <1>3 DEF SendIn, TypeInv
<1> HIDE DEF c, y
<1>5. (qin[Target] \o c(first)) \o y(flush) \in Seq(Message)
    BY <1>4
<1>6. BufferAfter(buffer, flush) \in Seq(Record)
    BY <1>2 DEF BufferAfter
<1>7. [fe[Target] EXCEPT !.write_buffer = BufferAfter(buffer, flush)] \in Frontend
    BY ZenonT(40), <1>6 DEF TypeInv, Frontend
<1>8. Append(accepted[Target], records + 1) \in Seq(Record)
    BY <1>2 DEF TypeInv
<1> QED BY <1>1, <1>5, <1>7, <1>8 DEF TypeInv

LEMMA KilledType ==
  ASSUME TypeInv, NEW W, th' = Killed(W)
  PROVE  /\ th' \in [Writers -> [Flags -> BOOLEAN]]
         /\ \A w \in Writers :
              /\ \A f \in Flags \ {"terminating", "killed", "condemned"} : th'[w][f] = th[w][f]
              /\ w \notin W => th'[w] = th[w]
              /\ w \in W => th'[w].terminating /\ th'[w].killed /\ th'[w].condemned
BY DEF TypeInv, Killed, Flags

LEMMA AliveFacts == ASSUME TypeInv
                    PROVE  /\ 1 .. created \subseteq Writers /\ Alive \subseteq 1 .. created
                           /\ \A w \in Writers : w \in Alive <=> w <= created /\ ~ th[w].deleted
BY ConstantsAssumption DEF TypeInv, Alive, Writers

LEMMA HandleType ==
  ASSUME TypeInv, turn \in Writers, NEW name \in OutNames, Handle(name)
  PROVE  /\ qin' \in [Writers -> Seq(Message)] /\ fe' \in [Writers -> Frontend]
         /\ th' \in [Writers -> [Flags -> BOOLEAN]]
<1>1. CASE name = "Disable"
    <2>1. fe' = [fe EXCEPT ![turn].disabled = TRUE] /\ UNCHANGED <<th, qin>>
        BY <1>1 DEF Handle
    <2>2. fe' \in [Writers -> Frontend]
        BY <2>1 DEF TypeInv, Frontend
    <2> QED BY <2>1, <2>2 DEF TypeInv
<1>2. CASE name = "FlushWriteBuffer"
    <2>1. /\ Call(turn, IF fe[turn].backend THEN SendIn(turn, Flushed(turn)) ELSE << >>,
                  Emptied(turn))
          /\ UNCHANGED th
        BY <1>2 DEF Handle
    <2>2. (IF fe[turn].backend THEN SendIn(turn, Flushed(turn)) ELSE << >>) \in Seq(Message)
        BY CallTypes
    <2>3. Emptied(turn) \in Frontend
        BY CallTypes
    <2>4. qin' \in [Writers -> Seq(Message)] /\ fe' \in [Writers -> Frontend]
        BY <2>1, <2>2, <2>3, CallType
    <2> QED BY <2>1, <2>4 DEF TypeInv
<1>3. CASE name = "RotationFinished"
    <2>1. /\ fe' = fe
          /\ \/ UNCHANGED <<th, qin>>
             \/ /\ qin' = [qin EXCEPT ![turn] = @ \o SignalStop(turn)]
                /\ th' = [th EXCEPT ![turn].halted = TRUE]
        BY <1>3 DEF Handle
    <2>2. qin[turn] \o SignalStop(turn) \in Seq(Message)
        BY CallTypes DEF TypeInv
    <2>3. th' \in [Writers -> [Flags -> BOOLEAN]]
        <3>1. CASE th' = [th EXCEPT ![turn].halted = TRUE]
            BY <3>1 DEF TypeInv, Flags
        <3> QED BY <2>1, <3>1 DEF TypeInv
    <2>4. qin' \in [Writers -> Seq(Message)]
        BY <2>1, <2>2 DEF TypeInv
    <2> QED BY <2>1, <2>3, <2>4 DEF TypeInv
<1>4. CASE name = "KillMe"
    BY <1>4, KilledType DEF Handle, TypeInv
<1>5. CASE name = "Finished"
    <2>1. th' = [th EXCEPT ![turn].main_finished = TRUE] /\ UNCHANGED <<fe, qin>>
        BY <1>5 DEF Handle
    <2>2. th' \in [Writers -> [Flags -> BOOLEAN]]
        BY <2>1 DEF TypeInv, Flags
    <2> QED BY <2>1, <2>2 DEF TypeInv
<1> QED BY <1>1, <1>2, <1>3, <1>4, <1>5 DEF OutNames

LEMMA NextType == TypeInv /\ [Next]_vars => TypeInv'
<1> SUFFICES ASSUME TypeInv, [Next]_vars PROVE TypeInv'
    OBVIOUS
<1> USE DEF TypeInv, logVars, childVars, mgrVars, budget
<1>1. ASSUME NEW w \in Writers, Run(w) PROVE TypeInv'
    <2>1. Head(qin[w]) \in Message /\ Tail(qin[w]) \in Seq(Message)
        BY <1>1, Shortened DEF Run
    <2> DEFINE m == Head(qin[w])
               failed == th[w].failed
    <2>2. failed \in BOOLEAN
        BY DEF Flags
    <2>3. PICK ok \in BOOLEAN :
            /\ todo' = [todo EXCEPT ![w] = Emitted(m, failed, ok)]
            /\ th' = [th EXCEPT ![w].failed = @ \/ ~ ok,
                                ![w].child_finished = @ \/ m.name = "Finish"]
            /\ \E n \in IF ok \/ m.recs = << >> THEN {Len(m.recs)} ELSE 0 .. Len(m.recs) - 1 :
                 file' = [file EXCEPT ![w] =
                            IF failed THEN @
                            ELSE @ \o SubSeq(m.recs, 1, n)
                                   \o (IF m.name = "Finish" THEN <<0>> ELSE << >>)]
        BY <1>1 DEF Run
    <2>4. todo' \in [Writers -> Seq(OutNames)]
        BY <2>1, <2>2, <2>3, EmittedFacts
    <2>5. th' \in [Writers -> [Flags -> BOOLEAN]]
        BY <2>3 DEF Flags
    <2>6. file' \in [Writers -> Seq(Nat)]
        <3>1. PICK n \in IF ok \/ m.recs = << >> THEN {Len(m.recs)} ELSE 0 .. Len(m.recs) - 1 :
                 file' = [file EXCEPT ![w] =
                            IF failed THEN @
                            ELSE @ \o SubSeq(m.recs, 1, n)
                                   \o (IF m.name = "Finish" THEN <<0>> ELSE << >>)]
            BY <2>3
        <3>2. m.recs \in Seq(Nat) /\ n \in 0 .. Len(m.recs)
            BY SMTT(30), <2>1 DEF Message, Record
        <3>3. SubSeq(m.recs, 1, n) \in Seq(Nat)
            BY <3>2, Prefixed
        <3>4. file[w] \o SubSeq(m.recs, 1, n) \in Seq(Nat)
            BY <3>3, Concatenated
        <3>5. (IF m.name = "Finish" THEN <<0>> ELSE << >>) \in Seq(Nat)
            OBVIOUS
        <3>6. file[w] \o SubSeq(m.recs, 1, n)
                 \o (IF m.name = "Finish" THEN <<0>> ELSE << >>) \in Seq(Nat)
            BY <3>4, <3>5, Concatenated
        <3> QED BY <3>1, <3>6
    <2> QED BY <1>1, <2>1, <2>4, <2>5, <2>6 DEF Run
<1>2. ASSUME NEW w \in Writers, SendOut(w) PROVE TypeInv'
    BY <1>2 DEF SendOut
<1>3. ASSUME NEW w \in Writers, Done(w) PROVE TypeInv'
    BY <1>3 DEF Done, Flags
<1>6. ASSUME Quiet PROVE TypeInv'
    <2>1. UNCHANGED <<fe, th, qin, qout, cur, created, accepted, todo, file, records, ops>>
        BY <1>6 DEF Quiet, ProcessNext, ProcessDead, ProcessEnd, StartTerminate, JoinAll, Closed,
                    Undefined
    <2>2. turn' \in Nat \ {0} /\ dead' \subseteq 1 .. created
        <3>1. Alive \subseteq 1 .. created
            BY DEF Alive
        <3>2. turn' \in {1, turn, turn + 1} /\ (dead' = dead \/ dead' \subseteq Alive)
            BY <1>6 DEF Quiet, ProcessNext, ProcessDead, ProcessEnd, StartTerminate, JoinAll,
                        Closed, Undefined
        <3>3. turn' \in Nat \ {0}
            BY <3>2
        <3>4. dead' \subseteq 1 .. created
            BY <3>1, <3>2
        <3> QED BY <3>3, <3>4
    <2>3. /\ mpc' \in {"idle", "process", "join", "wait", "final", "closed", "exit", "undefined"}
          /\ stage' \in {"run", "bro_done", "threads"}
        BY <1>6 DEF Quiet, ProcessNext, ProcessDead, ProcessEnd, StartTerminate, JoinAll, Closed,
                    Undefined
    <2> QED BY <2>1, <2>2, <2>3
<1>7. ASSUME Write, ~ Undefined PROVE TypeInv'
    <2>1. /\ Target \in Writers /\ cur' = Target /\ records' = records + 1
          /\ created' = (IF cur = 0 THEN Target ELSE created)
          /\ UNCHANGED <<th, qout, mpc, stage, childVars, mgrVars, ops>>
          /\ \/ UNCHANGED <<fe, qin, accepted>>
             \/ Accepts
        BY <1>7, WriteFacts
    <2>2. /\ qin' \in [Writers -> Seq(Message)] /\ fe' \in [Writers -> Frontend]
          /\ accepted' \in [Writers -> Seq(Record)]
        BY <2>1, AcceptsType
    <2>3. created' \in 0 .. MaxWriters /\ cur' \in 0 .. created' /\ created <= created'
        BY <2>1, ConstantsAssumption DEF Target, Writers
    <2>4. dead' \subseteq 1 .. created' /\ records' \in Nat
        BY <2>1, <2>3
    <2> QED BY <2>1, <2>2, <2>3, <2>4
<1>8. ASSUME Flush \/ Rotate \/ (\E b \in BOOLEAN : SetBuf(b)), ~ Undefined PROVE TypeInv'
    <2>1. /\ cur \in Writers /\ Delivers(cur) /\ ops' \in Nat
          /\ UNCHANGED <<th, qout, mpc, stage, logVars, childVars, mgrVars, records>>
        BY <1>8, StreamCallDelivers
    <2>2. qin' \in [Writers -> Seq(Message)] /\ fe' \in [Writers -> Frontend]
        BY <2>1, DeliversType
    <2> QED BY <2>1, <2>2
<1>9. ASSUME NEW b \in BOOLEAN, RemoveWriter(b), ~ Undefined PROVE TypeInv'
    <2>1. /\ cur \in Writers /\ Stop(cur, b) /\ cur' = 0 /\ ops' = ops + 1
          /\ UNCHANGED <<th, qout, mpc, stage, created, accepted, childVars, mgrVars, records>>
        BY <1>9, ConstantsAssumption DEF RemoveWriter, Writers
    <2>2. qin' \in [Writers -> Seq(Message)] /\ fe' \in [Writers -> Frontend]
        BY <2>1, DeliversType, StopDelivers
    <2> QED BY <2>1, <2>2
<1>10. ASSUME Terminate, ~ Undefined PROVE TypeInv'
    <2>1. /\ IF cur # 0 THEN Stop(cur, FALSE) ELSE UNCHANGED <<fe, qin>>
          /\ stage' = "threads" /\ mpc' = "process" /\ turn' = 1
          /\ UNCHANGED <<th, qout, logVars, childVars, dead, budget>>
        BY <1>10 DEF Terminate
    <2>2. qin' \in [Writers -> Seq(Message)] /\ fe' \in [Writers -> Frontend]
        <3>1. CASE cur # 0
            <4>1. cur \in Writers
                BY <3>1, ConstantsAssumption DEF Writers
            <4> QED BY <2>1, <3>1, <4>1, DeliversType, StopDelivers
        <3> QED BY <2>1, <3>1
    <2> QED BY <2>1, <2>2
<1>11. ASSUME NEW b \in BOOLEAN, StartProcess(b) PROVE TypeInv'
    <2>1. \A w \in Writers : SendIn(w, <<Msg("Heartbeat")>>) \in Seq(Message)
        <3>1. <<Msg("Heartbeat")>> \in Seq(Message)
            BY MsgType DEF InNames
        <3> QED BY <3>1, CallTypes
    <2>2. \A w \in Writers : qin[w] \o SendIn(w, <<Msg("Heartbeat")>>) \in Seq(Message)
        BY <2>1, Concatenated
    <2>3. qin' \in [Writers -> Seq(Message)]
        BY <1>11, <2>2 DEF StartProcess
    <2>4. mpc' = "process" /\ turn' = 1 /\ ops' \in Nat
        BY <1>11 DEF StartProcess
    <2>5. UNCHANGED <<fe, th, qout, stage, logVars, childVars, dead, signal_count, records>>
        BY <1>11 DEF StartProcess
    <2> QED BY <2>3, <2>4, <2>5
<1>12. ASSUME SignalAll PROVE TypeInv'
    <2>1. \A w \in Writers : qin[w] \o SignalStop(w) \in Seq(Message)
        <3>1. \A w \in Writers : SignalStop(w) \in Seq(Message)
            BY CallTypes
        <3> QED BY <3>1, Concatenated
    <2>2. qin' \in [Writers -> Seq(Message)]
        BY <1>12, <2>1 DEF SignalAll
    <2> QED BY <1>12, <2>2 DEF SignalAll
<1>13. ASSUME ProcessOut, ~ Undefined PROVE TypeInv'
    <2>1. /\ turn \in Alive /\ qout[turn] # << >> /\ Handle(Head(qout[turn]))
          /\ qout' = [qout EXCEPT ![turn] = Tail(@)]
          /\ UNCHANGED <<mpc, stage, logVars, childVars, turn, dead, signal_count, budget>>
        BY <1>13 DEF ProcessOut
    <2>2. turn \in Writers
        BY <2>1, AliveFacts
    <2>3. Head(qout[turn]) \in OutNames /\ Tail(qout[turn]) \in Seq(OutNames)
        BY <2>1, <2>2
    <2>4. /\ qin' \in [Writers -> Seq(Message)] /\ fe' \in [Writers -> Frontend]
          /\ th' \in [Writers -> [Flags -> BOOLEAN]]
        BY <2>1, <2>2, <2>3, HandleType
    <2> QED BY <2>1, <2>2, <2>3, <2>4
<1>14. ASSUME NEW w \in Writers, Join(w) PROVE TypeInv'
    BY <1>14 DEF Join, Flags
<1>15. ASSUME WaitNext PROVE TypeInv'
    <2>1. turn \in Writers
        BY <1>15, ConstantsAssumption DEF WaitNext, Writers
    <2>2. th' = [th EXCEPT ![turn].terminating = TRUE] /\ turn' = turn + 1
        BY <1>15 DEF WaitNext
    <2>3. UNCHANGED <<fe, qin, qout, mpc, stage, logVars, childVars, dead, budget>>
        BY <1>15 DEF WaitNext
    <2>4. th' \in [Writers -> [Flags -> BOOLEAN]]
        BY <2>1, <2>2 DEF Flags
    <2>5. turn' \in Nat \ {0}
        BY <2>2
    <2> QED BY <2>3, <2>4, <2>5
<1>16. ASSUME Signal PROVE TypeInv'
    <2>1. th' \in [Writers -> [Flags -> BOOLEAN]]
        <3>1. th' = Killed(Alive) \/ th' = th
            BY <1>16 DEF Signal
        <3> QED BY <3>1, KilledType
    <2>2. mpc' \in {mpc, "exit"}
        BY <1>16 DEF Signal
    <2> QED BY <1>16, <2>1, <2>2 DEF Signal
<1>17. ASSUME UNCHANGED vars PROVE TypeInv'
    BY <1>17 DEF vars
<1> QED BY <1>1, <1>2, <1>3, <1>6, <1>7, <1>8, <1>9, <1>10, <1>11, <1>12, <1>13, <1>14, <1>15,
           <1>16, <1>17
        DEF Next, Calls, ManagerStep, Child, Quiet

-----------------------------------------------------------------------------
(* What a step does to the flags of a thread and to what it sends           *)

\* The flags in F are raised, the others are left alone.
Raised(w, F) == \A f \in Flags : th'[w][f] <=> (th[w][f] \/ f \in F)

\* The main thread takes the message n of w.
Processes(w, n) == /\ ProcessOut /\ ~ Undefined /\ turn = w /\ w \in Alive /\ qout[w] # << >>
                   /\ Head(qout[w]) = n /\ Handle(n)

\* The flags and the file after message m.
RunResult(w, m, ok, n) ==
  /\ n \in 0 .. Len(m.recs) /\ (ok => n = Len(m.recs)) /\ (th[w].failed => ok)
  /\ todo'[w] = Emitted(m, th[w].failed, ok)
  /\ Raised(w, (IF ok THEN {} ELSE {"failed"})
                 \cup (IF m.name = "Finish" THEN {"child_finished"} ELSE {}))
  /\ file'[w] = IF th[w].failed THEN file[w]
                ELSE (file[w] \o SubSeq(m.recs, 1, n))
                        \o (IF m.name = "Finish" THEN <<0>> ELSE << >>)

LEMMA RunFacts ==
  ASSUME TypeInv, NEW w \in Writers, Run(w)
  PROVE  /\ todo[w] = << >> /\ qin[w] # << >> /\ Head(qin[w]) \in Message
         /\ ~ th[w].child_finished /\ ~ th[w].killed /\ ~ th[w].exited /\ w \in Alive
         /\ qin'[w] = Tail(qin[w])
         /\ \E ok \in BOOLEAN : \E n \in Nat : RunResult(w, Head(qin[w]), ok, n)
         /\ UNCHANGED <<fe, qout, mpc, stage, logVars, mgrVars, budget>>
         /\ \A v \in Writers \ {w} : /\ th'[v] = th[v] /\ qin'[v] = qin[v]
                                     /\ todo'[v] = todo[v] /\ file'[v] = file[v]
<1> DEFINE m == Head(qin[w])
           failed == th[w].failed
<1>1. /\ todo[w] = << >> /\ qin[w] # << >> /\ m \in Message
      /\ ~ th[w].child_finished /\ ~ th[w].killed /\ ~ th[w].exited /\ w \in Alive
    BY SMTT(30) DEF Run, Running, Goes, TypeInv
<1>2. UNCHANGED <<fe, qout, mpc, stage, logVars, mgrVars, budget>>
    BY DEF Run
<1>3. qin'[w] = Tail(qin[w]) /\ \A v \in Writers \ {w} : qin'[v] = qin[v]
    BY DEF Run, TypeInv
<1>4. PICK ok \in IF failed \/ m.name = "Heartbeat" THEN {TRUE} ELSE BOOLEAN :
            /\ todo' = [todo EXCEPT ![w] = Emitted(m, failed, ok)]
            /\ th' = [th EXCEPT ![w].failed = @ \/ ~ ok,
                                ![w].child_finished = @ \/ m.name = "Finish"]
            /\ \E n \in IF ok \/ m.recs = << >> THEN {Len(m.recs)} ELSE 0 .. Len(m.recs) - 1 :
                 file' = [file EXCEPT ![w] =
                            IF failed THEN @
                            ELSE @ \o SubSeq(m.recs, 1, n)
                                   \o (IF m.name = "Finish" THEN <<0>> ELSE << >>)]
    BY DEF Run
<1>5. PICK n \in IF ok \/ m.recs = << >> THEN {Len(m.recs)} ELSE 0 .. Len(m.recs) - 1 :
                 file' = [file EXCEPT ![w] =
                            IF failed THEN @
                            ELSE @ \o SubSeq(m.recs, 1, n)
                                   \o (IF m.name = "Finish" THEN <<0>> ELSE << >>)]
    BY <1>4
<1> HIDE DEF m
<1>6. failed \in BOOLEAN /\ ok \in BOOLEAN /\ (failed => ok)
    <2>1. failed \in BOOLEAN
        BY DEF TypeInv, Flags
    <2> HIDE DEF failed
    <2>2. ok \in BOOLEAN /\ (failed => ok)
        BY <2>1
    <2> QED BY <2>1, <2>2
<1>7. n \in Nat /\ n \in 0 .. Len(m.recs) /\ (ok => n = Len(m.recs))
    BY <1>1, <1>5, <1>6 DEF Message
<1>8. /\ todo'[w] = Emitted(m, failed, ok)
      /\ file'[w] = IF failed THEN file[w]
                ELSE (file[w] \o SubSeq(m.recs, 1, n))
                        \o (IF m.name = "Finish" THEN <<0>> ELSE << >>)
      /\ \A v \in Writers \ {w} : todo'[v] = todo[v] /\ file'[v] = file[v] /\ th'[v] = th[v]
    BY <1>4, <1>5 DEF TypeInv
<1>9. th'[w] = [th[w] EXCEPT !.failed = @ \/ ~ ok, !.child_finished = @ \/ m.name = "Finish"]
    BY <1>4 DEF TypeInv
<1>10. Raised(w, (IF ok THEN {} ELSE {"failed"})
                 \cup (IF m.name = "Finish" THEN {"child_finished"} ELSE {}))
    <2>1. th[w] \in [Flags -> BOOLEAN]
        BY DEF TypeInv
    <2>2. ASSUME NEW f \in Flags \ {"failed", "child_finished"}
          PROVE  th'[w][f] = th[w][f]
        BY <1>9, <2>1, <2>2 DEF Flags
    <2>3. /\ th'[w].failed <=> th[w].failed \/ ~ ok
          /\ th'[w].child_finished <=> th[w].child_finished \/ m.name = "Finish"
        BY <1>6, <1>9, <2>1 DEF Flags
    <2> QED BY <2>2, <2>3, <1>6 DEF Raised
<1> HIDE DEF failed
<1>11. RunResult(w, m, ok, n)
    BY <1>6, <1>7, <1>8, <1>10 DEF RunResult, failed
<1> QED BY <1>1, <1>2, <1>3, <1>6, <1>7, <1>8, <1>11 DEF m

LEMMA RaisedBy ==
  ASSUME TypeInv, NEW w \in Writers
  PROVE  /\ th'[w] = th[w] => Raised(w, {})
         /\ \A f \in Flags : th' = [th EXCEPT ![w][f] = TRUE] => Raised(w, {f})
         /\ th' = [th EXCEPT ![w].terminating = TRUE, ![w].killed = TRUE, ![w].exited = TRUE] =>
              Raised(w, {"terminating", "killed", "exited"})
         /\ \A W : th' = Killed(W) /\ w \in W => Raised(w, {"terminating", "killed", "condemned"})
<1>1. th \in [Writers -> [Flags -> BOOLEAN]] /\ th[w] \in [Flags -> BOOLEAN]
    BY DEF TypeInv
<1>2. th'[w] = th[w] => Raised(w, {})
    BY DEF Raised
<1>3. ASSUME NEW f \in Flags, th' = [th EXCEPT ![w][f] = TRUE] PROVE Raised(w, {f})
    <2>1. th'[w] = [th[w] EXCEPT ![f] = TRUE]
        BY <1>1, <1>3
    <2>2. ASSUME NEW g \in Flags PROVE th'[w][g] <=> (th[w][g] \/ g \in {f})
        BY <1>1, <2>1
    <2> QED BY <2>2 DEF Raised
<1>4. ASSUME th' = [th EXCEPT ![w].terminating = TRUE, ![w].killed = TRUE, ![w].exited = TRUE]
      PROVE  Raised(w, {"terminating", "killed", "exited"})
    <2>1. th'[w] = [th[w] EXCEPT !.terminating = TRUE, !.killed = TRUE, !.exited = TRUE]
        BY <1>1, <1>4
    <2> QED BY <1>1, <2>1 DEF Raised, Flags
<1>5. ASSUME NEW W, th' = Killed(W), w \in W
      PROVE  Raised(w, {"terminating", "killed", "condemned"})
    BY <1>5, KilledType DEF Raised, Flags
<1> QED BY <1>2, <1>3, <1>4, <1>5

LEMMA ProcessOutFacts ==
  ASSUME TypeInv, ProcessOut, ~ Undefined
  PROVE  /\ turn \in Writers /\ turn \in Alive /\ qout[turn] # << >>
         /\ Head(qout[turn]) \in OutNames /\ Processes(turn, Head(qout[turn]))
         /\ mpc \in {"process", "wait"}
         /\ qout' = [qout EXCEPT ![turn] = Tail(@)]
         /\ UNCHANGED <<mpc, stage, logVars, childVars, turn, dead, signal_count, budget>>
         /\ fe[turn].deleted => Head(qout[turn]) \notin {"Disable", "FlushWriteBuffer"}
<1>1. /\ turn \in Alive /\ qout[turn] # << >> /\ mpc \in {"process", "wait"}
      /\ ~ (fe[turn].deleted /\ Head(qout[turn]) \in {"Disable", "FlushWriteBuffer"})
      /\ Handle(Head(qout[turn])) /\ qout' = [qout EXCEPT ![turn] = Tail(@)]
      /\ UNCHANGED <<mpc, stage, logVars, childVars, turn, dead, signal_count, budget>>
    BY DEF ProcessOut
<1>2. turn \in Writers
    BY <1>1, AliveFacts
<1>3. Head(qout[turn]) \in OutNames
    BY <1>1, <1>2 DEF TypeInv
<1> QED BY <1>1, <1>2, <1>3 DEF Processes

\* The actions that leave the flags of all threads alone.
Flagless == \/ Quiet \/ Write \/ Flush \/ Rotate \/ Terminate \/ SignalAll \/ UNCHANGED vars
            \/ \E b \in BOOLEAN : SetBuf(b) \/ RemoveWriter(b) \/ StartProcess(b)
            \/ \E w \in Writers : SendOut(w)

LEMMA FlaglessKeeps == ASSUME TypeInv, Flagless PROVE UNCHANGED th
<1>1. CASE Write
    BY <1>1, WriteFacts DEF Undefined
<1>2. CASE Flush \/ Rotate \/ (\E b \in BOOLEAN : SetBuf(b))
    BY <1>2, StreamCallDelivers DEF Undefined
<1>3. CASE Quiet
    BY <1>3 DEF Quiet, ProcessNext, ProcessDead, ProcessEnd, StartTerminate, JoinAll, Closed,
                Undefined
<1>4. CASE \E b \in BOOLEAN : RemoveWriter(b) \/ StartProcess(b)
    BY <1>4 DEF RemoveWriter, StartProcess, Undefined
<1>5. CASE Terminate \/ SignalAll \/ UNCHANGED vars \/ \E w \in Writers : SendOut(w)
    BY <1>5 DEF Terminate, SignalAll, SendOut, Undefined, vars
<1> QED BY <1>1, <1>2, <1>3, <1>4, <1>5 DEF Flagless

LEMMA FlagSteps ==
  ASSUME TypeInv, [Next]_vars, NEW w \in Writers
  PROVE  \/ Raised(w, {})
         \/ Run(w)
         \/ Done(w) /\ Raised(w, {"terminating", "killed", "exited"})
         \/ Processes(w, "RotationFinished") /\ cur = w /\ mpc = "process" /\ Raised(w, {"halted"})
         \/ Processes(w, "KillMe") /\ Raised(w, {"terminating", "killed", "condemned"})
         \/ Processes(w, "Finished") /\ Raised(w, {"main_finished"})
         \/ Join(w) /\ Raised(w, {"deleted"})
         \/ WaitNext /\ turn = w /\ Raised(w, {"terminating"})
         \/ Signal /\ w \in Alive /\ Raised(w, {"terminating", "killed", "condemned"})
<1> DEFINE Goal == \/ Raised(w, {})
                   \/ Run(w)
                   \/ Done(w) /\ Raised(w, {"terminating", "killed", "exited"})
                   \/ Processes(w, "RotationFinished") /\ cur = w /\ mpc = "process" /\ Raised(w, {"halted"})
                   \/ Processes(w, "KillMe") /\ Raised(w, {"terminating", "killed", "condemned"})
                   \/ Processes(w, "Finished") /\ Raised(w, {"main_finished"})
                   \/ Join(w) /\ Raised(w, {"deleted"})
                   \/ WaitNext /\ turn = w /\ Raised(w, {"terminating"})
                   \/ Signal /\ w \in Alive /\ Raised(w, {"terminating", "killed", "condemned"})
<1>1. CASE th'[w] = th[w]
    BY <1>1, RaisedBy
<1>2. CASE Flagless
    BY <1>1, <1>2, FlaglessKeeps
<1>3. ASSUME NEW v \in Writers, Run(v) PROVE Goal
    BY <1>1, <1>3, RunFacts
<1>4. ASSUME NEW v \in Writers, Done(v) PROVE Goal
    <2>1. th' = [th EXCEPT ![v].terminating = TRUE, ![v].killed = TRUE, ![v].exited = TRUE]
        BY <1>4 DEF Done
    <2>2. v # w => th'[w] = th[w]
        BY <2>1 DEF TypeInv
    <2>3. v = w => Raised(w, {"terminating", "killed", "exited"})
        BY <2>1, RaisedBy
    <2> QED BY <1>1, <1>4, <2>2, <2>3
<1>5. ASSUME NEW v \in Writers, Join(v) PROVE Goal
    <2>1. th' = [th EXCEPT ![v].deleted = TRUE]
        BY <1>5 DEF Join
    <2>2. v # w => th'[w] = th[w]
        BY <2>1 DEF TypeInv
    <2>3. v = w => Raised(w, {"deleted"})
        BY <2>1, RaisedBy DEF Flags
    <2> QED BY <1>1, <1>5, <2>2, <2>3
<1>6. CASE WaitNext
    <2>1. th' = [th EXCEPT ![turn].terminating = TRUE]
        BY <1>6 DEF WaitNext
    <2>2. turn # w => th'[w] = th[w]
        BY <2>1 DEF TypeInv
    <2>3. turn = w => Raised(w, {"terminating"})
        BY <2>1, RaisedBy DEF Flags
    <2> QED BY <1>1, <1>6, <2>2, <2>3
<1>7. CASE Signal
    <2>1. th' = Killed(Alive) \/ th' = th
        BY <1>7 DEF Signal
    <2>2. CASE th' = Killed(Alive) /\ w \notin Alive
        BY <2>2, <1>1 DEF Killed
    <2>3. CASE th' = Killed(Alive) /\ w \in Alive
        BY <2>3, <1>7, RaisedBy
    <2> QED BY <1>1, <2>1, <2>2, <2>3
<1>8. ASSUME ProcessOut, ~ Undefined PROVE Goal
    <2> DEFINE n == Head(qout[turn])
    <2>1. turn \in Writers /\ n \in OutNames /\ Processes(turn, n) /\ Handle(n)
        BY <1>8, ProcessOutFacts DEF Processes
    <2> HIDE DEF n
    <2>2. CASE n \in {"Disable", "FlushWriteBuffer"}
        BY <2>1, <2>2, <1>1 DEF Handle
    <2>3. CASE n = "RotationFinished"
        <3>1. \/ th' = th
              \/ th' = [th EXCEPT ![turn].halted = TRUE] /\ cur = turn /\ mpc = "process"
            BY <2>1, <2>3 DEF Handle
        <3>2. CASE th' = [th EXCEPT ![turn].halted = TRUE] /\ cur = turn /\ mpc = "process"
            <4>1. turn # w => th'[w] = th[w]
                BY <3>2 DEF TypeInv
            <4>2. turn = w => Raised(w, {"halted"})
                BY <3>2, RaisedBy DEF Flags
            <4> QED BY <1>1, <2>1, <2>3, <3>2, <4>1, <4>2
        <3> QED BY <1>1, <3>1, <3>2
    <2>4. CASE n = "KillMe"
        <3>1. th' = Killed({turn})
            BY <2>1, <2>4 DEF Handle
        <3>2. turn # w => th'[w] = th[w]
            BY <3>1 DEF Killed
        <3>3. turn = w => Raised(w, {"terminating", "killed", "condemned"})
            BY <3>1, RaisedBy
        <3> QED BY <1>1, <2>1, <2>4, <3>2, <3>3
    <2>5. CASE n = "Finished"
        <3>1. th' = [th EXCEPT ![turn].main_finished = TRUE]
            BY <2>1, <2>5 DEF Handle
        <3>2. turn # w => th'[w] = th[w]
            BY <3>1 DEF TypeInv
        <3>3. turn = w => Raised(w, {"main_finished"})
            BY <3>1, RaisedBy DEF Flags
        <3> QED BY <1>1, <2>1, <2>5, <3>2, <3>3
    <2> QED BY <2>1, <2>2, <2>3, <2>4, <2>5 DEF OutNames
<1> QED BY <1>2, <1>3, <1>4, <1>5, <1>6, <1>7, <1>8
        DEF Next, Calls, ManagerStep, Child, Quiet, Flagless

\* The last stage is reached from Terminate only.
MpcInv == /\ mpc \in {"wait", "final", "closed", "exit"} => stage = "threads"
          /\ mpc = "idle" => stage # "threads"

LEMMA StageSteps ==
  ASSUME TypeInv, MpcInv, [Next]_vars
  PROVE  /\ MpcInv' /\ (stage = "threads" => stage' = "threads") /\ created <= created'
         /\ mpc \notin {"idle", "process", "join"} => mpc' \notin {"idle", "process", "join"}
<1> USE DEF MpcInv
<1>1. CASE UNCHANGED <<mpc, stage, created>>
    BY <1>1 DEF TypeInv
<1>2. CASE Undefined
    BY <1>2 DEF Undefined, logVars, TypeInv
<1>3. CASE Write /\ ~ Undefined
    <2>1. UNCHANGED <<mpc, stage>> /\ created' = (IF cur = 0 THEN Target ELSE created)
        BY <1>3, WriteFacts
    <2> QED BY <2>1 DEF Target, TypeInv
<1>4. CASE (Flush \/ Rotate \/ (\E b \in BOOLEAN : SetBuf(b))) /\ ~ Undefined
    BY <1>1, <1>4, StreamCallDelivers DEF logVars
<1>5. CASE Quiet
    <2>1. created' = created
        BY <1>5 DEF Quiet, ProcessNext, ProcessDead, ProcessEnd, StartTerminate, JoinAll, Closed,
                    Undefined, logVars
    <2> QED BY <1>5, <2>1 DEF Quiet, ProcessNext, ProcessDead, ProcessEnd, StartTerminate,
                              JoinAll, Closed, Undefined, TypeInv
<1>6. ASSUME NEW b \in BOOLEAN, RemoveWriter(b), ~ Undefined PROVE UNCHANGED <<mpc, stage, created>>
    BY <1>6 DEF RemoveWriter
<1>7. ASSUME NEW b \in BOOLEAN, StartProcess(b)
      PROVE  UNCHANGED <<stage, created>> /\ mpc = "idle" /\ mpc' = "process"
    BY <1>7 DEF StartProcess, logVars
<1>8. ASSUME Terminate, ~ Undefined
      PROVE  stage' = "threads" /\ created' = created /\ mpc = "idle" /\ mpc' = "process"
    BY <1>8 DEF Terminate, logVars
<1>9. ASSUME SignalAll
      PROVE  /\ UNCHANGED <<stage, created>> /\ mpc = "join" /\ mpc' = "wait"
             /\ stage = "threads"
    BY <1>9 DEF SignalAll, logVars
<1>10. ASSUME Signal
        PROVE  UNCHANGED <<stage, created>> /\ mpc = "wait" /\ mpc' \in {"wait", "exit"}
    BY <1>10 DEF Signal, logVars
<1>11. ASSUME NEW w \in Writers, Child(w) \/ Join(w) PROVE UNCHANGED <<mpc, stage, created>>
    BY <1>11 DEF Child, Run, SendOut, Done, Join, logVars
<1>12. ASSUME WaitNext \/ (ProcessOut /\ ~ Undefined) \/ UNCHANGED vars
       PROVE UNCHANGED <<mpc, stage, created>>
    BY <1>12, ProcessOutFacts DEF WaitNext, logVars, vars
<1>13. created \in Nat
    BY DEF TypeInv
<1> QED BY <1>1, <1>2, <1>3, <1>4, <1>5, <1>6, <1>7, <1>8, <1>9, <1>10, <1>11, <1>12, <1>13
        DEF Next, Calls, ManagerStep, Quiet

LEMMA OutSteps ==
  ASSUME TypeInv, [Next]_vars, NEW w \in Writers
  PROVE  \/ todo'[w] = todo[w] /\ qout'[w] = qout[w]
         \/ Run(w)
         \/ /\ SendOut(w) /\ todo[w] # << >> /\ todo'[w] = Tail(todo[w])
            /\ qout'[w] = IF th[w].terminating THEN qout[w] ELSE Append(qout[w], Head(todo[w]))
         \/ /\ \E n \in OutNames : Processes(w, n)
            /\ qout'[w] = Tail(qout[w]) /\ todo'[w] = todo[w]
<1> USE DEF childVars
<1> DEFINE Same == todo'[w] = todo[w] /\ qout'[w] = qout[w]
<1>1. CASE Undefined
    BY <1>1 DEF Undefined
<1>2. ASSUME ~ Undefined, Write \/ Flush \/ Rotate \/ (\E b \in BOOLEAN : SetBuf(b)) PROVE Same
    BY <1>2, WriteFacts, StreamCallDelivers
<1>3. CASE Quiet
    BY <1>3 DEF Quiet, ProcessNext, ProcessDead, ProcessEnd, StartTerminate, JoinAll, Closed,
                Undefined
<1>4. ASSUME ~ Undefined, NEW b \in BOOLEAN, RemoveWriter(b) \/ StartProcess(b) PROVE Same
    BY <1>4 DEF RemoveWriter, StartProcess
<1>5. ASSUME ~ Undefined, Terminate \/ SignalAll \/ Signal \/ WaitNext \/ UNCHANGED vars PROVE Same
    BY <1>5 DEF Terminate, SignalAll, Signal, WaitNext, vars
<1>6. ASSUME NEW v \in Writers, Join(v) \/ Done(v) PROVE Same
    BY <1>6 DEF Join, Done
<1>7. ASSUME NEW v \in Writers, Run(v) PROVE Run(w) \/ Same
    BY <1>7, RunFacts
<1>8. ASSUME NEW v \in Writers, SendOut(v)
      PROVE  \/ Same
             \/ /\ SendOut(w) /\ todo[w] # << >> /\ todo'[w] = Tail(todo[w])
                /\ qout'[w] = IF th[w].terminating THEN qout[w] ELSE Append(qout[w], Head(todo[w]))
    <2>1. /\ todo' = [todo EXCEPT ![v] = Tail(@)] /\ todo[v] # << >>
          /\ qout' = IF th[v].terminating THEN qout
                     ELSE [qout EXCEPT ![v] = Append(@, Head(todo[v]))]
        BY <1>8 DEF SendOut
    <2> QED BY <1>8, <2>1 DEF TypeInv
<1>9. ASSUME ProcessOut, ~ Undefined
      PROVE  \/ Same
             \/ /\ \E n \in OutNames : Processes(w, n)
                /\ qout'[w] = Tail(qout[w]) /\ todo'[w] = todo[w]
    <2>1. /\ turn \in Writers /\ qout' = [qout EXCEPT ![turn] = Tail(@)] /\ UNCHANGED childVars
          /\ Head(qout[turn]) \in OutNames /\ Processes(turn, Head(qout[turn]))
        BY <1>9, ProcessOutFacts
    <2> QED BY <2>1 DEF TypeInv
<1> QED BY <1>1, <1>2, <1>3, <1>4, <1>5, <1>6, <1>7, <1>8, <1>9
        DEF Next, Calls, ManagerStep, Child, Quiet

-----------------------------------------------------------------------------
(* The life of a thread                                                     *)

\* What a child says is true.
SaidInv(w) ==
  /\ Has(todo[w], "Finished") \/ Has(qout[w], "Finished") \/ th[w].main_finished
       => th[w].child_finished
  /\ Has(todo[w], "KillMe") \/ Has(qout[w], "KillMe") => th[w].failed

\* A thread ends after its last message or because it was killed; before the
\* end of Terminate only a thread that failed is killed.
FlagInv(w) ==
  /\ th[w].condemned => /\ th[w].killed /\ w <= created
                        /\ th[w].failed \/ (stage = "threads" /\ mpc \notin {"idle", "process", "join"})
  /\ th[w].killed => th[w].terminating /\ (th[w].condemned \/ th[w].exited)
  /\ th[w].exited => th[w].killed /\ (th[w].child_finished \/ th[w].condemned)
  /\ th[w].deleted => th[w].exited
  /\ th[w].terminating => th[w].condemned \/ th[w].exited \/ stage = "threads"

LEMMA SaidStep ==
  ASSUME TypeInv, [Next]_vars, NEW w \in Writers, SaidInv(w)
  PROVE  SaidInv(w)'
<1>1. /\ todo[w] \in Seq(OutNames) /\ qout[w] \in Seq(OutNames)
    BY DEF TypeInv
<1>2. /\ th[w].child_finished => th'[w].child_finished
      /\ th[w].failed => th'[w].failed
    <2>1. CASE Run(w)
        <3>1. PICK ok \in BOOLEAN, n \in Nat : RunResult(w, Head(qin[w]), ok, n)
            BY <2>1, RunFacts
        <3> QED BY <3>1 DEF RunResult, Raised, Flags
    <2>2. CASE ~ Run(w)
        BY <2>2, FlagSteps DEF Raised, Flags
    <2> QED BY <2>1, <2>2
<1>3. CASE Run(w)
    <2>1. PICK ok \in BOOLEAN, n \in Nat : RunResult(w, Head(qin[w]), ok, n)
        BY <1>3, RunFacts
    <2> DEFINE m == Head(qin[w])
    <2>2. m \in Message /\ qout'[w] = qout[w] /\ todo'[w] = Emitted(m, th[w].failed, ok)
        BY <1>3, <2>1, RunFacts DEF RunResult
    <2>3. th[w].failed \in BOOLEAN
        BY DEF TypeInv, Flags
    <2> HIDE DEF m
    <2>4. /\ Has(todo'[w], "Finished") => m.name = "Finish"
          /\ Has(todo'[w], "KillMe") => ~ ok
        BY <2>2, <2>3, EmittedFacts
    <2>5. /\ m.name = "Finish" => th'[w].child_finished
          /\ ~ ok => th'[w].failed
          /\ th'[w].main_finished => th[w].main_finished
        BY <2>1 DEF RunResult, Raised, Flags, m
    <2> QED BY <1>2, <2>2, <2>4, <2>5 DEF SaidInv
<1>4. ASSUME ~ Run(w) PROVE th'[w].main_finished => th'[w].child_finished
    <2>1. th'[w].main_finished => th[w].main_finished \/ Processes(w, "Finished")
        BY <1>4, FlagSteps DEF Raised, Flags
    <2>2. Processes(w, "Finished") => Has(qout[w], "Finished")
        BY <1>1, HasTail DEF Processes
    <2> QED BY <1>2, <2>1, <2>2 DEF SaidInv
<1>5. ASSUME ~ Run(w), NEW x
      PROVE  Has(todo'[w], x) \/ Has(qout'[w], x) => Has(todo[w], x) \/ Has(qout[w], x)
    <2>1. CASE todo'[w] = todo[w] /\ qout'[w] = qout[w]
        BY <2>1
    <2>2. CASE /\ SendOut(w) /\ todo[w] # << >> /\ todo'[w] = Tail(todo[w])
               /\ qout'[w] = IF th[w].terminating THEN qout[w] ELSE Append(qout[w], Head(todo[w]))
        <3>1. Has(todo[w], x) <=> Head(todo[w]) = x \/ Has(Tail(todo[w]), x)
            BY <1>1, <2>2, HasTail
        <3>2. Head(todo[w]) \in OutNames
            BY <1>1, <2>2
        <3>3. Has(Append(qout[w], Head(todo[w])), x) <=> Has(qout[w], x) \/ Head(todo[w]) = x
            BY <1>1, <3>2, HasAppend
        <3> QED BY <2>2, <3>1, <3>3
    <2>3. CASE /\ \E n \in OutNames : Processes(w, n)
               /\ qout'[w] = Tail(qout[w]) /\ todo'[w] = todo[w]
        <3>1. qout[w] # << >>
            BY <2>3 DEF Processes
        <3>2. Has(qout[w], x) <=> Head(qout[w]) = x \/ Has(Tail(qout[w]), x)
            BY <1>1, <3>1, HasTail
        <3> QED BY <2>3, <3>2
    <2> QED BY <1>5, <2>1, <2>2, <2>3, OutSteps
<1> QED BY <1>2, <1>3, <1>4, <1>5 DEF SaidInv

LEMMA FlagStep ==
  ASSUME TypeInv, MpcInv, [Next]_vars, NEW w \in Writers, SaidInv(w), FlagInv(w)
  PROVE  FlagInv(w)'
<1> USE DEF FlagInv, Raised, Flags
<1>1. /\ MpcInv' /\ (stage = "threads" => stage' = "threads")
      /\ mpc \notin {"idle", "process", "join"} => mpc' \notin {"idle", "process", "join"}
      /\ w <= created => w <= created'
    <2>1. created <= created' /\ TypeInv'
        BY StageSteps, NextType
    <2>2. created \in Nat /\ created' \in Nat
        BY <2>1 DEF TypeInv
    <2>3. w <= created => w <= created'
        BY <2>1, <2>2 DEF Writers
    <2> QED BY <2>3, StageSteps
<1>2. CASE Raised(w, {})
    BY <1>1, <1>2
<1>3. CASE Run(w)
    <2>1. PICK ok \in BOOLEAN, n \in Nat : RunResult(w, Head(qin[w]), ok, n)
        BY <1>3, RunFacts
    <2>2. /\ \A f \in Flags \ {"failed", "child_finished"} : th'[w][f] <=> th[w][f]
          /\ th[w].failed => th'[w].failed
          /\ th[w].child_finished => th'[w].child_finished
        BY <2>1 DEF RunResult
    <2> QED BY <1>1, <2>2
<1>4. CASE Done(w) /\ Raised(w, {"terminating", "killed", "exited"})
    <2>1. ~ th[w].exited /\ (th[w].child_finished \/ th[w].killed)
        BY <1>4 DEF Done, Running, Goes
    <2> QED BY <1>1, <1>4, <2>1
<1>5. CASE Processes(w, "RotationFinished") /\ cur = w /\ mpc = "process" /\ Raised(w, {"halted"})
    BY <1>1, <1>5
<1>6. CASE Processes(w, "KillMe") /\ Raised(w, {"terminating", "killed", "condemned"})
    <2>1. th[w].failed
        <3>1. qout[w] \in Seq(OutNames)
            BY DEF TypeInv
        <3>2. Has(qout[w], "KillMe")
            BY <1>6, <3>1, HasTail DEF Processes
        <3> QED BY <3>2 DEF SaidInv
    <2>2. w <= created
        BY <1>6, AliveFacts DEF Processes
    <2> QED BY <1>1, <1>6, <2>1, <2>2
<1>7. CASE Processes(w, "Finished") /\ Raised(w, {"main_finished"})
    BY <1>1, <1>7
<1>8. CASE Join(w) /\ Raised(w, {"deleted"})
    <2>1. th[w].exited
        BY <1>8 DEF Join
    <2> QED BY <1>1, <1>8, <2>1
<1>9. CASE WaitNext /\ turn = w /\ Raised(w, {"terminating"})
    <2>1. mpc = "wait" /\ stage = "threads"
        BY <1>9 DEF WaitNext, MpcInv
    <2> QED BY <1>1, <1>9, <2>1
<1>10. CASE Signal /\ w \in Alive /\ Raised(w, {"terminating", "killed", "condemned"})
    <2>1. mpc = "wait" /\ stage = "threads" /\ w <= created
        BY <1>10, AliveFacts DEF Signal, MpcInv
    <2> QED BY <1>1, <1>10, <2>1
<1> QED BY <1>2, <1>3, <1>4, <1>5, <1>6, <1>7, <1>8, <1>9, <1>10, FlagSteps

-----------------------------------------------------------------------------
(* The frontends and what is sent to the children                           *)

\* Every frontend but the one of the stream has been stopped, and a frontend
\* that has been stopped is disabled and empty.
FrontInv(w) ==
  /\ ~ fe[w].backend => fe[w].disabled /\ fe[w].write_buffer = << >>
  /\ w <= created /\ (w # cur \/ stage = "threads") => ~ fe[w].backend

HasName(q, n) == \E i \in 1 .. Len(q) : q[i].name = n

\* Only Stop and a failing postprocessor send Finish before the frontend is
\* stopped.
FinishInv(w) ==
  HasName(qin[w], "Finish") \/ th[w].child_finished => ~ fe[w].backend \/ th[w].halted

LEMMA HandleFlushDelivers ==
  ASSUME TypeInv, turn \in Writers, FrontInv(turn), Handle("FlushWriteBuffer")
  PROVE  /\ UNCHANGED <<fe, qin>> \/ Delivers(turn)
         /\ UNCHANGED th
<1> DEFINE w == turn
           a == SendIn(w, Flushed(w))
<1>1. Call(w, IF fe[w].backend THEN a ELSE << >>, Emptied(w)) /\ UNCHANGED th
    BY DEF Handle
<1>2. /\ fe \in [Writers -> Frontend] /\ qin \in [Writers -> Seq(Message)]
      /\ Emptied(w) \in Frontend /\ a \in Seq(Message) /\ qin[w] \in Seq(Message)
    BY CallTypes DEF TypeInv
<1>3. CASE fe[w].backend
    <2>1. qin' = [qin EXCEPT ![w] = @ \o a] /\ fe' = [fe EXCEPT ![w] = Emptied(w)]
        BY <1>1, <1>3 DEF Call
    <2>2. << >> \in Tokens /\ << >> # <<Msg("Finish")>>
        BY TokenType, TokenNonempty DEF InNames
    <2> HIDE DEF a
    <2>3. qin[w] \o a = ((qin[w] \o << >>) \o a) \o << >>
        <3>1. qin[w] \o a \in Seq(Message)
            BY <1>2
        <3>2. qin[w] \o << >> = qin[w] /\ (qin[w] \o a) \o << >> = qin[w] \o a
            BY <1>2, <3>1, ConcatEmpty
        <3> QED BY <3>2
    <2>4. qin' = [qin EXCEPT ![w] = ((qin[w] \o << >>) \o (IF TRUE THEN a ELSE << >>)) \o << >>]
        BY <2>1, <2>3
    <2>5. fe' = [fe EXCEPT ![w] = fe'[w]] /\ fe'[w] = Emptied(w)
        BY <1>2, <2>1
    <2>6. /\ Emptied(w).write_buffer = << >> /\ Emptied(w).backend = fe[w].backend
          /\ Emptied(w).disabled = fe[w].disabled /\ Emptied(w).deleted = fe[w].deleted
        BY <1>2 DEF Emptied, Frontend
    <2>7. Delivers(w)
        BY <1>2, <2>2, <2>4, <2>5, <2>6 DEF Delivers, a
    <2> QED BY <1>1, <2>7
<1>4. CASE ~ fe[w].backend
    <2>1. qin' = [qin EXCEPT ![w] = @ \o << >>] /\ fe' = [fe EXCEPT ![w] = Emptied(w)]
        BY <1>1, <1>4 DEF Call
    <2>2. qin[w] \o << >> = qin[w]
        BY <1>2, ConcatEmpty
    <2>3. Emptied(w) = fe[w]
        BY <1>2, <1>4 DEF Emptied, FrontInv, Frontend
    <2>4. UNCHANGED <<fe, qin>>
        BY <1>2, <2>1, <2>2, <2>3
    <2> QED BY <1>1, <2>4
<1> QED BY <1>3, <1>4

LEMMA DeliversElsewhere ==
  ASSUME TypeInv, NEW v \in Writers, Delivers(v), NEW w \in Writers, w # v
  PROVE  fe'[w] = fe[w] /\ qin'[w] = qin[w]
BY DEF Delivers, TypeInv

\* How a step may change the frontend, the queue and the records of w.
Sent(w, z) == /\ fe'[w] = fe[w] /\ accepted'[w] = accepted[w]
              /\ qin'[w] = qin[w] \o z

InStep(w) ==
  \/ fe'[w] = fe[w] /\ qin'[w] = qin[w] /\ accepted'[w] = accepted[w]
  \/ Run(w)
  \/ Target = w /\ ~ fe[w].disabled /\ Accepts
  \/ Delivers(w) /\ accepted'[w] = accepted[w]
  \/ /\ Processes(w, "Disable") /\ fe'[w] = [fe[w] EXCEPT !.disabled = TRUE]
     /\ qin'[w] = qin[w] /\ accepted'[w] = accepted[w]
  \/ Sent(w, SendIn(w, <<Msg("Heartbeat")>>))
  \/ SignalAll /\ w \in Alive /\ Sent(w, SignalStop(w))
  \/ Processes(w, "RotationFinished") /\ th'[w].halted /\ Sent(w, SignalStop(w))

LEMMA InSteps ==
  ASSUME TypeInv, [Next]_vars, NEW w \in Writers, \A v \in Writers : FrontInv(v)
  PROVE  InStep(w)
<1> USE DEF logVars, TypeInv
<1> DEFINE Same == fe'[w] = fe[w] /\ qin'[w] = qin[w] /\ accepted'[w] = accepted[w]
<1>0. ASSUME Same PROVE InStep(w)
    BY <1>0 DEF InStep
<1>1. ASSUME Quiet \/ UNCHANGED vars \/ Undefined PROVE Same
    BY <1>1 DEF Quiet, ProcessNext, ProcessDead, ProcessEnd, StartTerminate, JoinAll, Closed,
                Undefined, vars
<1>2. ASSUME Write, ~ Undefined PROVE InStep(w)
    <2>1. \/ UNCHANGED <<fe, qin, accepted>>
          \/ Target \in Writers /\ ~ fe[Target].disabled /\ Accepts
        BY <1>2, WriteFacts
    <2>2. CASE Target # w /\ Accepts
        BY <2>2, <1>0 DEF Accepts
    <2>3. CASE UNCHANGED <<fe, qin, accepted>>
        BY <2>3, <1>0
    <2> QED BY <2>1, <2>2, <2>3 DEF InStep
<1>3. ASSUME NEW v \in Writers, Delivers(v), accepted' = accepted PROVE InStep(w)
    BY <1>3, <1>0, DeliversElsewhere DEF InStep
<1>4. ASSUME Flush \/ Rotate \/ (\E b \in BOOLEAN : SetBuf(b)), ~ Undefined PROVE InStep(w)
    BY <1>3, <1>4, StreamCallDelivers
<1>5. ASSUME NEW b \in BOOLEAN, RemoveWriter(b), ~ Undefined PROVE InStep(w)
    <2>1. cur \in Writers /\ Stop(cur, b) /\ accepted' = accepted
        BY <1>5, ConstantsAssumption DEF RemoveWriter, Writers
    <2>2. Delivers(cur)
        BY <2>1, StopDelivers
    <2> QED BY <1>3, <2>1, <2>2
<1>6. ASSUME Terminate, ~ Undefined PROVE InStep(w)
    <2>1. /\ IF cur # 0 THEN Stop(cur, FALSE) ELSE UNCHANGED <<fe, qin>>
          /\ accepted' = accepted
        BY <1>6 DEF Terminate
    <2>2. CASE cur # 0
        <3>1. cur \in Writers
            BY <2>2, ConstantsAssumption DEF Writers
        <3>2. Delivers(cur)
            BY <2>1, <2>2, <3>1, StopDelivers
        <3> QED BY <1>3, <2>1, <3>1, <3>2
    <2> QED BY <2>1, <2>2, <1>0
<1>7. ASSUME NEW b \in BOOLEAN, StartProcess(b) PROVE InStep(w)
    <2>1. /\ qin'[w] = IF b /\ w \in Alive THEN qin[w] \o SendIn(w, <<Msg("Heartbeat")>>) ELSE qin[w]
          /\ UNCHANGED <<fe, accepted>>
        BY <1>7 DEF StartProcess
    <2> QED BY <2>1, <1>0 DEF InStep, Sent
<1>8. ASSUME SignalAll PROVE InStep(w)
    <2>1. /\ qin'[w] = IF w \in Alive THEN qin[w] \o SignalStop(w) ELSE qin[w]
          /\ UNCHANGED <<fe, accepted>>
        BY <1>8 DEF SignalAll
    <2> QED BY <2>1, <1>0, <1>8 DEF InStep, Sent
<1>9. ASSUME NEW v \in Writers, Run(v) PROVE InStep(w)
    BY <1>0, <1>9, RunFacts DEF InStep
<1>10. ASSUME NEW v \in Writers, SendOut(v) \/ Done(v) \/ Join(v) PROVE Same
    BY <1>10 DEF SendOut, Done, Join
<1>11. ASSUME WaitNext \/ Signal PROVE Same
    BY <1>11 DEF WaitNext, Signal
<1>12. ASSUME ProcessOut, ~ Undefined PROVE InStep(w)
    <2> DEFINE n == Head(qout[turn])
    <2>1. /\ turn \in Writers /\ n \in OutNames /\ Processes(turn, n) /\ Handle(n)
          /\ accepted' = accepted
        BY <1>12, ProcessOutFacts DEF Processes
    <2> HIDE DEF n
    <2>2. CASE n = "Disable"
        <3>1. fe' = [fe EXCEPT ![turn].disabled = TRUE] /\ UNCHANGED qin
            BY <2>1, <2>2 DEF Handle
        <3>2. turn = w => fe'[w] = [fe[w] EXCEPT !.disabled = TRUE]
            BY <3>1
        <3>3. turn # w => fe'[w] = fe[w]
            BY <3>1
        <3> QED BY <1>0, <2>1, <2>2, <3>1, <3>2, <3>3 DEF InStep
    <2>3. CASE n = "FlushWriteBuffer"
        <3>1. UNCHANGED <<fe, qin>> \/ Delivers(turn)
            BY <2>1, <2>3, HandleFlushDelivers
        <3> QED BY <1>0, <1>3, <2>1, <3>1
    <2>4. CASE n = "RotationFinished"
        <3>1. /\ fe' = fe
              /\ \/ UNCHANGED qin
                 \/ /\ qin' = [qin EXCEPT ![turn] = @ \o SignalStop(turn)]
                    /\ th' = [th EXCEPT ![turn].halted = TRUE]
            BY <2>1, <2>4 DEF Handle
        <3>2. CASE UNCHANGED qin
            BY <1>0, <2>1, <3>1, <3>2
        <3>3. CASE /\ qin' = [qin EXCEPT ![turn] = @ \o SignalStop(turn)]
                   /\ th' = [th EXCEPT ![turn].halted = TRUE]
            <4>1. turn = w => th'[w].halted
                BY <3>3, RaisedBy DEF Raised, Flags
            <4>2. turn = w => qin'[w] = qin[w] \o SignalStop(w)
                BY <3>3
            <4>3. turn # w => qin'[w] = qin[w]
                BY <3>3
            <4> QED BY SMTT(30), <1>0, <2>1, <2>4, <3>1, <4>1, <4>2, <4>3 DEF InStep, Sent
        <3> QED BY <3>1, <3>2, <3>3
    <2>5. CASE n = "KillMe" \/ n = "Finished"
        BY <1>0, <2>1, <2>5 DEF Handle
    <2> QED BY <2>1, <2>2, <2>3, <2>4, <2>5 DEF OutNames
<1> QED BY <1>0, <1>1, <1>2, <1>4, <1>5, <1>6, <1>7, <1>8, <1>9, <1>10, <1>11, <1>12
        DEF Next, Calls, ManagerStep, Child, Quiet

LEMMA FrontStays ==
  ASSUME TypeInv, [Next]_vars, NEW w \in Writers, \A v \in Writers : FrontInv(v)
  PROVE  /\ ~ fe[w].backend => ~ fe'[w].backend
         /\ fe[w].disabled => fe'[w].disabled
         /\ ~ fe'[w].backend => fe'[w].disabled /\ fe'[w].write_buffer = << >>
<1>0. InStep(w)
    BY InSteps
<1>1. FrontInv(w) /\ fe[w] \in Frontend
    BY DEF TypeInv
<1>2. CASE fe'[w] = fe[w]
    BY <1>1, <1>2 DEF FrontInv
<1>3. CASE Run(w)
    BY <1>2, <1>3, RunFacts
<1>4. CASE Target = w /\ ~ fe[w].disabled /\ Accepts
    <2>1. PICK b : fe' = [fe EXCEPT ![w] = [fe[w] EXCEPT !.write_buffer = b]]
        BY <1>4 DEF Accepts
    <2>2. fe'[w] = [fe[w] EXCEPT !.write_buffer = b]
        BY <2>1 DEF TypeInv
    <2>3. fe'[w].backend = fe[w].backend
        BY <1>1, <2>2 DEF Frontend
    <2> QED BY <1>1, <1>4, <2>3 DEF FrontInv
<1>5. CASE Delivers(w)
    <2>1. PICK flush \in BOOLEAN :
            /\ fe'[w].write_buffer = (IF flush THEN << >> ELSE fe[w].write_buffer)
            /\ \/ fe'[w].backend = fe[w].backend /\ fe'[w].disabled = fe[w].disabled
               \/ ~ fe'[w].backend /\ fe'[w].disabled /\ flush
        BY <1>5 DEF Delivers
    <2> QED BY <1>1, <2>1 DEF FrontInv
<1>6. CASE fe'[w] = [fe[w] EXCEPT !.disabled = TRUE]
    BY <1>1, <1>6 DEF FrontInv, Frontend
<1> QED BY <1>0, <1>2, <1>3, <1>4, <1>5, <1>6 DEF InStep, Sent

LEMMA FrontStep ==
  ASSUME TypeInv, MpcInv, [Next]_vars, NEW w \in Writers, \A v \in Writers : FrontInv(v)
  PROVE  FrontInv(w)'
<1>1. /\ ~ fe[w].backend => ~ fe'[w].backend
      /\ ~ fe'[w].backend => fe'[w].disabled /\ fe'[w].write_buffer = << >>
    BY FrontStays
<1>2. w <= created /\ (w # cur \/ stage = "threads") => ~ fe[w].backend
    BY DEF FrontInv
<1>3. SUFFICES ASSUME w <= created', w # cur' \/ stage' = "threads", fe'[w].backend
               PROVE  FALSE
    BY <1>1 DEF FrontInv
<1>4. CASE cur' = cur /\ created' = created /\ (stage' = "threads" => stage = "threads")
    BY <1>1, <1>2, <1>3, <1>4
<1>5. CASE Write /\ ~ Undefined
    <2>1. /\ mpc = "idle" /\ stage' = stage /\ cur' = Target
          /\ created' = (IF cur = 0 THEN Target ELSE created)
        BY <1>5, WriteFacts
    <2>2. w # Target
        BY <1>3, <2>1 DEF MpcInv
    <2>3. w <= created /\ w # cur
        BY <1>3, <2>1, <2>2 DEF Target, TypeInv, Writers
    <2> QED BY <1>1, <1>2, <1>3, <2>3
<1>6. ASSUME NEW b \in BOOLEAN, RemoveWriter(b), ~ Undefined PROVE FALSE
    <2>1. /\ cur \in Writers /\ Stop(cur, b) /\ created' = created /\ stage' = stage
        BY <1>6, ConstantsAssumption DEF RemoveWriter, TypeInv, Writers
    <2>2. ~ fe'[cur].backend
        BY <2>1, StopDelivers
    <2> QED BY <1>1, <1>2, <1>3, <2>1, <2>2
<1>7. ASSUME Terminate, ~ Undefined PROVE FALSE
    <2>1. (cur # 0 => Stop(cur, FALSE)) /\ UNCHANGED logVars
        BY <1>7 DEF Terminate
    <2>2. cur # 0 => ~ fe'[cur].backend
        <3>1. cur # 0 => cur \in Writers
            BY ConstantsAssumption DEF TypeInv, Writers
        <3> QED BY <2>1, <3>1, StopDelivers
    <2>3. w # 0 /\ cur' = cur /\ created' = created
        BY <2>1 DEF Writers, logVars
    <2> QED BY <1>1, <1>2, <1>3, <2>2, <2>3
<1> USE DEF logVars
<1>8. ASSUME Quiet \/ UNCHANGED vars \/ Undefined
      PROVE  cur' = cur /\ created' = created /\ (stage' = "threads" => stage = "threads")
    BY <1>8 DEF Quiet, ProcessNext, ProcessDead, ProcessEnd, StartTerminate, JoinAll, Closed,
                Undefined, vars
<1>9. ASSUME Flush \/ Rotate \/ (\E b \in BOOLEAN : SetBuf(b)), ~ Undefined
      PROVE  cur' = cur /\ created' = created /\ stage' = stage
    BY <1>9, StreamCallDelivers
<1>10. ASSUME (\E b \in BOOLEAN : StartProcess(b)) \/ SignalAll \/ WaitNext \/ Signal
       PROVE  cur' = cur /\ created' = created /\ stage' = stage
    BY <1>10 DEF StartProcess, SignalAll, WaitNext, Signal
<1>11. ASSUME ProcessOut, ~ Undefined PROVE cur' = cur /\ created' = created /\ stage' = stage
    BY SMTT(30), <1>11, ProcessOutFacts
<1>12. ASSUME NEW v \in Writers, Child(v) \/ Join(v)
       PROVE  cur' = cur /\ created' = created /\ stage' = stage
    BY <1>12 DEF Child, Run, SendOut, Done, Join
<1> QED BY <1>4, <1>5, <1>6, <1>7, <1>8, <1>9, <1>10, <1>11, <1>12
        DEF Next, Calls, ManagerStep, Quiet

LEMMA NameConcat ==
  ASSUME NEW s \in Seq(Message), NEW t \in Seq(Message), NEW n
  PROVE  HasName(s \o t, n) <=> HasName(s, n) \/ HasName(t, n)
<1>1. /\ Len(s) \in Nat /\ Len(t) \in Nat /\ Len(s \o t) = Len(s) + Len(t)
      /\ \A i \in 1 .. Len(s) : (s \o t)[i] = s[i]
      /\ \A i \in 1 .. Len(t) : (s \o t)[Len(s) + i] = t[i]
      /\ \A i \in 1 .. Len(s \o t) : i \notin 1 .. Len(s) =>
                i - Len(s) \in 1 .. Len(t) /\ (s \o t)[i] = t[i - Len(s)]
    BY Concatenated
<1>2. ASSUME HasName(s, n) PROVE HasName(s \o t, n)
    BY <1>1, <1>2 DEF HasName
<1>3. ASSUME HasName(t, n) PROVE HasName(s \o t, n)
    <2>1. PICK i \in 1 .. Len(t) : t[i].name = n
        BY <1>3 DEF HasName
    <2>2. (s \o t)[Len(s) + i].name = n /\ Len(s) + i \in 1 .. Len(s \o t)
        BY <1>1, <2>1
    <2> QED BY <2>2 DEF HasName
<1>4. ASSUME HasName(s \o t, n) PROVE HasName(s, n) \/ HasName(t, n)
    <2>1. PICK i \in 1 .. Len(s \o t) : (s \o t)[i].name = n
        BY <1>4 DEF HasName
    <2>2. CASE i \in 1 .. Len(s)
        BY <1>1, <2>1, <2>2 DEF HasName
    <2>3. CASE i \notin 1 .. Len(s)
        BY <1>1, <2>1, <2>3 DEF HasName
    <2> QED BY <2>2, <2>3
<1> QED BY <1>2, <1>3, <1>4

LEMMA NameTail ==
  ASSUME NEW s \in Seq(Message), s # << >>, NEW n
  PROVE  HasName(s, n) <=> Head(s).name = n \/ HasName(Tail(s), n)
<1>1. /\ Head(s) = s[1] /\ Len(s) >= 1 /\ Len(s) \in Nat /\ Len(Tail(s)) = Len(s) - 1
      /\ \A i \in 1 .. Len(Tail(s)) : Tail(s)[i] = s[i + 1]
    BY Shortened
<1>2. ASSUME HasName(Tail(s), n) PROVE HasName(s, n)
    <2>1. PICK i \in 1 .. Len(Tail(s)) : Tail(s)[i].name = n
        BY <1>2 DEF HasName
    <2>2. s[i + 1].name = n /\ i + 1 \in 1 .. Len(s)
        BY <1>1, <2>1
    <2> QED BY <2>2 DEF HasName
<1>3. ASSUME Head(s).name = n PROVE HasName(s, n)
    BY <1>1, <1>3 DEF HasName
<1>4. ASSUME HasName(s, n), Head(s).name # n PROVE HasName(Tail(s), n)
    <2>1. PICK i \in 1 .. Len(s) : s[i].name = n
        BY <1>4 DEF HasName
    <2>2. Tail(s)[i - 1].name = n /\ i - 1 \in 1 .. Len(Tail(s))
        BY <1>1, <1>4, <2>1
    <2> QED BY <2>2 DEF HasName
<1> QED BY <1>2, <1>3, <1>4

LEMMA NameOne ==
  /\ \A n : ~ HasName(<< >>, n)
  /\ \A m, n : HasName(<<m>>, n) <=> m.name = n
BY DEF HasName

LEMMA TokenFinish == \A t \in Tokens : HasName(t, "Finish") => t = <<Msg("Finish")>>
<1> SUFFICES ASSUME NEW t \in Tokens, HasName(t, "Finish") PROVE t = <<Msg("Finish")>>
    OBVIOUS
<1>1. PICK n \in InNames : t = <<Msg(n)>>
    BY NameOne DEF Tokens
<1>2. Msg(n).name = "Finish"
    BY <1>1, NameOne
<1> QED BY <1>1, <1>2, MsgType

LEMMA SendInNames ==
  ASSUME NEW w \in Writers
  PROVE  /\ \A s, n : HasName(SendIn(w, s), n) => HasName(s, n)
         /\ ~ HasName(Flushed(w), "Finish")
<1>1. \A s, n : HasName(SendIn(w, s), n) => HasName(s, n)
    BY NameOne DEF SendIn
<1>2. [name |-> "Write", recs |-> fe[w].write_buffer].name # "Finish"
    OBVIOUS
<1>3. ~ HasName(Flushed(w), "Finish")
    BY <1>2, NameOne DEF Flushed
<1> QED BY <1>1, <1>3

LEMMA FlagsGrow ==
  ASSUME TypeInv, [Next]_vars, NEW w \in Writers, NEW f \in Flags
  PROVE  th[w][f] => th'[w][f]
<1>1. CASE Run(w)
    <2>1. PICK ok \in BOOLEAN, n \in Nat : RunResult(w, Head(qin[w]), ok, n)
        BY <1>1, RunFacts
    <2> QED BY <2>1 DEF RunResult, Raised
<1>2. CASE ~ Run(w)
    BY <1>2, FlagSteps DEF Raised
<1> QED BY <1>1, <1>2

\* Only the child fails or finishes.
LEMMA ChildFlags ==
  ASSUME TypeInv, [Next]_vars, NEW w \in Writers, ~ Run(w)
  PROVE  /\ th'[w].failed <=> th[w].failed
         /\ th'[w].child_finished <=> th[w].child_finished
BY FlagSteps DEF Raised, Flags

LEMMA FinishStep ==
  ASSUME TypeInv, [Next]_vars, NEW w \in Writers, \A v \in Writers : FrontInv(v), FinishInv(w)
  PROVE  FinishInv(w)'
<1>1. /\ ~ fe[w].backend => ~ fe'[w].backend
      /\ th[w].halted => th'[w].halted
    BY FrontStays, FlagsGrow DEF Flags
<1>2. qin[w] \in Seq(Message) /\ InStep(w)
    BY InSteps DEF TypeInv
<1>3. CASE Run(w)
    <2>1. PICK ok \in BOOLEAN, n \in Nat : RunResult(w, Head(qin[w]), ok, n)
        BY <1>3, RunFacts
    <2>2. th'[w].child_finished => Head(qin[w]).name = "Finish" \/ th[w].child_finished
        BY <2>1 DEF RunResult, Raised, Flags
    <2>3. qin[w] # << >> /\ qin'[w] = Tail(qin[w])
        BY <1>3, RunFacts
    <2>4. HasName(qin[w], "Finish") <=>
              Head(qin[w]).name = "Finish" \/ HasName(Tail(qin[w]), "Finish")
        BY <1>2, <2>3, NameTail
    <2> QED BY <1>1, <2>2, <2>3, <2>4 DEF FinishInv
<1>4. ASSUME ~ Run(w) PROVE th'[w].child_finished <=> th[w].child_finished
    BY <1>4, ChildFlags
<1>5. ASSUME ~ Run(w),
             HasName(qin'[w], "Finish") =>
                 HasName(qin[w], "Finish") \/ ~ fe'[w].backend \/ th'[w].halted
      PROVE  FinishInv(w)'
    BY <1>1, <1>4, <1>5 DEF FinishInv
<1>6. ASSUME Target = w, Accepts, ~ Run(w) PROVE FinishInv(w)'
    <2> DEFINE buffer == Append(fe[w].write_buffer, records + 1)
               c(first) == IF first THEN SendIn(w, <<Msg("Init")>>) ELSE << >>
               y(flush) == IF flush THEN SendIn(w, <<[name |-> "Write", recs |-> buffer]>>)
                           ELSE << >>
    <2>1. PICK first \in BOOLEAN, flush \in BOOLEAN :
            qin' = [qin EXCEPT ![w] = (qin[w] \o c(first)) \o y(flush)]
        BY <1>6 DEF Accepts
    <2>2. qin'[w] = (qin[w] \o c(first)) \o y(flush)
        BY <2>1 DEF TypeInv
    <2>3. buffer \in Seq(Record)
        BY DEF TypeInv, Frontend, Record
    <2> HIDE DEF buffer
    <2>4. Msg("Init") \in Message /\ [name |-> "Write", recs |-> buffer] \in Message
        BY <2>3, MsgType DEF InNames
    <2>5. c(first) \in Seq(Message) /\ y(flush) \in Seq(Message)
        BY <2>4 DEF SendIn
    <2>6. ~ HasName(c(first), "Finish") /\ ~ HasName(y(flush), "Finish")
        <3>1. Msg("Init").name # "Finish" /\ [name |-> "Write", recs |-> buffer].name # "Finish"
            BY MsgType DEF InNames
        <3>2. /\ ~ HasName(<<Msg("Init")>>, "Finish") /\ ~ HasName(<< >>, "Finish")
              /\ ~ HasName(<<[name |-> "Write", recs |-> buffer]>>, "Finish")
            BY <3>1, NameOne
        <3> QED BY <3>2, SendInNames
    <2> HIDE DEF c, y
    <2>7. qin[w] \o c(first) \in Seq(Message)
        BY <1>2, <2>5
    <2>8. /\ HasName(qin[w] \o c(first), "Finish") => HasName(qin[w], "Finish")
          /\ HasName((qin[w] \o c(first)) \o y(flush), "Finish") =>
                 HasName(qin[w] \o c(first), "Finish")
        BY <1>2, <2>5, <2>6, <2>7, NameConcat
    <2> QED BY <1>5, <1>6, <2>2, <2>8
<1>7. ASSUME Delivers(w), ~ Run(w) PROVE FinishInv(w)'
    <2>1. PICK a \in Tokens, z \in Tokens, flush \in BOOLEAN :
            /\ qin' = [qin EXCEPT ![w] = ((qin[w] \o a)
                 \o (IF flush THEN SendIn(w, Flushed(w)) ELSE << >>)) \o z]
            /\ a # <<Msg("Finish")>>
            /\ z = <<Msg("Finish")>> => flush /\ ~ fe'[w].backend
        BY <1>7 DEF Delivers
    <2> DEFINE x == IF flush THEN SendIn(w, Flushed(w)) ELSE << >>
    <2>2. /\ a \in Seq(Message) /\ z \in Seq(Message) /\ x \in Seq(Message)
        BY TokenType, CallTypes
    <2>3. ~ HasName(x, "Finish") /\ ~ HasName(a, "Finish")
        BY <2>1, SendInNames, NameOne, TokenFinish
    <2>4. qin'[w] = ((qin[w] \o a) \o x) \o z
        BY <2>1 DEF TypeInv
    <2> HIDE DEF x
    <2>5. qin[w] \o a \in Seq(Message) /\ (qin[w] \o a) \o x \in Seq(Message)
        BY <1>2, <2>2
    <2>6. HasName(qin'[w], "Finish") => HasName(qin[w], "Finish") \/ HasName(z, "Finish")
        <3>1. HasName(qin[w] \o a, "Finish") => HasName(qin[w], "Finish")
            BY <1>2, <2>2, <2>3, NameConcat
        <3>2. HasName((qin[w] \o a) \o x, "Finish") => HasName(qin[w] \o a, "Finish")
            BY <2>2, <2>3, <2>5, NameConcat
        <3>3. HasName(((qin[w] \o a) \o x) \o z, "Finish") =>
                 HasName((qin[w] \o a) \o x, "Finish") \/ HasName(z, "Finish")
            BY <2>2, <2>5, NameConcat
        <3> QED BY <2>4, <3>1, <3>2, <3>3
    <2>7. HasName(z, "Finish") => ~ fe'[w].backend
        BY <2>1, TokenFinish
    <2> QED BY <1>5, <1>7, <2>6, <2>7
<1>8. ASSUME NEW z \in Seq(Message), Sent(w, z), ~ Run(w),
             HasName(z, "Finish") => ~ fe[w].backend \/ th'[w].halted
      PROVE  FinishInv(w)'
    BY <1>1, <1>2, <1>5, <1>8, NameConcat DEF Sent
<1>9. ASSUME Sent(w, SendIn(w, <<Msg("Heartbeat")>>)), ~ Run(w) PROVE FinishInv(w)'
    <2>1. /\ SendIn(w, <<Msg("Heartbeat")>>) \in Seq(Message)
          /\ ~ HasName(SendIn(w, <<Msg("Heartbeat")>>), "Finish")
        <3>1. Msg("Heartbeat") \in Message /\ Msg("Heartbeat").name # "Finish"
            BY MsgType DEF InNames
        <3>2. <<Msg("Heartbeat")>> \in Seq(Message) /\ ~ HasName(<<Msg("Heartbeat")>>, "Finish")
            BY <3>1, NameOne
        <3> QED BY <3>2, CallTypes, SendInNames
    <2> QED BY <1>8, <1>9, <2>1
<1>10. SignalStop(w) \in Seq(Message)
    BY CallTypes
<1>11. ASSUME SignalAll, w \in Alive, Sent(w, SignalStop(w)), ~ Run(w) PROVE FinishInv(w)'
    <2>1. stage = "threads" /\ w <= created
        BY <1>11, AliveFacts DEF SignalAll
    <2>2. ~ fe[w].backend
        BY <2>1 DEF FrontInv
    <2> QED BY <1>8, <1>10, <1>11, <2>2
<1>12. ASSUME th'[w].halted, Sent(w, SignalStop(w)), ~ Run(w) PROVE FinishInv(w)'
    BY <1>8, <1>10, <1>12
<1>13. ASSUME qin'[w] = qin[w], ~ Run(w) PROVE FinishInv(w)'
    BY <1>5, <1>13
<1> QED BY <1>2, <1>3, <1>6, <1>7, <1>9, <1>11, <1>12, <1>13 DEF InStep

-----------------------------------------------------------------------------
(* The first invariant, and what becomes of a failure                       *)

LifeInv == /\ TypeInv /\ MpcInv
           /\ \A w \in Writers : SaidInv(w) /\ FlagInv(w) /\ FrontInv(w) /\ FinishInv(w)

LEMMA InitLife == Init => LifeInv
<1> SUFFICES ASSUME Init PROVE LifeInv
    OBVIOUS
<1>1. TypeInv /\ MpcInv
    BY InitType DEF Init, MpcInv
<1>2. ASSUME NEW w \in Writers
      PROVE  /\ todo[w] = << >> /\ qout[w] = << >> /\ qin[w] = << >>
             /\ fe[w].backend /\ \A f \in Flags : ~ th[w][f]
    BY DEF Init, Empty
<1>3. created = 0 /\ stage = "run"
    BY DEF Init
<1>4. ASSUME NEW w \in Writers PROVE SaidInv(w) /\ FlagInv(w) /\ FrontInv(w) /\ FinishInv(w)
    <2>1. SaidInv(w) /\ FinishInv(w)
        <3>1. /\ \A x : ~ Has(todo[w], x) /\ ~ Has(qout[w], x)
              /\ ~ HasName(qin[w], "Finish")
            BY <1>2 DEF Has, HasName
        <3>2. ~ th[w].main_finished /\ ~ th[w].child_finished
            BY <1>2 DEF Flags
        <3> QED BY <3>1, <3>2 DEF SaidInv, FinishInv
    <2>2. FlagInv(w)
        BY <1>2 DEF FlagInv, Flags
    <2>3. FrontInv(w)
        BY <1>2, <1>3 DEF FrontInv, Writers
    <2> QED BY <2>1, <2>2, <2>3
<1> QED BY <1>1, <1>4 DEF LifeInv

LEMMA NextLife == LifeInv /\ [Next]_vars => LifeInv'
<1> SUFFICES ASSUME LifeInv, [Next]_vars PROVE LifeInv'
    OBVIOUS
<1>1. TypeInv /\ MpcInv /\ TypeInv' /\ MpcInv'
    BY NextType, StageSteps DEF LifeInv
<1>2. ASSUME NEW w \in Writers
      PROVE  SaidInv(w)' /\ FlagInv(w)' /\ FrontInv(w)' /\ FinishInv(w)'
    BY <1>1, SaidStep, FlagStep, FrontStep, FinishStep DEF LifeInv
<1> QED BY <1>1, <1>2 DEF LifeInv

\* The variables have their types.
THEOREM TypeCorrect == Spec => []TypeInv
<1>1. LifeInv => TypeInv
    BY DEF LifeInv
<1> QED BY <1>1, InitLife, NextLife, PTL DEF Spec

\* The frontend points to a deleted backend only after a failure, of the writer
\* or of a postprocessor, whatever the order of calls, messages and signals.
THEOREM DanglingCorrect == Spec => []DanglingOnlyAfterFailure
<1>1. LifeInv => DanglingOnlyAfterFailure
    <2> SUFFICES ASSUME LifeInv, NEW w \in Writers, Dangling(w) PROVE th[w].failed \/ th[w].halted
        BY DEF DanglingOnlyAfterFailure
    <2>1. /\ th[w].exited /\ (th[w].child_finished \/ th[w].condemned)
          /\ th[w].child_finished => th[w].halted
        BY DEF LifeInv, FlagInv, FinishInv, Dangling
    <2>2. th[w].condemned => th[w].failed \/ (stage = "threads" /\ w <= created)
        BY DEF LifeInv, FlagInv
    <2>3. ~ (stage = "threads" /\ w <= created)
        BY DEF LifeInv, FrontInv, Dangling
    <2> QED BY <2>1, <2>2, <2>3
<1> QED BY <1>1, InitLife, NextLife, PTL DEF Spec

\* As long as the frontend of a writer that failed in the midst of its work is
\* not disabled the thread is not killed, and Disable is on its way, before KillMe.
Told(w) ==
  th[w].failed /\ ~ th[w].child_finished /\ ~ fe[w].disabled =>
    /\ ~ th[w].condemned /\ ~ th[w].terminating
    /\ Tells(qout[w]) \/ (~ Has(qout[w], "KillMe") /\ Tells(todo[w]))

LEMMA TellsAppend ==
  ASSUME NEW S, NEW s \in Seq(S), NEW e \in S
  PROVE  /\ Tells(s) => Tells(Append(s, e))
         /\ ~ Has(s, "KillMe") /\ e = "Disable" => Tells(Append(s, e))
<1>1. /\ Len(Append(s, e)) = Len(s) + 1 /\ Append(s, e)[Len(s) + 1] = e /\ Len(s) \in Nat
      /\ \A i \in 1 .. Len(s) : Append(s, e)[i] = s[i]
    BY Appended
<1>2. ASSUME Tells(s) PROVE Tells(Append(s, e))
    <2>1. PICK i \in 1 .. Len(s) : s[i] = "Disable" /\ \A j \in 1 .. i - 1 : s[j] # "KillMe"
        BY <1>2 DEF Tells
    <2>2. /\ i \in 1 .. Len(Append(s, e)) /\ Append(s, e)[i] = "Disable"
          /\ \A j \in 1 .. i - 1 : Append(s, e)[j] # "KillMe"
        BY <1>1, <2>1
    <2> QED BY <2>2 DEF Tells
<1>3. ASSUME ~ Has(s, "KillMe"), e = "Disable" PROVE Tells(Append(s, e))
    <2>1. \A j \in 1 .. (Len(s) + 1) - 1 : Append(s, e)[j] # "KillMe"
        BY <1>1, <1>3 DEF Has
    <2>2. Len(s) + 1 \in 1 .. Len(Append(s, e)) /\ Append(s, e)[Len(s) + 1] = "Disable"
        BY <1>1, <1>3
    <2> QED BY <2>1, <2>2 DEF Tells
<1> QED BY <1>2, <1>3

LEMMA TellsTail ==
  ASSUME NEW S, NEW s \in Seq(S), s # << >>, Tells(s), Head(s) # "Disable"
  PROVE  Tells(Tail(s)) /\ Head(s) # "KillMe"
<1>1. /\ Head(s) = s[1] /\ Len(Tail(s)) = Len(s) - 1 /\ Len(s) \in Nat
      /\ \A i \in 1 .. Len(Tail(s)) : Tail(s)[i] = s[i + 1]
    BY Shortened
<1>2. PICK i \in 1 .. Len(s) : s[i] = "Disable" /\ \A j \in 1 .. i - 1 : s[j] # "KillMe"
    BY DEF Tells
<1>3. i > 1 /\ i - 1 \in 1 .. Len(Tail(s)) /\ Tail(s)[i - 1] = "Disable"
    BY <1>1, <1>2
<1>4. ASSUME NEW j \in 1 .. (i - 1) - 1 PROVE Tail(s)[j] # "KillMe"
    <2>1. Tail(s)[j] = s[j + 1] /\ j + 1 \in 1 .. i - 1
        BY <1>1, <1>2
    <2> QED BY <1>2, <2>1
<1>5. Head(s) # "KillMe"
    BY <1>1, <1>2, <1>3
<1> QED BY <1>3, <1>4, <1>5 DEF Tells

LEMMA ToldStep ==
  ASSUME LifeInv, [Next]_vars, NEW w \in Writers, Told(w)
  PROVE  Told(w)'
<1> SUFFICES ASSUME th'[w].failed, ~ th'[w].child_finished, ~ fe'[w].disabled
             PROVE  /\ ~ th'[w].condemned /\ ~ th'[w].terminating
                    /\ Tells(qout'[w]) \/ (~ Has(qout'[w], "KillMe") /\ Tells(todo'[w]))
    BY DEF Told
<1>1. TypeInv /\ MpcInv /\ SaidInv(w) /\ FlagInv(w) /\ FrontInv(w)
    BY DEF LifeInv
<1>2. ~ th[w].child_finished /\ ~ fe[w].disabled
    BY <1>1, FlagsGrow, FrontStays DEF LifeInv, Flags
<1>3. todo[w] \in Seq(OutNames) /\ qout[w] \in Seq(OutNames)
    BY <1>1 DEF TypeInv
<1>4. w <= created => stage # "threads"
    BY <1>1, <1>2 DEF FrontInv
<1>5. CASE Run(w)
    <2>1. PICK ok \in BOOLEAN, n \in Nat : RunResult(w, Head(qin[w]), ok, n)
        BY <1>1, <1>5, RunFacts
    <2> DEFINE m == Head(qin[w])
    <2>2. /\ m \in Message /\ qout'[w] = qout[w] /\ todo'[w] = Emitted(m, th[w].failed, ok)
          /\ todo[w] = << >> /\ ~ th[w].killed /\ ~ th[w].exited /\ w \in Alive
        BY <1>1, <1>5, <2>1, RunFacts DEF RunResult
    <2> HIDE DEF m
    <2>3. /\ th'[w].condemned => th[w].condemned
          /\ th'[w].terminating => th[w].terminating
          /\ m.name # "Finish"
          /\ th[w].failed \/ ~ ok
        BY <2>1 DEF RunResult, Raised, Flags, m
    <2>4. ~ th[w].condemned /\ ~ th[w].terminating
        <3>1. w <= created
            BY <1>1, <2>2, AliveFacts
        <3> QED BY <1>1, <1>4, <2>2, <3>1 DEF FlagInv
    <2>5. CASE th[w].failed
        <3>1. ~ Tells(todo[w])
            BY <2>2 DEF Tells
        <3> QED BY <1>2, <2>2, <2>3, <2>4, <2>5, <3>1 DEF Told
    <2>6. CASE ~ th[w].failed
        <3>1. ~ Has(qout[w], "KillMe")
            BY <1>1, <2>6 DEF SaidInv
        <3>2. th[w].failed \in BOOLEAN /\ ~ ok
            BY <1>1, <2>3, <2>6 DEF TypeInv, Flags
        <3>3. Tells(todo'[w])
            BY <2>2, <2>3, <3>2, EmittedFacts
        <3> QED BY <2>2, <2>3, <2>4, <3>1, <3>3
    <2> QED BY <2>5, <2>6
<1>6. ASSUME ~ Run(w)
      PROVE  /\ ~ th[w].condemned /\ ~ th[w].terminating
             /\ Tells(qout[w]) \/ (~ Has(qout[w], "KillMe") /\ Tells(todo[w]))
    BY <1>1, <1>2, <1>6, ChildFlags DEF Told
<1>7. ASSUME ~ Run(w) PROVE ~ th'[w].condemned /\ ~ th'[w].terminating
    <2>1. ~ Processes(w, "KillMe")
        <3>1. SUFFICES ASSUME qout[w] # << >>, Head(qout[w]) = "KillMe" PROVE FALSE
            BY DEF Processes
        <3>2. Has(qout[w], "KillMe")
            BY <1>3, <3>1, HasTail
        <3>3. ~ Tells(qout[w])
            BY <1>3, <3>1, TellsTail
        <3> QED BY <1>6, <1>7, <3>2, <3>3
    <2>2. ~ Done(w)
        BY <1>1, <1>2, <1>6, <1>7 DEF Done, Goes, Running, FlagInv
    <2>3. ~ (Signal /\ w \in Alive)
        BY <1>1, <1>4, AliveFacts DEF Signal, MpcInv
    <2>4. ~ (WaitNext /\ turn = w)
        BY <1>1, <1>4 DEF WaitNext, MpcInv
    <2> QED BY <1>1, <1>6, <1>7, <2>1, <2>2, <2>3, <2>4, FlagSteps DEF Raised, Flags
<1>8. ASSUME ~ Run(w)
      PROVE  Tells(qout'[w]) \/ (~ Has(qout'[w], "KillMe") /\ Tells(todo'[w]))
    <2>1. CASE todo'[w] = todo[w] /\ qout'[w] = qout[w]
        BY <1>6, <1>8, <2>1
    <2>2. CASE /\ todo[w] # << >> /\ todo'[w] = Tail(todo[w])
               /\ qout'[w] = IF th[w].terminating THEN qout[w] ELSE Append(qout[w], Head(todo[w]))
        <3>1. qout'[w] = Append(qout[w], Head(todo[w])) /\ Head(todo[w]) \in OutNames
            BY <1>3, <1>6, <1>8, <2>2
        <3>2. CASE Tells(qout[w])
            BY <1>3, <3>1, <3>2, TellsAppend
        <3>3. CASE ~ Has(qout[w], "KillMe") /\ Tells(todo[w]) /\ Head(todo[w]) = "Disable"
            BY <1>3, <3>1, <3>3, TellsAppend
        <3>4. CASE ~ Has(qout[w], "KillMe") /\ Tells(todo[w]) /\ Head(todo[w]) # "Disable"
            <4>1. Tells(Tail(todo[w])) /\ Head(todo[w]) # "KillMe"
                BY <1>3, <2>2, <3>4, TellsTail
            <4>2. ~ Has(qout'[w], "KillMe")
                BY <1>3, <3>1, <3>4, <4>1, HasAppend
            <4> QED BY <2>2, <4>1, <4>2
        <3> QED BY <1>6, <1>8, <3>2, <3>3, <3>4
    <2>3. CASE /\ \E n \in OutNames : Processes(w, n)
               /\ qout'[w] = Tail(qout[w]) /\ todo'[w] = todo[w]
        <3>1. qout[w] # << >>
            BY <2>3 DEF Processes
        <3>2. Head(qout[w]) # "Disable"
            <4>1. SUFFICES ASSUME Processes(w, "Disable") PROVE FALSE
                BY <2>3 DEF Processes
            <4>2. fe' = [fe EXCEPT ![w].disabled = TRUE]
                BY <4>1 DEF Processes, Handle
            <4>3. fe'[w].disabled
                BY <1>1, <4>2 DEF TypeInv, Frontend
            <4> QED BY <4>3
        <3>3. Tells(qout[w]) => Tells(Tail(qout[w]))
            BY <1>3, <3>1, <3>2, TellsTail
        <3>4. ~ Has(qout[w], "KillMe") => ~ Has(Tail(qout[w]), "KillMe")
            BY <1>3, <3>1, HasTail
        <3> QED BY <1>6, <1>8, <2>3, <3>3, <3>4
    <2> QED BY <1>1, <1>8, <2>1, <2>2, <2>3, OutSteps
<1> QED BY <1>5, <1>7, <1>8

\* A thread that failed is deleted only after its frontend has been disabled or
\* after it has handled Finish, for any number of messages on their way: KillMe
\* never overtakes Disable.
THEOREM FailureIsToldCorrect == Spec => []FailureIsTold
<1> DEFINE Inv == LifeInv /\ \A w \in Writers : Told(w)
<1>1. Init => Inv
    <2> SUFFICES ASSUME Init, NEW w \in Writers PROVE Told(w)
        BY InitLife
    <2>1. ~ th[w].failed
        BY DEF Init, Flags
    <2> QED BY <2>1 DEF Told
<1>2. Inv /\ [Next]_vars => Inv'
    BY NextLife, ToldStep
<1>3. Inv => FailureIsTold
    <2> SUFFICES ASSUME Inv, NEW w \in Writers, th[w].deleted, th[w].failed
                 PROVE  fe[w].disabled \/ th[w].child_finished
        BY DEF FailureIsTold
    <2>1. th[w].terminating
        BY DEF LifeInv, FlagInv
    <2> QED BY <2>1 DEF Told
<1> QED BY <1>1, <1>2, <1>3, PTL DEF Spec

-----------------------------------------------------------------------------
(* The records between the frontend and the file                            *)

\* s is what acc holds after its first a records.
Within(s, acc, a) == a + Len(s) <= Len(acc) /\ \A j \in 1 .. Len(s) : s[j] = acc[a + j]

\* The messages of q and then the buffer hold the records of acc from the one
\* after b[1] on; b[i] records come before message i.  Finish comes after the
\* last record, unless the postprocessor failed.  A thread that is terminating
\* (f are its flags) takes no more messages: its buffer may be lost.
Path(q, buffer, acc, f, b) ==
  /\ Len(b) = Len(q) + 1 /\ b[1] <= Len(acc)
  /\ \A i \in 1 .. Len(q) : b[i + 1] = b[i] + Len(q[i].recs) /\ Within(q[i].recs, acc, b[i])
  /\ \A i \in 1 .. Len(q) :
       q[i].name = "Finish" => q[i].recs = << >> /\ (f.halted \/ b[i] = Len(acc))
  /\ ~ f.terminating =>
       b[Len(b)] + Len(buffer) = Len(acc) /\ Within(buffer, acc, b[Len(b)])

Good(q, buffer, acc, f, n) ==
  \E b \in Seq(Nat) : b[1] = n /\ Path(q, buffer, acc, f, b)

LEMMA EmptyWithin == \A acc \in Seq(Record) : \A a \in Nat : a <= Len(acc) => Within(<< >>, acc, a)
BY DEF Within

LEMMA PathEnd ==
  ASSUME NEW q \in Seq(Message), NEW buffer, NEW acc \in Seq(Record), NEW f,
         NEW b \in Seq(Nat), Path(q, buffer, acc, f, b)
  PROVE  b[Len(b)] <= Len(acc) /\ b[Len(b)] \in Nat
<1>1. Len(q) \in Nat /\ Len(acc) \in Nat /\ Len(b) = Len(q) + 1
    BY DEF Path
<1>2. b[Len(b)] \in Nat
    BY <1>1
<1>3. CASE Len(q) = 0
    BY <1>1, <1>2, <1>3 DEF Path
<1>4. CASE Len(q) # 0
    <2> DEFINE i == Len(q)
    <2>1. i \in 1 .. Len(q) /\ i + 1 = Len(b)
        BY <1>1, <1>4
    <2>2. b[i + 1] = b[i] + Len(q[i].recs) /\ Within(q[i].recs, acc, b[i])
        BY <2>1 DEF Path
    <2> QED BY <1>2, <2>1, <2>2 DEF Within
<1> QED BY <1>2, <1>3, <1>4

LEMMA Extended ==
  ASSUME NEW q \in Seq(Message), NEW buffer, NEW acc \in Seq(Record), NEW f,
         NEW b \in Seq(Nat), Path(q, buffer, acc, f, b), NEW e \in Nat, e = b[Len(b)],
         NEW m \in Message, Within(m.recs, acc, e),
         m.name = "Finish" => m.recs = << >> /\ (f.halted \/ e = Len(acc)),
         NEW after \in Seq(Record), NEW l \in Nat, l = Len(m.recs),
         ~ f.terminating => (e + l) + Len(after) = Len(acc) /\ Within(after, acc, e + l)
  PROVE  Good(Append(q, m), after, acc, f, b[1])
<1> DEFINE c == Append(b, e + l)
           r == Append(q, m)
<1>1. Len(b) = Len(q) + 1 /\ b[1] <= Len(acc) /\ Len(q) \in Nat
    BY DEF Path
<1>2. /\ c \in Seq(Nat) /\ Len(c) = Len(b) + 1 /\ c[Len(b) + 1] = e + l
      /\ \A i \in 1 .. Len(b) : c[i] = b[i]
    BY SMTT(30)
<1>3. Len(r) = Len(q) + 1 /\ r[Len(q) + 1] = m /\ \A i \in 1 .. Len(q) : r[i] = q[i]
    OBVIOUS
<1> HIDE DEF c, r
<1>4. c[1] = b[1]
    BY <1>1, <1>2
<1>5. ASSUME NEW i \in 1 .. Len(r)
      PROVE  /\ c[i + 1] = c[i] + Len(r[i].recs) /\ Within(r[i].recs, acc, c[i])
             /\ r[i].name = "Finish" => r[i].recs = << >> /\ (f.halted \/ c[i] = Len(acc))
    <2>1. CASE i \in 1 .. Len(q)
        <3>1. i \in 1 .. Len(b) /\ i + 1 \in 1 .. Len(b)
            BY <1>1, <2>1
        <3>2. r[i] = q[i] /\ c[i] = b[i] /\ c[i + 1] = b[i + 1]
            BY <1>2, <1>3, <2>1, <3>1
        <3> QED BY <2>1, <3>2 DEF Path
    <2>2. CASE i = Len(q) + 1
        <3>1. r[i] = m /\ c[i] = e /\ c[i + 1] = e + l
            BY <1>1, <1>2, <1>3, <2>2
        <3> QED BY <3>1
    <2>3. i \in 1 .. Len(q) \/ i = Len(q) + 1
        BY <1>1, <1>3
    <2> QED BY <2>1, <2>2, <2>3
<1>6. c[Len(c)] = e + l
    BY <1>2
<1>7. Len(c) = Len(r) + 1
    BY <1>1, <1>2, <1>3
<1>8. ~ f.terminating => c[Len(c)] + Len(after) = Len(acc) /\ Within(after, acc, c[Len(c)])
    BY <1>6
<1>9. Path(r, after, acc, f, c)
    BY <1>1, <1>4, <1>5, <1>7, <1>8 DEF Path
<1> QED BY <1>2, <1>4, <1>9 DEF Good, r

\* A message without records.
LEMMA GoodToken ==
  ASSUME NEW q \in Seq(Message), NEW buffer \in Seq(Record), NEW acc \in Seq(Record),
         NEW f, NEW n \in Nat, Good(q, buffer, acc, f, n),
         NEW m \in Message, m.recs = << >>,
         m.name = "Finish" => f.halted \/ (~ f.terminating /\ buffer = << >>)
  PROVE  Good(Append(q, m), buffer, acc, f, n)
<1>1. PICK b \in Seq(Nat) : b[1] = n /\ Path(q, buffer, acc, f, b)
    BY DEF Good
<1>2. PICK e \in Nat : e = b[Len(b)]
    BY <1>1, PathEnd
<1>3. e <= Len(acc)
    BY <1>1, <1>2, PathEnd
<1>4. Within(m.recs, acc, e) /\ Len(m.recs) = 0
    BY <1>3, EmptyWithin
<1>5. ~ f.terminating => e + Len(buffer) = Len(acc) /\ Within(buffer, acc, e)
    BY <1>1, <1>2 DEF Path
<1>6. ~ f.terminating => (e + 0) + Len(buffer) = Len(acc) /\ Within(buffer, acc, e + 0)
    BY <1>5
<1>7. m.name = "Finish" => m.recs = << >> /\ (f.halted \/ e = Len(acc))
    <2>1. buffer = << >> => Len(buffer) = 0
        OBVIOUS
    <2> QED BY <1>5, <2>1
<1> QED BY <1>1, <1>2, <1>4, <1>6, <1>7, Extended

\* The buffer is sent.
LEMMA GoodFlush ==
  ASSUME NEW q \in Seq(Message), NEW buffer \in Seq(Record), NEW acc \in Seq(Record),
         NEW f, ~ f.terminating, NEW n \in Nat, Good(q, buffer, acc, f, n)
  PROVE  Good(Append(q, [name |-> "Write", recs |-> buffer]), << >>, acc, f, n)
<1> DEFINE m == [name |-> "Write", recs |-> buffer]
<1>1. PICK b \in Seq(Nat) : b[1] = n /\ Path(q, buffer, acc, f, b)
    BY DEF Good
<1>2. PICK e \in Nat : e = b[Len(b)]
    BY <1>1, PathEnd
<1>3. e + Len(buffer) = Len(acc) /\ Within(buffer, acc, e)
    BY <1>1, <1>2 DEF Path
<1>4. m \in Message /\ m.recs = buffer /\ m.name # "Finish"
    BY MsgType
<1> HIDE DEF m
<1>5. Len(buffer) \in Nat /\ (e + Len(buffer)) + Len(<< >>) = Len(acc) /\ << >> \in Seq(Record)
    BY <1>3
<1>6. Within(<< >>, acc, e + Len(buffer))
    BY <1>3, <1>5, EmptyWithin
<1> QED BY <1>1, <1>2, <1>3, <1>4, <1>5, <1>6, Extended DEF m

\* The child takes the first message.
LEMMA GoodTail ==
  ASSUME NEW q \in Seq(Message), q # << >>, NEW buffer, NEW acc \in Seq(Record),
         NEW f, NEW n \in Nat, Good(q, buffer, acc, f, n)
  PROVE  /\ Within(Head(q).recs, acc, n)
         /\ Good(Tail(q), buffer, acc, f, n + Len(Head(q).recs))
         /\ Head(q).name = "Finish" => Head(q).recs = << >> /\ (f.halted \/ n = Len(acc))
<1>1. PICK b \in Seq(Nat) : b[1] = n /\ Path(q, buffer, acc, f, b)
    BY DEF Good
<1> DEFINE t == Tail(q)
           c == Tail(b)
<1>2. /\ Head(q) = q[1] /\ Len(q) >= 1 /\ Len(q) \in Nat /\ Len(t) = Len(q) - 1
      /\ \A i \in 1 .. Len(t) : t[i] = q[i + 1]
    BY Shortened
<1>3. Len(b) = Len(q) + 1
    BY <1>1 DEF Path
<1>4. b # << >>
    BY <1>2, <1>3
<1>5. /\ c \in Seq(Nat) /\ Len(c) = Len(b) - 1
      /\ \A i \in 1 .. Len(c) : c[i] = b[i + 1]
    BY <1>4
<1> HIDE DEF t, c
<1>6. 1 \in 1 .. Len(q)
    BY <1>2
<1>7. /\ b[1 + 1] = b[1] + Len(q[1].recs) /\ Within(q[1].recs, acc, b[1])
      /\ q[1].name = "Finish" => q[1].recs = << >> /\ (f.halted \/ b[1] = Len(acc))
    BY <1>1, <1>6 DEF Path
<1>8. c[1] = n + Len(q[1].recs)
    BY <1>1, <1>2, <1>3, <1>5, <1>7
<1>9. c[1] <= Len(acc)
    BY <1>1, <1>7, <1>8 DEF Within
<1>10. ASSUME NEW i \in 1 .. Len(t)
       PROVE  /\ c[i + 1] = c[i] + Len(t[i].recs) /\ Within(t[i].recs, acc, c[i])
              /\ t[i].name = "Finish" => t[i].recs = << >> /\ (f.halted \/ c[i] = Len(acc))
    <2>1. i + 1 \in 1 .. Len(q) /\ i \in 1 .. Len(c) /\ i + 1 \in 1 .. Len(c)
        <3>1. Len(c) = Len(q) /\ Len(t) = Len(q) - 1 /\ Len(q) \in Nat
            BY <1>2, <1>3, <1>5
        <3> QED BY <3>1
    <2>2. t[i] = q[i + 1] /\ c[i + 1] = b[(i + 1) + 1] /\ c[i] = b[i + 1]
        BY <1>2, <1>5, <2>1
    <2> QED BY <1>1, <2>1, <2>2 DEF Path
<1>11. c[Len(c)] = b[Len(b)] /\ Len(c) = Len(t) + 1
    BY SMTT(30), <1>2, <1>3, <1>5
<1>12. Path(t, buffer, acc, f, c)
    BY <1>1, <1>9, <1>10, <1>11 DEF Path
<1> QED BY <1>1, <1>2, <1>5, <1>7, <1>8, <1>12 DEF Good, t

LEMMA WithinGrows ==
  ASSUME NEW s, NEW acc \in Seq(Record), NEW a \in Nat, NEW r \in Record, Len(s) \in Nat,
         Within(s, acc, a)
  PROVE  Within(s, Append(acc, r), a)
BY Appended DEF Within

LEMMA WithinAppend ==
  ASSUME NEW s \in Seq(Record), NEW acc \in Seq(Record), NEW a \in Nat, NEW r \in Record,
         a + Len(s) = Len(acc), Within(s, acc, a)
  PROVE  /\ a + Len(Append(s, r)) = Len(Append(acc, r))
         /\ Within(Append(s, r), Append(acc, r), a)
<1>1. /\ Len(Append(acc, r)) = Len(acc) + 1 /\ Append(acc, r)[Len(acc) + 1] = r
      /\ \A i \in 1 .. Len(acc) : Append(acc, r)[i] = acc[i]
    BY Appended
<1>2. /\ Len(Append(s, r)) = Len(s) + 1 /\ Append(s, r)[Len(s) + 1] = r
      /\ \A i \in 1 .. Len(s) : Append(s, r)[i] = s[i]
    BY Appended
<1>3. Len(s) \in Nat /\ Len(acc) \in Nat
    OBVIOUS
<1>4. ASSUME NEW j \in 1 .. Len(Append(s, r)) PROVE Append(s, r)[j] = Append(acc, r)[a + j]
    <2>1. CASE j \in 1 .. Len(s)
        <3>1. s[j] = acc[a + j] /\ a + j \in 1 .. Len(acc)
            BY <1>3, <2>1 DEF Within
        <3> QED BY <1>1, <1>2, <2>1, <3>1
    <2>2. CASE j = Len(s) + 1
        <3>1. a + j = Len(acc) + 1
            BY <1>3, <2>2
        <3> QED BY <1>1, <1>2, <2>2, <3>1
    <2> QED BY <1>2, <1>3, <2>1, <2>2
<1>5. a + Len(Append(s, r)) = Len(Append(acc, r))
    BY <1>1, <1>2, <1>3
<1>6. a + Len(Append(s, r)) <= Len(Append(acc, r))
    BY <1>1, <1>3, <1>5
<1> QED BY <1>4, <1>5, <1>6 DEF Within

\* A record is put into the buffer.
LEMMA GoodAccept ==
  ASSUME NEW q \in Seq(Message), NEW buffer \in Seq(Record), NEW acc \in Seq(Record),
         NEW f, NEW n \in Nat, Good(q, buffer, acc, f, n),
         NEW r \in Record, HasName(q, "Finish") => f.halted
  PROVE  Good(q, Append(buffer, r), Append(acc, r), f, n)
<1>1. PICK b \in Seq(Nat) : b[1] = n /\ Path(q, buffer, acc, f, b)
    BY DEF Good
<1>2. Len(b) = Len(q) + 1 /\ Len(q) \in Nat
    BY <1>1 DEF Path
<1>3. ASSUME NEW i \in 1 .. Len(q)
      PROVE  /\ b[i + 1] = b[i] + Len(q[i].recs) /\ Within(q[i].recs, Append(acc, r), b[i])
             /\ q[i].name = "Finish" => q[i].recs = << >> /\ f.halted
    <2>1. /\ b[i + 1] = b[i] + Len(q[i].recs) /\ Within(q[i].recs, acc, b[i])
          /\ q[i].name = "Finish" => q[i].recs = << >>
        BY <1>1 DEF Path
    <2>2. q[i] \in Message
        OBVIOUS
    <2>3. Len(q[i].recs) \in Nat
        BY <2>2 DEF Message
    <2>4. b[i] \in Nat
        BY <1>2
    <2>5. Within(q[i].recs, Append(acc, r), b[i])
        BY <2>1, <2>3, <2>4, WithinGrows
    <2>6. q[i].name = "Finish" => f.halted
        BY DEF HasName
    <2> QED BY <2>1, <2>5, <2>6
<1>4. Len(Append(acc, r)) = Len(acc) + 1 /\ Len(acc) \in Nat
    OBVIOUS
<1>5. b[1] <= Len(Append(acc, r))
    BY <1>1, <1>4 DEF Path
<1>6. ASSUME ~ f.terminating
      PROVE  /\ b[Len(b)] + Len(Append(buffer, r)) = Len(Append(acc, r))
             /\ Within(Append(buffer, r), Append(acc, r), b[Len(b)])
    <2>1. b[Len(b)] + Len(buffer) = Len(acc) /\ Within(buffer, acc, b[Len(b)])
        BY <1>1, <1>6 DEF Path
    <2>2. b[Len(b)] \in Nat
        BY <1>1, PathEnd
    <2> QED BY <2>1, <2>2, WithinAppend
<1>7. Path(q, Append(buffer, r), Append(acc, r), f, b)
    BY <1>2, <1>3, <1>5, <1>6 DEF Path
<1> QED BY <1>1, <1>7 DEF Good

\* Flags may be raised, and the buffer of a thread that is terminating dropped.
LEMMA GoodWeaker ==
  ASSUME NEW q, NEW buffer, NEW acc, NEW f, NEW n, Good(q, buffer, acc, f, n),
         NEW g, NEW after,
         f.halted => g.halted, ~ g.terminating => ~ f.terminating /\ after = buffer
  PROVE  Good(q, after, acc, g, n)
<1>1. PICK b \in Seq(Nat) : b[1] = n /\ Path(q, buffer, acc, f, b)
    BY DEF Good
<1>2. Path(q, after, acc, g, b)
    BY <1>1 DEF Path
<1> QED BY <1>1, <1>2 DEF Good

\* What the child wrote, what is on its way to it and what is in the buffer is
\* what was accepted.
RecordsInv(w) ==
  \E n \in Nat : /\ ~ th[w].failed /\ ~ th[w].child_finished => Len(file[w]) = n
                 /\ Good(qin[w], fe[w].write_buffer, accepted[w], th[w], n)

LEMMA GoodTokens ==
  ASSUME NEW q \in Seq(Message), NEW buffer \in Seq(Record), NEW acc \in Seq(Record),
         NEW f, NEW n \in Nat, Good(q, buffer, acc, f, n), NEW t \in Tokens,
         t = <<Msg("Finish")>> => f.halted \/ (~ f.terminating /\ buffer = << >>)
  PROVE  Good(q \o t, buffer, acc, f, n) /\ q \o t \in Seq(Message)
<1>1. CASE t = << >>
    <2>1. q \o t = q
        BY <1>1, ConcatEmpty
    <2> QED BY <2>1
<1>2. ASSUME NEW k \in InNames, t = <<Msg(k)>> PROVE Good(q \o t, buffer, acc, f, n)
    <2>1. Msg(k) \in Message /\ Msg(k).recs = << >> /\ Msg(k).name = k
        BY MsgType
    <2>2. q \o t = Append(q, Msg(k))
        BY <1>2, <2>1, ConcatAppend
    <2>3. Msg(k).name = "Finish" => f.halted \/ (~ f.terminating /\ buffer = << >>)
        BY <1>2, <2>1
    <2> QED BY <2>1, <2>2, <2>3, GoodToken
<1>3. q \o t \in Seq(Message)
    <2>1. t \in Seq(Message)
        BY TokenType
    <2> QED BY <2>1, Concatenated
<1> QED BY <1>1, <1>2, <1>3 DEF Tokens

LEMMA GoodSend ==
  ASSUME NEW w \in Writers, NEW q \in Seq(Message), NEW buffer \in Seq(Record),
         NEW acc \in Seq(Record), NEW n \in Nat, Good(q, buffer, acc, th[w], n)
  PROVE  Good(q \o SendIn(w, <<[name |-> "Write", recs |-> buffer]>>), << >>, acc, th[w], n)
<1> DEFINE m == [name |-> "Write", recs |-> buffer]
<1>1. CASE th[w].terminating
    <2>1. SendIn(w, <<m>>) = << >>
        BY <1>1 DEF SendIn
    <2>2. q \o << >> = q
        BY ConcatEmpty
    <2>3. Good(q, << >>, acc, th[w], n)
        BY <1>1, GoodWeaker
    <2> QED BY <2>1, <2>2, <2>3
<1>2. CASE ~ th[w].terminating
    <2>1. SendIn(w, <<m>>) = <<m>>
        BY <1>2 DEF SendIn
    <2>2. m \in Message
        BY MsgType
    <2>3. q \o <<m>> = Append(q, m)
        BY <2>2, ConcatAppend
    <2>4. Good(Append(q, m), << >>, acc, th[w], n)
        BY <1>2, GoodFlush
    <2> QED BY <2>1, <2>3, <2>4
<1> QED BY <1>1, <1>2

LEMMA GoodFlushed ==
  ASSUME TypeInv, NEW w \in Writers, NEW q \in Seq(Message), NEW n \in Nat,
         Good(q, fe[w].write_buffer, accepted[w], th[w], n)
  PROVE  Good(q \o SendIn(w, Flushed(w)), << >>, accepted[w], th[w], n)
<1>1. fe[w].write_buffer \in Seq(Record) /\ accepted[w] \in Seq(Record)
    BY DEF TypeInv, Frontend
<1>2. CASE fe[w].write_buffer = << >>
    <2>1. SendIn(w, Flushed(w)) = << >>
        BY <1>2 DEF SendIn, Flushed
    <2>2. q \o << >> = q
        BY ConcatEmpty
    <2> QED BY <1>2, <2>1, <2>2
<1>3. CASE fe[w].write_buffer # << >>
    <2>1. Flushed(w) = <<[name |-> "Write", recs |-> fe[w].write_buffer]>>
        BY <1>3 DEF Flushed
    <2> QED BY <1>1, <2>1, GoodSend
<1> QED BY <1>2, <1>3

LEMMA FileStays ==
  ASSUME TypeInv, [Next]_vars, NEW w \in Writers, ~ Run(w)
  PROVE  file'[w] = file[w]
<1> USE DEF childVars
<1>1. CASE Undefined
    BY <1>1 DEF Undefined
<1>2. ASSUME ~ Undefined, Write \/ Flush \/ Rotate \/ (\E b \in BOOLEAN : SetBuf(b))
      PROVE  file' = file
    BY <1>2, WriteFacts, StreamCallDelivers
<1>3. CASE Quiet
    BY <1>3 DEF Quiet, ProcessNext, ProcessDead, ProcessEnd, StartTerminate, JoinAll, Closed,
                Undefined
<1>4. ASSUME ~ Undefined, NEW b \in BOOLEAN, RemoveWriter(b) \/ StartProcess(b) PROVE file' = file
    BY <1>4 DEF RemoveWriter, StartProcess
<1>5. ASSUME ~ Undefined, Terminate \/ SignalAll \/ Signal \/ WaitNext \/ UNCHANGED vars
      PROVE  file' = file
    BY <1>5 DEF Terminate, SignalAll, Signal, WaitNext, vars
<1>6. ASSUME NEW v \in Writers, Join(v) \/ Done(v) \/ SendOut(v) PROVE file' = file
    BY <1>6 DEF Join, Done, SendOut
<1>7. ASSUME NEW v \in Writers, Run(v) PROVE file'[w] = file[w]
    BY <1>7, RunFacts
<1>8. ASSUME ProcessOut, ~ Undefined PROVE file' = file
    BY <1>8, ProcessOutFacts
<1> QED BY <1>1, <1>2, <1>3, <1>4, <1>5, <1>6, <1>7, <1>8
        DEF Next, Calls, ManagerStep, Child, Quiet

LEMMA AcceptsGood ==
  ASSUME TypeInv, NEW w \in Writers, FrontInv(w), FinishInv(w), Target = w, ~ fe[w].disabled, Accepts,
         NEW n \in Nat, Good(qin[w], fe[w].write_buffer, accepted[w], th[w], n)
  PROVE  Good(qin'[w], fe'[w].write_buffer, accepted'[w], th[w], n)
<1> DEFINE r == records + 1
           buffer == Append(fe[w].write_buffer, r)
           c(first) == IF first THEN SendIn(w, <<Msg("Init")>>) ELSE << >>
           y(flush) == IF flush THEN SendIn(w, <<[name |-> "Write", recs |-> buffer]>>) ELSE << >>
<1>1. PICK first \in BOOLEAN, flush \in BOOLEAN :
        /\ qin' = [qin EXCEPT ![w] = (qin[w] \o c(first)) \o y(flush)]
        /\ fe' = [fe EXCEPT ![w] = [fe[w] EXCEPT !.write_buffer = BufferAfter(buffer, flush)]]
        /\ accepted' = [accepted EXCEPT ![w] = Append(accepted[w], r)]
    BY DEF Accepts
<1>2. /\ fe[w] \in Frontend /\ fe[w].write_buffer \in Seq(Record) /\ accepted[w] \in Seq(Record)
      /\ qin[w] \in Seq(Message) /\ r \in Record
    BY DEF TypeInv, Frontend, Record
<1>3. buffer \in Seq(Record) /\ Append(accepted[w], r) \in Seq(Record)
    BY <1>2
<1> HIDE DEF r, buffer
<1>4. /\ qin'[w] = (qin[w] \o c(first)) \o y(flush)
      /\ accepted'[w] = Append(accepted[w], r)
      /\ fe'[w] = [fe[w] EXCEPT !.write_buffer = BufferAfter(buffer, flush)]
    BY <1>1 DEF TypeInv
<1>5. fe'[w].write_buffer = BufferAfter(buffer, flush)
    BY <1>2, <1>4 DEF Frontend
<1>6. c(first) \in Tokens /\ c(first) # <<Msg("Finish")>>
    <2>1. /\ << >> \in Tokens /\ <<Msg("Init")>> \in Tokens /\ << >> # <<Msg("Finish")>>
          /\ <<Msg("Init")>> # <<Msg("Finish")>>
        BY TokenType, TokenNonempty, TokenNames DEF InNames
    <2> QED BY <2>1 DEF SendIn
<1> HIDE DEF c
<1> DEFINE q == qin[w] \o c(first)
<1>7. Good(q, fe[w].write_buffer, accepted[w], th[w], n) /\ q \in Seq(Message)
    BY <1>2, <1>6, GoodTokens
<1>8. HasName(q, "Finish") => th[w].halted
    <2>1. c(first) \in Seq(Message) /\ ~ HasName(c(first), "Finish")
        BY <1>6, TokenType, TokenFinish
    <2>2. HasName(q, "Finish") => HasName(qin[w], "Finish")
        BY <1>2, <2>1, NameConcat
    <2> QED BY <2>2 DEF FinishInv, FrontInv
<1> HIDE DEF q
<1>9. Good(q, buffer, Append(accepted[w], r), th[w], n)
    BY <1>2, <1>7, <1>8, GoodAccept DEF buffer
<1>10. CASE flush
    <2>1. Good(q \o y(flush), << >>, Append(accepted[w], r), th[w], n)
        BY <1>3, <1>7, <1>9, <1>10, GoodSend
    <2> QED BY <1>4, <1>5, <1>10, <2>1 DEF q, BufferAfter
<1>11. CASE ~ flush
    <2>1. q \o y(flush) = q
        BY <1>7, <1>11, ConcatEmpty
    <2> QED BY <1>4, <1>5, <1>9, <1>11, <2>1 DEF q, BufferAfter
<1> QED BY <1>10, <1>11

LEMMA DeliversGood ==
  ASSUME TypeInv, NEW w \in Writers, Delivers(w), accepted'[w] = accepted[w],
         NEW n \in Nat, Good(qin[w], fe[w].write_buffer, accepted[w], th[w], n)
  PROVE  Good(qin'[w], fe'[w].write_buffer, accepted'[w], th[w], n)
<1>1. PICK a \in Tokens, z \in Tokens, flush \in BOOLEAN :
        /\ qin' = [qin EXCEPT ![w] = ((qin[w] \o a)
             \o (IF flush THEN SendIn(w, Flushed(w)) ELSE << >>)) \o z]
        /\ fe'[w].write_buffer = (IF flush THEN << >> ELSE fe[w].write_buffer)
        /\ a # <<Msg("Finish")>>
        /\ z = <<Msg("Finish")>> => flush /\ ~ th[w].terminating
    BY DEF Delivers
<1>2. /\ fe[w].write_buffer \in Seq(Record) /\ accepted[w] \in Seq(Record)
      /\ qin[w] \in Seq(Message) /\ << >> \in Seq(Record)
    BY DEF TypeInv, Frontend
<1> DEFINE q == qin[w] \o a
           x == IF flush THEN SendIn(w, Flushed(w)) ELSE << >>
           after == IF flush THEN << >> ELSE fe[w].write_buffer
<1>3. qin'[w] = (q \o x) \o z /\ fe'[w].write_buffer = after
    BY <1>1 DEF TypeInv
<1>4. Good(q, fe[w].write_buffer, accepted[w], th[w], n) /\ q \in Seq(Message)
    BY <1>1, <1>2, GoodTokens
<1> HIDE DEF q
<1>5. Good(q \o x, after, accepted[w], th[w], n) /\ q \o x \in Seq(Message)
    <2>1. CASE flush
        <3>1. SendIn(w, Flushed(w)) \in Seq(Message)
            BY CallTypes
        <3>2. q \o SendIn(w, Flushed(w)) \in Seq(Message)
            BY <1>4, <3>1, Concatenated
        <3>3. Good(q \o SendIn(w, Flushed(w)), << >>, accepted[w], th[w], n)
            BY <1>4, GoodFlushed
        <3> QED BY <2>1, <3>2, <3>3
    <2>2. CASE ~ flush
        <3>1. q \o << >> = q
            BY <1>4, ConcatEmpty
        <3> QED BY <1>4, <2>2, <3>1
    <2> QED BY <2>1, <2>2
<1>6. after \in Seq(Record) /\ (z = <<Msg("Finish")>> => ~ th[w].terminating /\ after = << >>)
    BY <1>1, <1>2
<1> HIDE DEF x, after
<1>7. Good((q \o x) \o z, after, accepted[w], th[w], n)
    BY <1>2, <1>5, <1>6, GoodTokens
<1> QED BY <1>3, <1>7

LEMMA SentGood ==
  ASSUME TypeInv, NEW w \in Writers, NEW z \in Tokens, Sent(w, z), NEW f,
         NEW n \in Nat, Good(qin[w], fe[w].write_buffer, accepted[w], f, n),
         z = <<Msg("Finish")>> => f.halted \/ (~ f.terminating /\ fe[w].write_buffer = << >>)
  PROVE  Good(qin'[w], fe'[w].write_buffer, accepted'[w], f, n)
<1>1. /\ fe[w].write_buffer \in Seq(Record) /\ accepted[w] \in Seq(Record)
      /\ qin[w] \in Seq(Message)
    BY DEF TypeInv, Frontend
<1>2. Good(qin[w] \o z, fe[w].write_buffer, accepted[w], f, n)
    BY <1>1, GoodTokens
<1> QED BY <1>2 DEF Sent

LEMMA StopToken ==
  ASSUME NEW w \in Writers
  PROVE  /\ SignalStop(w) \in Tokens
         /\ SignalStop(w) = <<Msg("Finish")>> => ~ th[w].terminating
BY TokenType, TokenNonempty DEF SignalStop, InNames

LEMMA RecordsStay ==
  ASSUME LifeInv, [Next]_vars, NEW w \in Writers, RecordsInv(w), ~ Run(w)
  PROVE  RecordsInv(w)'
<1>1. /\ TypeInv /\ FrontInv(w) /\ FinishInv(w) /\ InStep(w)
    BY InSteps DEF LifeInv
<1>2. PICK n \in Nat : /\ ~ th[w].failed /\ ~ th[w].child_finished => Len(file[w]) = n
                       /\ Good(qin[w], fe[w].write_buffer, accepted[w], th[w], n)
    BY DEF RecordsInv
<1>3. /\ th[w].halted => th'[w].halted
      /\ ~ th'[w].terminating => ~ th[w].terminating
    BY <1>1, FlagsGrow DEF Flags
<1>4. Good(qin[w], fe[w].write_buffer, accepted[w], th'[w], n)
    BY <1>2, <1>3, GoodWeaker
<1>5. ASSUME Good(qin'[w], fe'[w].write_buffer, accepted'[w], th'[w], n) PROVE RecordsInv(w)'
    <2>1. /\ th'[w].failed <=> th[w].failed
          /\ th'[w].child_finished <=> th[w].child_finished
          /\ file'[w] = file[w]
        BY <1>1, ChildFlags, FileStays
    <2> QED BY <1>2, <1>5, <2>1 DEF RecordsInv
<1>6. ASSUME Good(qin'[w], fe'[w].write_buffer, accepted'[w], th[w], n) PROVE RecordsInv(w)'
    <2>1. Good(qin'[w], fe'[w].write_buffer, accepted'[w], th'[w], n)
        BY <1>3, <1>6, GoodWeaker
    <2> QED BY <1>5, <2>1
<1>7. CASE fe'[w] = fe[w] /\ qin'[w] = qin[w] /\ accepted'[w] = accepted[w]
    BY <1>4, <1>5, <1>7
<1>8. CASE Target = w /\ ~ fe[w].disabled /\ Accepts
    BY <1>1, <1>2, <1>6, <1>8, AcceptsGood
<1>9. CASE Delivers(w) /\ accepted'[w] = accepted[w]
    BY <1>1, <1>2, <1>6, <1>9, DeliversGood
<1>10. CASE /\ fe'[w] = [fe[w] EXCEPT !.disabled = TRUE]
            /\ qin'[w] = qin[w] /\ accepted'[w] = accepted[w]
    <2>1. fe'[w].write_buffer = fe[w].write_buffer
        BY <1>1, <1>10 DEF TypeInv, Frontend
    <2> QED BY <1>4, <1>5, <1>10, <2>1
<1>11. CASE Sent(w, SendIn(w, <<Msg("Heartbeat")>>))
    <2>1. /\ << >> \in Tokens /\ <<Msg("Heartbeat")>> \in Tokens
          /\ << >> # <<Msg("Finish")>> /\ <<Msg("Heartbeat")>> # <<Msg("Finish")>>
        BY TokenType, TokenNonempty, TokenNames DEF InNames
    <2>2. /\ SendIn(w, <<Msg("Heartbeat")>>) \in Tokens
          /\ SendIn(w, <<Msg("Heartbeat")>>) # <<Msg("Finish")>>
        BY <2>1 DEF SendIn
    <2> QED BY <1>1, <1>2, <1>6, <1>11, <2>2, SentGood
<1>12. CASE SignalAll /\ w \in Alive /\ Sent(w, SignalStop(w))
    <2>1. fe[w].write_buffer = << >>
        <3>1. stage = "threads" /\ w <= created
            BY <1>1, <1>12, AliveFacts DEF SignalAll
        <3> QED BY <1>1, <3>1 DEF FrontInv
    <2>2. /\ SignalStop(w) \in Tokens
          /\ SignalStop(w) = <<Msg("Finish")>> => ~ th[w].terminating
        BY StopToken
    <2>3. Good(qin'[w], fe'[w].write_buffer, accepted'[w], th[w], n)
        BY <1>1, <1>2, <1>12, <2>1, <2>2, SentGood
    <2> QED BY <1>6, <2>3
<1>13. CASE th'[w].halted /\ Sent(w, SignalStop(w))
    <2>1. SignalStop(w) \in Tokens
        BY StopToken
    <2>2. Good(qin'[w], fe'[w].write_buffer, accepted'[w], th'[w], n)
        BY <1>1, <1>4, <1>13, <2>1, SentGood
    <2> QED BY <1>5, <2>2
<1> QED BY <1>1, <1>7, <1>8, <1>9, <1>10, <1>11, <1>12, <1>13 DEF InStep

\* s holds some of the first records of acc and then the mark of DoFinish.
Sealed(s, acc) == /\ Len(s) >= 1 /\ Len(s) <= Len(acc) + 1 /\ s[Len(s)] = 0
                  /\ \A j \in 1 .. Len(s) - 1 : s[j] = acc[j]

FileInv(w) ==
  /\ Within(file[w], accepted[w], 0) \/ (th[w].child_finished /\ Sealed(file[w], accepted[w]))
  /\ th[w].child_finished /\ ~ th[w].failed /\ ~ th[w].halted =>
       Sealed(file[w], accepted[w]) /\ Len(file[w]) = Len(accepted[w]) + 1

LEMMA WithinMore ==
  ASSUME NEW s \in Seq(Nat), NEW acc \in Seq(Record), Within(s, acc, 0),
         NEW t \in Seq(Nat), Within(t, acc, Len(s)), NEW n \in 0 .. Len(t)
  PROVE  /\ Within(s \o SubSeq(t, 1, n), acc, 0) /\ s \o SubSeq(t, 1, n) \in Seq(Nat)
         /\ Len(s \o SubSeq(t, 1, n)) = Len(s) + n
<1> DEFINE u == SubSeq(t, 1, n)
<1>1. u \in Seq(Nat) /\ Len(u) = n /\ \A i \in 1 .. n : u[i] = t[i]
    BY Prefixed
<1> HIDE DEF u
<1>2. /\ s \o u \in Seq(Nat) /\ Len(s \o u) = Len(s) + n
      /\ \A i \in 1 .. Len(s) : (s \o u)[i] = s[i]
      /\ \A i \in 1 .. Len(s \o u) : i \notin 1 .. Len(s) =>
             i - Len(s) \in 1 .. Len(u) /\ (s \o u)[i] = u[i - Len(s)]
    <2>1. u \in Seq(Nat)
        BY <1>1
    <2>2. /\ s \o u \in Seq(Nat) /\ Len(s \o u) = Len(s) + Len(u)
          /\ \A i \in 1 .. Len(s) : (s \o u)[i] = s[i]
          /\ \A i \in 1 .. Len(s \o u) : i \notin 1 .. Len(s) =>
                 i - Len(s) \in 1 .. Len(u) /\ (s \o u)[i] = u[i - Len(s)]
        BY <2>1, Concatenated
    <2> QED BY <1>1, <2>2
<1>3. Len(s) \in Nat /\ Len(t) \in Nat /\ Len(acc) \in Nat
    OBVIOUS
<1>4. ASSUME NEW j \in 1 .. Len(s \o u) PROVE (s \o u)[j] = acc[0 + j]
    <2>1. CASE j \in 1 .. Len(s)
        BY <1>2, <2>1 DEF Within
    <2>2. CASE j \notin 1 .. Len(s)
        <3> DEFINE i == j - Len(s)
        <3>1. i \in 1 .. n /\ (s \o u)[j] = u[i]
            BY <1>1, <1>2, <2>2
        <3>2. u[i] = t[i] /\ i \in 1 .. Len(t)
            BY <1>1, <1>3, <3>1
        <3>3. t[i] = acc[Len(s) + i]
            BY <3>2 DEF Within
        <3>4. Len(s) + i = 0 + j
            BY <1>2, <1>3
        <3> QED BY <3>1, <3>2, <3>3, <3>4
    <2> QED BY <2>1, <2>2
<1>5. 0 + Len(s \o u) <= Len(acc)
    BY <1>2, <1>3 DEF Within
<1> QED BY <1>2, <1>4, <1>5 DEF Within, u

LEMMA SealedAppend ==
  ASSUME NEW s \in Seq(Nat), NEW acc \in Seq(Record), Within(s, acc, 0)
  PROVE  Sealed(Append(s, 0), acc) /\ Len(Append(s, 0)) = Len(s) + 1
<1>1. /\ Len(Append(s, 0)) = Len(s) + 1 /\ Append(s, 0)[Len(s) + 1] = 0
      /\ \A i \in 1 .. Len(s) : Append(s, 0)[i] = s[i]
    BY Appended
<1>2. Len(s) \in Nat /\ Len(acc) \in Nat
    OBVIOUS
<1>3. \A i \in 1 .. Len(s) : s[i] = acc[i]
    BY <1>2 DEF Within
<1>4. Len(s) <= Len(acc)
    BY <1>2 DEF Within
<1> QED BY <1>1, <1>2, <1>3, <1>4 DEF Sealed

LEMMA RunRecords ==
  ASSUME LifeInv, [Next]_vars, NEW w \in Writers, RecordsInv(w), FileInv(w), Run(w)
  PROVE  RecordsInv(w)' /\ FileInv(w)'
<1> DEFINE m == Head(qin[w])
<1>1. TypeInv
    BY DEF LifeInv
<1>2. /\ qin[w] # << >> /\ m \in Message /\ ~ th[w].child_finished
      /\ qin'[w] = Tail(qin[w]) /\ fe'[w] = fe[w] /\ accepted'[w] = accepted[w]
    BY <1>1, RunFacts DEF logVars
<1>3. PICK ok \in BOOLEAN, k \in Nat : RunResult(w, m, ok, k)
    BY <1>1, RunFacts
<1>4. PICK n \in Nat : /\ ~ th[w].failed /\ ~ th[w].child_finished => Len(file[w]) = n
                       /\ Good(qin[w], fe[w].write_buffer, accepted[w], th[w], n)
    BY DEF RecordsInv
<1>5. qin[w] \in Seq(Message) /\ accepted[w] \in Seq(Record) /\ file[w] \in Seq(Nat)
    BY <1>1 DEF TypeInv
<1>6. /\ Within(m.recs, accepted[w], n)
      /\ Good(Tail(qin[w]), fe[w].write_buffer, accepted[w], th[w], n + Len(m.recs))
      /\ m.name = "Finish" => m.recs = << >> /\ (th[w].halted \/ n = Len(accepted[w]))
    BY <1>2, <1>4, <1>5, GoodTail
<1> HIDE DEF m
<1>7. /\ th'[w].halted <=> th[w].halted
      /\ th'[w].terminating <=> th[w].terminating
      /\ th'[w].failed <=> th[w].failed \/ ~ ok
      /\ th'[w].child_finished <=> m.name = "Finish"
      /\ th[w].failed => ok
    BY <1>2, <1>3 DEF RunResult, Raised, Flags
<1>8. Good(qin'[w], fe'[w].write_buffer, accepted'[w], th'[w], n + Len(m.recs))
    <2>1. Good(Tail(qin[w]), fe[w].write_buffer, accepted[w], th'[w], n + Len(m.recs))
        BY <1>6, <1>7, GoodWeaker
    <2> QED BY <1>2, <2>1
<1>9. /\ m.recs \in Seq(Record) /\ m.recs \in Seq(Nat) /\ n + Len(m.recs) \in Nat
      /\ k \in 0 .. Len(m.recs) /\ (ok => k = Len(m.recs))
    <2>1. m.recs \in Seq(Record)
        BY <1>2 DEF Message
    <2>2. m.recs \in Seq(Nat)
        BY <2>1 DEF Record
    <2>3. Len(m.recs) \in Nat
        BY <2>1
    <2>4. k \in 0 .. Len(m.recs) /\ (ok => k = Len(m.recs))
        BY <1>3 DEF RunResult
    <2> QED BY <2>1, <2>2, <2>3, <2>4
<1>10. Within(file[w], accepted[w], 0)
    BY <1>2 DEF FileInv
<1>11. CASE th[w].failed
    <2>1. file'[w] = file[w]
        BY <1>3, <1>11 DEF RunResult
    <2>2. RecordsInv(w)'
        BY <1>7, <1>8, <1>9, <1>11 DEF RecordsInv
    <2>3. FileInv(w)'
        BY <1>2, <1>7, <1>10, <1>11, <2>1 DEF FileInv
    <2> QED BY <2>2, <2>3
<1>12. CASE ~ th[w].failed
    <2> DEFINE s == file[w] \o SubSeq(m.recs, 1, k)
    <2>1. file'[w] = s \o (IF m.name = "Finish" THEN <<0>> ELSE << >>)
        BY <1>3, <1>12 DEF RunResult
    <2>2. Len(file[w]) = n
        BY <1>2, <1>4, <1>12
    <2>3. Within(s, accepted[w], 0) /\ s \in Seq(Nat) /\ Len(s) = Len(file[w]) + k
        BY <1>5, <1>6, <1>9, <1>10, <2>2, WithinMore
    <2> HIDE DEF s
    <2>4. CASE m.name = "Finish"
        <3>1. file'[w] = Append(s, 0)
            BY <2>1, <2>3, <2>4
        <3>2. Sealed(file'[w], accepted[w]) /\ Len(file'[w]) = Len(s) + 1
            BY <1>5, <2>3, <3>1, SealedAppend
        <3>3. Len(s) = n
            <4>1. m.recs = << >> => Len(m.recs) = 0
                OBVIOUS
            <4>2. k = 0
                BY <1>6, <1>9, <2>4, <4>1
            <4> QED BY <2>2, <2>3, <4>2
        <3>4. th[w].halted \/ n = Len(accepted[w])
            BY <1>6, <2>4
        <3>5. FileInv(w)'
            BY <1>2, <1>7, <2>4, <3>2, <3>3, <3>4 DEF FileInv
        <3>6. RecordsInv(w)'
            BY <1>7, <1>8, <1>9, <2>4 DEF RecordsInv
        <3> QED BY <3>5, <3>6
    <2>5. CASE m.name # "Finish"
        <3>1. file'[w] = s
            BY <2>1, <2>3, <2>5, ConcatEmpty
        <3>2. FileInv(w)'
            BY <1>2, <1>7, <2>3, <2>5, <3>1 DEF FileInv
        <3>3. ~ th'[w].failed => Len(file'[w]) = n + Len(m.recs)
            BY <1>7, <1>9, <2>2, <2>3, <3>1
        <3>4. RecordsInv(w)'
            BY <1>8, <1>9, <3>3 DEF RecordsInv
        <3> QED BY <3>2, <3>4
    <2> QED BY <2>4, <2>5
<1> QED BY <1>11, <1>12

LEMMA FileGrows ==
  ASSUME LifeInv, [Next]_vars, NEW w \in Writers, FileInv(w), ~ Run(w)
  PROVE  FileInv(w)'
<1>1. /\ TypeInv /\ FrontInv(w) /\ FinishInv(w) /\ InStep(w)
    BY InSteps DEF LifeInv
<1>2. /\ th'[w].failed <=> th[w].failed
      /\ th'[w].child_finished <=> th[w].child_finished
      /\ file'[w] = file[w]
      /\ th[w].halted => th'[w].halted
    BY <1>1, ChildFlags, FileStays, FlagsGrow DEF Flags
<1>3. CASE accepted'[w] = accepted[w]
    BY <1>2, <1>3 DEF FileInv
<1>4. CASE Target = w /\ ~ fe[w].disabled /\ Accepts
    <2> DEFINE r == records + 1
    <2>1. accepted'[w] = Append(accepted[w], r) /\ r \in Record /\ accepted[w] \in Seq(Record)
        BY SMTT(30), <1>1, <1>4 DEF Accepts, TypeInv, Record
    <2> HIDE DEF r
    <2>2. file[w] \in Seq(Nat) /\ Len(file[w]) \in Nat
        BY <1>1 DEF TypeInv
    <2>3. Within(file[w], accepted[w], 0) => Within(file[w], accepted'[w], 0)
        BY <2>1, <2>2, WithinGrows
    <2>4. Sealed(file[w], accepted[w]) => Sealed(file[w], accepted'[w])
        <3>1. /\ Len(accepted'[w]) = Len(accepted[w]) + 1 /\ Len(accepted[w]) \in Nat
              /\ \A i \in 1 .. Len(accepted[w]) : accepted'[w][i] = accepted[w][i]
            BY <2>1
        <3> QED BY <2>2, <3>1 DEF Sealed
    <2>5. th[w].child_finished => th[w].halted
        BY <1>1, <1>4 DEF FrontInv, FinishInv
    <2> QED BY <1>2, <2>3, <2>4, <2>5 DEF FileInv
<1>5. ~ Run(w) /\ ~ (Target = w /\ ~ fe[w].disabled /\ Accepts) => accepted'[w] = accepted[w]
    BY <1>1 DEF InStep, Sent
<1> QED BY <1>3, <1>4, <1>5

RecordInv == LifeInv /\ \A w \in Writers : RecordsInv(w) /\ FileInv(w)

LEMMA InitRecords == Init => RecordInv
<1> SUFFICES ASSUME Init PROVE RecordInv
    OBVIOUS
<1>1. ASSUME NEW w \in Writers
      PROVE  /\ qin[w] = << >> /\ accepted[w] = << >> /\ file[w] = << >>
             /\ fe[w].write_buffer = << >> /\ ~ th[w].child_finished
    BY DEF Init, Empty, Flags
<1>2. ASSUME NEW w \in Writers PROVE RecordsInv(w)
    <2> DEFINE b == <<0>>
    <2>1. b \in Seq(Nat) /\ Len(b) = 1 /\ b[1] = 0
        OBVIOUS
    <2> HIDE DEF b
    <2>2. Len(<< >>) = 0 /\ Within(<< >>, << >>, 0)
        BY DEF Within
    <2>3. Path(<< >>, << >>, << >>, th[w], b)
        BY <2>1, <2>2 DEF Path
    <2>4. Good(<< >>, << >>, << >>, th[w], 0)
        BY <2>1, <2>3 DEF Good
    <2>5. /\ Len(file[w]) = 0
          /\ Good(qin[w], fe[w].write_buffer, accepted[w], th[w], 0)
        BY <1>1, <2>2, <2>4
    <2> QED BY <2>5 DEF RecordsInv
<1>3. ASSUME NEW w \in Writers PROVE FileInv(w)
    <2>1. Within(<< >>, << >>, 0)
        BY DEF Within
    <2> QED BY <1>1, <2>1 DEF FileInv
<1> QED BY <1>2, <1>3, InitLife DEF RecordInv

LEMMA NextRecords == RecordInv /\ [Next]_vars => RecordInv'
<1> SUFFICES ASSUME RecordInv, [Next]_vars PROVE RecordInv'
    OBVIOUS
<1>1. LifeInv /\ LifeInv'
    BY NextLife DEF RecordInv
<1>2. ASSUME NEW w \in Writers PROVE RecordsInv(w)' /\ FileInv(w)'
    <2>1. RecordsInv(w) /\ FileInv(w)
        BY DEF RecordInv
    <2>2. CASE Run(w)
        BY <1>1, <2>1, <2>2, RunRecords
    <2>3. CASE ~ Run(w)
        BY <1>1, <2>1, <2>3, RecordsStay, FileGrows
    <2> QED BY <2>2, <2>3
<1> QED BY <1>1, <1>2 DEF RecordInv

LEMMA NotSealed ==
  ASSUME NEW s \in Seq(Nat), NEW acc \in Seq(Record), Within(s, acc, 0)
  PROVE  /\ \A k \in 1 .. Len(s) : s[k] # 0
         /\ s # << >> => Last(s) # 0
<1>1. Len(s) \in Nat /\ Len(acc) \in Nat /\ Len(s) <= Len(acc)
    BY DEF Within
<1>2. ASSUME NEW k \in 1 .. Len(s) PROVE s[k] # 0
    <2>1. k \in 1 .. Len(acc) /\ s[k] = acc[k]
        BY <1>1 DEF Within
    <2>2. acc[k] \in Record
        BY <2>1
    <2> QED BY <2>1, <2>2 DEF Record
<1>3. ASSUME s # << >> PROVE Last(s) # 0
    <2>1. Len(s) \in 1 .. Len(s)
        BY <1>1, <1>3
    <2> QED BY <1>2, <2>1 DEF Last
<1> QED BY <1>2, <1>3

LEMMA SamePrefix ==
  ASSUME NEW s \in Seq(Nat), NEW acc \in Seq(Nat), NEW n \in Nat, n <= Len(s), n <= Len(acc),
         \A j \in 1 .. n : s[j] = acc[j]
  PROVE  SubSeq(s, 1, n) = SubSeq(acc, 1, n)
<1>1. /\ SubSeq(s, 1, n) \in Seq(Nat) /\ Len(SubSeq(s, 1, n)) = n
      /\ \A i \in 1 .. n : SubSeq(s, 1, n)[i] = s[i]
    BY Prefixed
<1>2. /\ SubSeq(acc, 1, n) \in Seq(Nat) /\ Len(SubSeq(acc, 1, n)) = n
      /\ \A i \in 1 .. n : SubSeq(acc, 1, n)[i] = acc[i]
    BY Prefixed
<1> DEFINE x == SubSeq(s, 1, n)
           y == SubSeq(acc, 1, n)
<1> HIDE DEF x, y
<1>3. /\ x \in Seq(Nat) /\ y \in Seq(Nat) /\ Len(x) = n /\ Len(y) = n
      /\ \A i \in 1 .. n : x[i] = y[i]
    BY <1>1, <1>2 DEF x, y
<1>4. x = y
    BY <1>3
<1> QED BY <1>4 DEF x, y

\* A file holds the records given to its frontend in their order and without a
\* gap, for any size of the buffer and any number of writers and calls.
THEOREM InOrderCorrect == Spec => []InOrder
<1>1. RecordInv => InOrder
    <2> SUFFICES ASSUME RecordInv, NEW w \in Writers PROVE IsPrefix(Records(w), accepted[w])
        BY DEF InOrder
    <2> DEFINE s == file[w]
               acc == accepted[w]
    <2>1. s \in Seq(Nat) /\ acc \in Seq(Record)
        BY DEF RecordInv, LifeInv, TypeInv
    <2>2. acc \in Seq(Nat)
        BY <2>1 DEF Record
    <2>3. Within(s, acc, 0) \/ Sealed(s, acc)
        BY DEF RecordInv, FileInv
    <2>4. Len(s) \in Nat /\ Len(acc) \in Nat
        BY <2>1
    <2>5. CASE Within(s, acc, 0)
        <3>1. s # << >> => Last(s) # 0
            BY <2>1, <2>5, NotSealed
        <3>2. Records(w) = s
            BY <3>1 DEF Records
        <3>3. Len(s) <= Len(acc) /\ \A j \in 1 .. Len(s) : s[j] = acc[j]
            BY <2>4, <2>5 DEF Within
        <3>4. SubSeq(s, 1, Len(s)) = SubSeq(acc, 1, Len(s))
            BY SMTT(30), <2>1, <2>2, <2>4, <3>3, SamePrefix
        <3> QED BY <3>2, <3>3, <3>4 DEF IsPrefix
    <2>6. CASE Sealed(s, acc)
        <3> DEFINE n == Len(s) - 1
                   r == SubSeq(s, 1, n)
        <3>1. /\ n \in 0 .. Len(s) /\ n \in Nat /\ n <= Len(s) /\ n <= Len(acc) /\ s[Len(s)] = 0
              /\ \A j \in 1 .. n : s[j] = acc[j]
            BY <2>4, <2>6 DEF Sealed
        <3>2. s # << >>
            BY <2>4, <2>6 DEF Sealed
        <3>3. Records(w) = r
            BY <3>1, <3>2 DEF Records, Last, Front
        <3> HIDE DEF n
        <3>4. r = SubSeq(acc, 1, n)
            BY <2>1, <2>2, <3>1, SamePrefix
        <3>5. r \in Seq(Nat) /\ Len(r) = n /\ \A i \in 1 .. n : r[i] = s[i]
            BY <2>1, <3>1, Prefixed
        <3> HIDE DEF r
        <3>6. \A i \in 1 .. n : r[i] = acc[i]
            BY <3>1, <3>5
        <3>7. SubSeq(r, 1, n) = SubSeq(acc, 1, n)
            BY <2>2, <3>1, <3>5, <3>6, SamePrefix
        <3> QED BY <3>1, <3>3, <3>5, <3>7 DEF IsPrefix
    <2> QED BY <2>3, <2>5, <2>6
<1> QED BY <1>1, InitRecords, NextRecords, PTL DEF Spec

\* DoFinish is the last thing a writer does, however often and in whatever order
\* Stop, Process and Terminate send Finish.
THEOREM FinishOnceCorrect == Spec => []FinishOnce
<1>1. RecordInv => FinishOnce
    <2> SUFFICES ASSUME RecordInv, NEW w \in Writers, NEW k \in 1 .. Len(file[w]) - 1
                 PROVE  file[w][k] # 0
        BY DEF FinishOnce
    <2> DEFINE s == file[w]
               acc == accepted[w]
    <2>1. s \in Seq(Nat) /\ acc \in Seq(Record)
        BY DEF RecordInv, LifeInv, TypeInv
    <2>2. Within(s, acc, 0) \/ Sealed(s, acc)
        BY DEF RecordInv, FileInv
    <2>3. Len(s) \in Nat /\ Len(acc) \in Nat
        BY <2>1
    <2>4. CASE Within(s, acc, 0)
        BY <2>1, <2>3, <2>4, NotSealed
    <2>5. CASE Sealed(s, acc)
        <3>1. k \in 1 .. Len(acc) /\ s[k] = acc[k]
            BY <2>3, <2>5 DEF Sealed
        <3>2. acc[k] \in Record
            BY <2>1, <3>1
        <3> QED BY <3>1, <3>2 DEF Record
    <2> QED BY <2>2, <2>4, <2>5
<1> QED BY <1>1, InitRecords, NextRecords, PTL DEF Spec

-----------------------------------------------------------------------------
(* The end of Terminate                                                     *)

\* WaitForStop goes past a thread that has finished, or that was deleted before.
ShutInv(w) ==
  w <= created =>
    /\ mpc = "wait" /\ (th[w].deleted \/ w < turn) => th[w].child_finished \/ th[w].failed
    /\ mpc \in {"final", "closed"} => th[w].child_finished \/ th[w].failed

LEMMA ShutSteps ==
  ASSUME TypeInv, [Next]_vars, mpc' \in {"wait", "final", "closed"}
  PROVE  /\ created' = created
         /\ \/ mpc' = mpc /\ turn' = turn
            \/ SignalAll \/ WaitNext \/ JoinAll
            \/ mpc = "final" /\ mpc' = "closed"
<1>1. ~ Undefined /\ mpc' # "idle" /\ mpc' # "process"
    BY DEF Undefined
<1>2. ~ Write
    BY <1>1, WriteFacts DEF Write
<1>3. ASSUME Flush \/ Rotate \/ (\E b \in BOOLEAN : SetBuf(b)) PROVE FALSE
    BY <1>1, <1>3 DEF Flush, Rotate, SetBuf, StreamCall
<1>4. ASSUME NEW b \in BOOLEAN, RemoveWriter(b) \/ StartProcess(b) PROVE FALSE
    BY <1>1, <1>4 DEF RemoveWriter, StartProcess
<1>5. ASSUME StartTerminate \/ Terminate \/ ProcessNext \/ ProcessDead \/ ProcessEnd PROVE FALSE
    BY <1>1, <1>5 DEF StartTerminate, Terminate, ProcessNext, ProcessDead, ProcessEnd
<1>6. CASE SignalAll \/ WaitNext \/ JoinAll
    BY <1>6 DEF SignalAll, WaitNext, JoinAll, logVars
<1>7. CASE Closed
    BY <1>7 DEF Closed, logVars
<1>8. CASE Signal
    BY <1>8 DEF Signal, logVars
<1>9. ASSUME NEW w \in Writers, Join(w) PROVE UNCHANGED <<mpc, turn, created>>
    BY SMTT(30), <1>9 DEF Join, logVars
<1>10. ASSUME NEW w \in Writers, Child(w) PROVE UNCHANGED <<mpc, turn, created>>
    BY <1>10 DEF Child, Run, SendOut, Done, logVars, mgrVars
<1>11. ASSUME ProcessOut PROVE UNCHANGED <<mpc, turn, created>>
    BY <1>1, <1>11 DEF ProcessOut, logVars
<1>12. CASE UNCHANGED vars
    BY <1>12 DEF vars, logVars, mgrVars
<1> QED BY <1>2, <1>3, <1>4, <1>5, <1>6, <1>7, <1>8, <1>9, <1>10, <1>11, <1>12
        DEF Next, Calls, ManagerStep

LEMMA ShutStep ==
  ASSUME LifeInv, [Next]_vars, NEW w \in Writers, ShutInv(w)
  PROVE  ShutInv(w)'
<1> SUFFICES ASSUME w <= created', mpc' \in {"wait", "final", "closed"},
                    mpc' = "wait" => th'[w].deleted \/ w < turn'
             PROVE  th'[w].child_finished \/ th'[w].failed
    BY DEF ShutInv
<1>1. TypeInv /\ SaidInv(w) /\ FlagInv(w) /\ turn \in Nat /\ w \in Nat /\ created \in Nat
    BY DEF LifeInv, TypeInv, Writers
<1>2. /\ th[w].child_finished => th'[w].child_finished
      /\ th[w].failed => th'[w].failed
    BY <1>1, FlagsGrow DEF Flags
<1> SUFFICES th[w].child_finished \/ th[w].failed
    BY <1>2
<1>3. w <= created
    BY <1>1, ShutSteps
<1>4. CASE mpc' = mpc /\ turn' = turn
    <2>1. CASE mpc = "wait"
        <3>1. th'[w].deleted => th[w].deleted
            <4>1. ~ Join(w)
                BY <2>1 DEF Join
            <4>2. CASE Run(w)
                <5>1. PICK ok \in BOOLEAN, n \in Nat : RunResult(w, Head(qin[w]), ok, n)
                    BY <1>1, <4>2, RunFacts
                <5> QED BY <5>1 DEF RunResult, Raised, Flags
            <4>3. CASE ~ Run(w)
                BY <1>1, <4>1, <4>3, FlagSteps DEF Raised, Flags
            <4> QED BY <4>2, <4>3
        <3> QED BY <1>3, <1>4, <2>1, <3>1 DEF ShutInv
    <2>2. CASE mpc # "wait"
        BY <1>3, <1>4, <2>2 DEF ShutInv
    <2> QED BY <2>1, <2>2
<1>5. CASE SignalAll
    <2>1. mpc = "join" /\ turn' = 1 /\ th' = th /\ mpc' = "wait"
        BY <1>5 DEF SignalAll
    <2>2. th[w].deleted
        BY <2>1 DEF Writers
    <2> QED BY <1>1, <2>1, <2>2 DEF FlagInv
<1>6. CASE WaitNext
    <2>1. /\ mpc = "wait" /\ turn' = turn + 1 /\ mpc' = mpc /\ (turn \in Alive => th[turn].main_finished)
          /\ th' = [th EXCEPT ![turn].terminating = TRUE]
        BY <1>6 DEF WaitNext
    <2>2. th'[w].deleted => th[w].deleted
        BY <1>1, <2>1 DEF TypeInv, Flags
    <2>3. CASE th[w].deleted \/ w < turn
        BY <1>3, <2>1, <2>3 DEF ShutInv
    <2>4. CASE w = turn
        <3>1. th[w].deleted \/ w \in Alive
            BY <1>1, <1>3 DEF Alive, Writers
        <3>2. CASE w \in Alive
            BY <1>1, <2>1, <2>4, <3>2 DEF SaidInv
        <3> QED BY <2>3, <3>1, <3>2
    <2> QED BY <1>1, <2>1, <2>2, <2>3, <2>4
<1>7. CASE JoinAll
    <2>1. mpc = "wait" /\ turn > created
        BY <1>7 DEF JoinAll
    <2> QED BY <1>1, <1>3, <2>1 DEF ShutInv
<1>8. CASE mpc = "final" /\ mpc' = "closed"
    BY <1>3, <1>8 DEF ShutInv
<1> QED BY <1>1, <1>4, <1>5, <1>6, <1>7, <1>8, ShutSteps

LEMMA SealedAll ==
  ASSUME NEW s \in Seq(Nat), NEW acc \in Seq(Nat), Sealed(s, acc), Len(s) = Len(acc) + 1
  PROVE  s = Append(acc, 0)
<1> DEFINE t == Append(acc, 0)
<1>1. /\ t \in Seq(Nat) /\ Len(t) = Len(acc) + 1 /\ t[Len(acc) + 1] = 0
      /\ \A i \in 1 .. Len(acc) : t[i] = acc[i]
    BY Appended
<1>2. Len(acc) \in Nat
    OBVIOUS
<1> HIDE DEF t
<1>3. ASSUME NEW i \in 1 .. Len(s) PROVE s[i] = t[i]
    <2>1. i \in 1 .. Len(acc) \/ i = Len(acc) + 1
        BY <1>2
    <2> QED BY <1>1, <1>2, <2>1 DEF Sealed
<1>4. s = t
    BY <1>1, <1>3
<1> QED BY <1>4 DEF t

\* When threading::Manager::Terminate has joined the threads, without a second
\* signal, a writer that did not fail and was not halted has written every record
\* its frontend accepted: nothing is left in a buffer or a queue.
THEOREM AllWrittenCorrect == Spec => []AllWritten
<1> DEFINE Inv == RecordInv /\ \A w \in Writers : ShutInv(w)
<1>1. Init => Inv
    <2> SUFFICES ASSUME Init, NEW w \in Writers PROVE ShutInv(w)
        BY InitRecords
    <2> QED BY DEF Init, ShutInv
<1>2. Inv /\ [Next]_vars => Inv'
    <2> SUFFICES ASSUME Inv, [Next]_vars PROVE Inv'
        OBVIOUS
    <2>1. RecordInv' /\ LifeInv
        BY NextRecords DEF RecordInv
    <2>2. ASSUME NEW w \in Writers PROVE ShutInv(w)'
        BY <2>1, ShutStep
    <2> QED BY <2>1, <2>2
<1>3. Inv => AllWritten
    <2> SUFFICES ASSUME Inv, mpc = "closed", NEW w \in 1 .. created,
                        ~ th[w].failed, ~ th[w].halted
                 PROVE  file[w] = Append(accepted[w], 0)
        BY DEF AllWritten
    <2>1. TypeInv
        BY DEF RecordInv, LifeInv
    <2>2. w \in Writers /\ w <= created
        BY <2>1, ConstantsAssumption DEF TypeInv, Writers
    <2>3. th[w].child_finished
        BY <2>2 DEF ShutInv
    <2>4. Sealed(file[w], accepted[w]) /\ Len(file[w]) = Len(accepted[w]) + 1
        BY <2>2, <2>3 DEF RecordInv, FileInv
    <2>5. file[w] \in Seq(Nat) /\ accepted[w] \in Seq(Record)
        BY <2>1, <2>2 DEF TypeInv
    <2>6. accepted[w] \in Seq(Nat)
        BY <2>5 DEF Record
    <2> QED BY <2>4, <2>5, <2>6, SealedAll
<1> QED BY <1>1, <1>2, <1>3, PTL DEF Spec
=============================================================================
