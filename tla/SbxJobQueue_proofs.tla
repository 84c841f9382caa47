------------------------- MODULE SbxJobQueue_proofs -------------------------
(***************************************************************************)
(* Proofs about SbxJobQueue, for any number of requests, names and senders. *)
(***************************************************************************)
EXTENDS SbxJobQueue, TLAPS

\* A sender that polls or has ended holds no job; one that sends holds a job
\* whose record is stored.
Holding ==
    \A s \in Senders :
        /\ sendPc[s] \in {"poll", "dead"} => jobid[s] = NoJob
        /\ sendPc[s] = "send" => jobid[s] \in info

\* What a handler has done by the time it is at each of its steps.
Progress ==
    \A r \in Requests :
        /\ reqPc[r] \in {"info", "open", "answered"} => kind[r] = "file"
        /\ reqPc[r] \in {"info", "open", "answered", "done"} => r \in info

None(h, r) == \A j \in 1 .. Len(h) : h[j] # r
Once(h, r) == \E i \in 1 .. Len(h) : \A j \in 1 .. Len(h) : h[j] = r <=> j = i

\* The history, the record and the outcome of a job in the order in which they
\* come about.
Recorded ==
    \A r \in Requests :
        /\ reqPc[r] \in {"idle", "push"} => None(history, r)
        /\ reqPc[r] = "history" => Once(history, r)
        /\ r \in info => Once(history, r)
        /\ outcome[r] \in Contents => Once(history, r)

\* No other file that has been uploaded bears the name of this request's.
Alone(r) == \A q \in Requests :
    q # r /\ kind[q] = "file" /\ reqPc[q] # "idle" => name[q] # name[r]

\* The file of a request whose name is its own.  One whose job was popped between
\* the answer and the end of the handler may stay cut short: the worker may end.
OnDisk ==
    \A r \in Requests :
        Alone(r) /\ kind[r] = "file" =>
            /\ reqPc[r] \in {"open", "answered"} => last[name[r]] = r
            /\ reqPc[r] = "open" => disk[name[r]] = Incomplete
            /\ reqPc[r] = "answered" \/ popped[r] = "answered" =>
                  disk[name[r]] \in {Incomplete, r}
            /\ reqPc[r] = "done" => disk[name[r]] = r

\* What a pop found of a request is still so.
Answered ==
    \A r \in Requests :
        /\ popped[r] = "done" => reqPc[r] = "done"
        /\ popped[r] = "answered" => reqPc[r] \in {"answered", "done", "aborted"}
        /\ popped[r] \in {"answered", "done"} => r \in info

-----------------------------------------------------------------------------
(* Sequences                                                               *)

\* rpush and lpush put an element before the others.
LEMMA Prepended ==
    ASSUME NEW S, NEW q \in Seq(S), NEW e \in S, NEW p, p = <<e>> \o q
    PROVE  /\ p \in Seq(S) /\ Len(p) = Len(q) + 1 /\ p[1] = e
           /\ \A i \in 1 .. Len(q) : p[i + 1] = q[i]
           /\ \A i \in 1 .. Len(p) : i # 1 => i - 1 \in 1 .. Len(q) /\ p[i] = q[i - 1]
<1>1. p \in Seq(S) /\ Len(p) = Len(q) + 1 /\ p[1] = e
    OBVIOUS
<1>2. \A i \in 1 .. Len(q) : p[i + 1] = q[i]
    OBVIOUS
<1>3. \A i \in 1 .. Len(p) : i # 1 => i - 1 \in 1 .. Len(q) /\ p[i] = q[i - 1]
    BY <1>1
<1> QED BY <1>1, <1>2, <1>3

\* lpop takes the first one.
LEMMA Popped ==
    ASSUME NEW S, NEW q \in Seq(S), q # <<>>
    PROVE  /\ Head(q) \in S /\ Head(q) = q[1] /\ Tail(q) \in Seq(S)
           /\ Len(q) >= 1 /\ Len(Tail(q)) = Len(q) - 1
           /\ \A i \in 1 .. Len(Tail(q)) : Tail(q)[i] = q[i + 1]
OBVIOUS

-----------------------------------------------------------------------------
(* Types                                                                   *)

LEMMA InitType == Init => TypeOK
<1> SUFFICES ASSUME Init PROVE TypeOK
    OBVIOUS
<1>1. job \in Seq(Requests) /\ history \in Seq(Requests) /\ info \subseteq Requests
    BY DEF Init
<1>2. /\ reqPc \in [Requests -> ReqPcs]
      /\ kind \in [Requests -> {"file", "url"}] /\ name \in [Requests -> Names]
      /\ disk \in [Names -> Contents] /\ last \in [Names -> Requests \cup {NoJob}]
    BY DEF Init, ReqPcs, Contents
<1>3. /\ sendPc \in [Senders -> {"poll", "info", "send", "dead"}]
      /\ jobid \in [Senders -> Requests \cup {NoJob}]
      /\ outcome \in [Requests -> Outcomes]
    BY DEF Init, Outcomes
<1>4. popped \in [Requests -> {"early", "answered", "done"}]
    BY DEF Init
<1> QED BY <1>1, <1>2, <1>3, <1>4 DEF TypeOK

LEMMA SentType ==
    ASSUME TypeOK, NEW r \in Requests
    PROVE  Sent(r) \subseteq Requests \cup {Incomplete, Mixed}
BY DEF TypeOK, Sent, Contents

\* What get_info does when it finds the record, and when it does not.
LEMMA GetInfoFound ==
    ASSUME NEW s \in Senders, get_info(s), jobid[s] \in info
    PROVE  /\ sendPc' = [sendPc EXCEPT ![s] = "send"]
           /\ UNCHANGED <<jobid, outcome, reqPc, kind, name, history, info, job, disk, last, popped>>
BY DEF get_info, reqVars, fileVars

LEMMA GetInfoMissing ==
    ASSUME NEW s \in Senders, get_info(s), jobid[s] \notin info
    PROVE  /\ sendPc' = [sendPc EXCEPT ![s] = "poll"]
           /\ jobid' = [jobid EXCEPT ![s] = NoJob]
           /\ outcome' = [r \in Requests |-> IF r = jobid[s] THEN "no record" ELSE outcome[r]]
           /\ UNCHANGED <<reqPc, kind, name, history, info, job, disk, last, popped>>
BY DEF get_info, reqVars, fileVars

LEMMA NextType == TypeOK /\ [Next]_vars => TypeOK'
<1> SUFFICES ASSUME TypeOK, [Next]_vars PROVE TypeOK'
    OBVIOUS
<1> USE DEF TypeOK
<1>1. ASSUME NEW r \in Requests, add_job_queue(r) PROVE TypeOK'
    <2>1. job' \in Seq(Requests)
        BY <1>1, Prepended DEF add_job_queue
    <2> QED BY <1>1, <2>1 DEF add_job_queue, At, ReqPcs, fileVars, sendVars
<1>2. ASSUME NEW r \in Requests, add_history_queue(r) PROVE TypeOK'
    <2>1. history' \in Seq(Requests)
        BY <1>2, Prepended DEF add_history_queue
    <2> QED BY <1>2, <2>1 DEF add_history_queue, At, ReqPcs, fileVars, sendVars
<1>3. ASSUME NEW r \in Requests, add_info(r) PROVE TypeOK'
    BY <1>3 DEF add_info, At, ReqPcs, fileVars, sendVars
<1>4. ASSUME NEW r \in Requests, OpenFile(r) PROVE TypeOK'
    BY <1>4 DEF OpenFile, Put, At, ReqPcs, sendVars, Contents
<1>5. ASSUME NEW r \in Requests, WriteFile(r) PROVE TypeOK'
    <2>1. disk' \in [Names -> Contents] /\ last' \in [Names -> Requests \cup {NoJob}]
        BY <1>5 DEF WriteFile, Put, Contents, fileVars
    <2> QED BY <1>5, <2>1 DEF WriteFile, At, ReqPcs, sendVars
<1>6. ASSUME NEW r \in Requests, Abort(r) PROVE TypeOK'
    BY <1>6 DEF Abort, ReqPcs, fileVars, sendVars
<1>7. ASSUME NEW s \in Senders, remove_job_queue(s) PROVE TypeOK'
    <2>1. CASE job = <<>>
        BY <1>7, <2>1 DEF remove_job_queue, reqVars, fileVars
    <2>2. CASE job # <<>>
        <3>1. Head(job) \in Requests /\ Tail(job) \in Seq(Requests)
            BY <2>2, Popped
        <3>2. Stage(Head(job)) \in {"early", "answered", "done"}
            BY DEF Stage
        <3> QED BY <1>7, <2>2, <3>1, <3>2 DEF remove_job_queue, reqVars, fileVars
    <2> QED BY <2>1, <2>2
<1>8. ASSUME NEW s \in Senders, get_info(s) PROVE TypeOK'
    <2>1. CASE jobid[s] \in info
        BY <1>8, <2>1, GetInfoFound
    <2>2. CASE jobid[s] \notin info
        <3>1. outcome' \in [Requests -> Outcomes]
            <4>1. "no record" \in Outcomes
                BY DEF Outcomes
            <4>2. outcome' = [r \in Requests |->
                                IF r = jobid[s] THEN "no record" ELSE outcome[r]]
                BY <1>8, <2>2, GetInfoMissing
            <4>3. \A r \in Requests : outcome'[r] \in Outcomes
                BY <4>1, <4>2
            <4> QED BY <4>2, <4>3
        <3> QED BY <1>8, <2>2, <3>1, GetInfoMissing
    <2> QED BY <2>1, <2>2
<1>9. ASSUME NEW s \in Senders, send_to_capture_agent(s), jobid[s] \in Requests
      PROVE TypeOK'
    <2>1. PICK o \in Sent(jobid[s]) \cup {"failed"} :
             outcome' = [outcome EXCEPT ![jobid[s]] = o]
        BY <1>9 DEF send_to_capture_agent
    <2>2. o \in Outcomes
        BY <1>9, SentType DEF Outcomes
    <2>3. outcome' \in [Requests -> Outcomes]
        BY <2>1, <2>2
    <2> QED BY <1>9, <2>3 DEF send_to_capture_agent, reqVars, fileVars
<1>10. ASSUME NEW s \in Senders, send_to_capture_agent(s), jobid[s] \notin Requests
       PROVE TypeOK'
    <2>1. outcome' = outcome
        BY <1>10 DEF send_to_capture_agent
    <2> QED BY <1>10, <2>1 DEF send_to_capture_agent, reqVars, fileVars
<1>11. ASSUME NEW s \in Senders, Crash(s) PROVE TypeOK'
    BY <1>11 DEF Crash, reqVars, fileVars, Outcomes
<1>12. ASSUME NEW s \in Senders, Restart(s) PROVE TypeOK'
    BY <1>12 DEF Restart, reqVars, fileVars
<1>13. ASSUME UNCHANGED vars PROVE TypeOK'
    BY <1>13 DEF vars
<1>14. ASSUME NEW r \in Requests, EndHandler(r) PROVE TypeOK'
    <2>1. disk' \in [Names -> Contents] /\ last' \in [Names -> Requests \cup {NoJob}]
        BY <1>14 DEF EndHandler, Put, Contents, fileVars
    <2> QED BY <1>14, <2>1 DEF EndHandler, At, ReqPcs, sendVars
<1> QED BY <1>1, <1>2, <1>3, <1>4, <1>5, <1>6, <1>7, <1>8, <1>9, <1>10, <1>11,
           <1>12, <1>13, <1>14 DEF Next, Worker, SenderLoop

\* The lists hold requests, and every variable stays in its type.
THEOREM TypeCorrect == Spec => []TypeOK
BY InitType, NextType, PTL DEF Spec

-----------------------------------------------------------------------------
(* Every job is in one place.                                              *)

LEMMA NextHolding == TypeOK /\ Holding /\ [Next]_vars => Holding'
<1> SUFFICES ASSUME TypeOK, Holding, [Next]_vars, NEW t \in Senders
             PROVE  /\ sendPc'[t] \in {"poll", "dead"} => jobid'[t] = NoJob
                    /\ sendPc'[t] = "send" => jobid'[t] \in info'
    BY DEF Holding
<1> USE DEF TypeOK, Holding
<1>1. ASSUME NEW r \in Requests, Worker(r) PROVE sendPc' = sendPc /\ jobid' = jobid /\ info \subseteq info'
    BY <1>1 DEF Worker, add_job_queue, add_history_queue, add_info, OpenFile,
                WriteFile, EndHandler, Abort, sendVars
<1>2. CASE \E r \in Requests : Worker(r)
    BY <1>1, <1>2
<1>3. ASSUME NEW s \in Senders, remove_job_queue(s)
      PROVE  sendPc' = [sendPc EXCEPT ![s] = "info"] /\ info' = info
             /\ \E j : jobid' = [jobid EXCEPT ![s] = j]
    BY <1>3 DEF remove_job_queue, reqVars
<1>4. CASE \E s \in Senders : remove_job_queue(s)
    BY <1>3, <1>4
<1>5. CASE \E s \in Senders : get_info(s)
    BY ZenonT(40), <1>5 DEF get_info, reqVars
<1>6. CASE \E s \in Senders : send_to_capture_agent(s)
    BY <1>6 DEF send_to_capture_agent, reqVars
<1>7. CASE \E s \in Senders : Crash(s) \/ Restart(s)
    BY <1>7 DEF Crash, Restart, reqVars
<1>8. CASE UNCHANGED vars
    BY <1>8 DEF vars
<1> QED BY <1>2, <1>4, <1>5, <1>6, <1>7, <1>8 DEF Next, SenderLoop

\* A worker touches neither what is held nor the outcomes, and the list only
\* when it publishes.
LEMMA WorkerFrame ==
    ASSUME NEW r \in Requests, Worker(r), ~add_job_queue(r)
    PROVE  /\ UNCHANGED <<job, sendVars>>
           /\ reqPc[r] # "idle" /\ \E p \in ReqPcs \ {"idle"} : reqPc' = [reqPc EXCEPT ![r] = p]
BY DEF Worker, add_history_queue, add_info, OpenFile, WriteFile, EndHandler, Abort, At, ReqPcs

\* Accounted, one request at a time.
Account(r) ==
    /\ \A x, y \in Queued(r) : x = y
    /\ \A x, y \in Holders(r) : x = y
    /\ Queued(r) # {} => Holders(r) = {}
    /\ outcome[r] # "none" => Queued(r) = {} /\ Holders(r) = {}
    /\ reqPc[r] # "idle" /\ outcome[r] = "none" => Queued(r) # {} \/ Holders(r) # {}
    /\ reqPc[r] = "idle" => Queued(r) = {} /\ Holders(r) = {} /\ outcome[r] = "none"

LEMMA AccountedByRequest == Accounted <=> \A r \in Requests : Account(r)
<1>1. ASSUME NEW r \in Requests
      PROVE  (Queued(r) \cup Holders(r) = {}) <=> (Queued(r) = {} /\ Holders(r) = {})
    OBVIOUS
<1> QED BY <1>1 DEF Accounted, Account

LEMMA NextAccounted == TypeOK /\ Holding /\ Accounted /\ [Next]_vars => Accounted'
<1> SUFFICES ASSUME TypeOK, Holding, Accounted, [Next]_vars, NEW r \in Requests
             PROVE  Account(r)'
    BY AccountedByRequest DEF Accounted, Account
<1>a. Account(r)
    BY AccountedByRequest
<1> USE DEF TypeOK
<1>1. ASSUME NEW q \in Requests, add_job_queue(q) PROVE Account(r)'
    <2>1. /\ UNCHANGED <<jobid, outcome>> /\ reqPc[q] = "idle"
          /\ reqPc' = [reqPc EXCEPT ![q] = "push"] /\ job' = <<q>> \o job
        BY <1>1 DEF add_job_queue, At, sendVars
    <2>2. /\ Len(job') = Len(job) + 1 /\ job'[1] = q
          /\ \A i \in 1 .. Len(job) : job'[i + 1] = job[i]
          /\ \A i \in 1 .. Len(job') : i # 1 => i - 1 \in 1 .. Len(job) /\ job'[i] = job[i - 1]
        BY <2>1, Prepended
    <2>3. Holders(r)' = Holders(r)
        BY <2>1 DEF Holders
    <2>4. CASE r = q
        <3>1. Queued(r) = {} /\ Holders(r) = {} /\ outcome[r] = "none"
            BY <1>a, <2>1, <2>4 DEF Account
        <3>2. Queued(r)' = {1}
            <4>1. Len(job) \in Nat /\ 1 \in Queued(r)'
                BY <2>2, <2>4 DEF Queued
            <4>2. \A i \in Queued(r)' : i = 1
                BY <2>2, <3>1 DEF Queued
            <4> QED BY <4>1, <4>2
        <3> QED BY <2>1, <2>3, <3>1, <3>2, <2>4 DEF Account
    <2>5. CASE r # q
        <3>1. \A i \in Queued(r)' : i - 1 \in Queued(r) /\ i \in Nat
            BY <2>2, <2>5 DEF Queued
        <3>2. \A i \in Queued(r) : i + 1 \in Queued(r)'
            BY <2>2 DEF Queued
        <3>3. \A x, y \in Queued(r)' : x = y
            <4> SUFFICES ASSUME NEW x \in Queued(r)', NEW y \in Queued(r)' PROVE x = y
                OBVIOUS
            <4>1. x - 1 = y - 1
                BY <3>1, <1>a DEF Account
            <4> QED BY <4>1, <3>1
        <3>4. (Queued(r)' = {}) <=> (Queued(r) = {})
            BY <3>1, <3>2
        <3>5. reqPc'[r] = reqPc[r] /\ outcome'[r] = outcome[r]
            BY <2>1, <2>5
        <3> QED BY <1>a, <2>3, <3>3, <3>4, <3>5 DEF Account
    <2> QED BY <2>4, <2>5
<1>2. ASSUME NEW q \in Requests, Worker(q), ~add_job_queue(q) PROVE Account(r)'
    <2>1. UNCHANGED <<job, jobid, outcome>>
        BY <1>2, WorkerFrame DEF sendVars
    <2>2. reqPc'[r] = "idle" <=> reqPc[r] = "idle"
        BY <1>2, WorkerFrame
    <2> QED BY <1>a, <2>1, <2>2 DEF Account, Queued, Holders
<1>3. ASSUME NEW s \in Senders, remove_job_queue(s), job = <<>> PROVE Account(r)'
    <2>1. /\ UNCHANGED <<job, reqPc, outcome>> /\ sendPc[s] = "poll"
          /\ jobid' = [jobid EXCEPT ![s] = NoJob]
        BY <1>3 DEF remove_job_queue, reqVars
    <2>2. jobid' = jobid
        BY <2>1 DEF Holding
    <2> QED BY <1>a, <2>1, <2>2 DEF Account, Queued, Holders
<1>4. ASSUME NEW s \in Senders, remove_job_queue(s), job # <<>> PROVE Account(r)'
    <2>1. /\ UNCHANGED <<reqPc, outcome>> /\ sendPc[s] = "poll"
          /\ jobid' = [jobid EXCEPT ![s] = Head(job)] /\ job' = Tail(job)
        BY <1>4 DEF remove_job_queue, reqVars
    <2>2. /\ Head(job) \in Requests /\ Head(job) = job[1] /\ Len(job) \in Nat
          /\ Len(job) >= 1 /\ Len(job') = Len(job) - 1
          /\ \A i \in 1 .. Len(job') : job'[i] = job[i + 1]
        BY <1>4, <2>1, Popped
    <2>3. jobid[s] = NoJob
        BY <2>1 DEF Holding
    <2>4. NoJob # r
        BY JobAssumption
    <2>5. CASE r = Head(job)
        <3>1. 1 \in Queued(r)
            BY <2>2, <2>5 DEF Queued
        <3>2. Queued(r) = {1} /\ Holders(r) = {} /\ outcome[r] = "none" /\ reqPc[r] # "idle"
            BY <3>1, <1>a DEF Account
        <3>3. Queued(r)' = {}
            <4> SUFFICES ASSUME NEW i \in Queued(r)' PROVE FALSE
                OBVIOUS
            <4>1. i \in 1 .. Len(job') /\ job[i + 1] = r
                BY <2>2 DEF Queued
            <4>2. i + 1 \in Queued(r) /\ i + 1 # 1
                BY <4>1, <2>2 DEF Queued
            <4> QED BY <4>2, <3>2
        <3>4. Holders(r)' = {s}
            BY <2>1, <2>5, <3>2 DEF Holders
        <3> QED BY <2>1, <3>2, <3>3, <3>4 DEF Account
    <2>6. CASE r # Head(job)
        <3>1. \A i \in Queued(r)' : i + 1 \in Queued(r) /\ i \in Nat
            BY <2>2 DEF Queued
        <3>2. \A i \in Queued(r) : i - 1 \in Queued(r)'
            BY <2>2, <2>6 DEF Queued
        <3>3. \A x, y \in Queued(r)' : x = y
            <4> SUFFICES ASSUME NEW x \in Queued(r)', NEW y \in Queued(r)' PROVE x = y
                OBVIOUS
            <4>1. x + 1 = y + 1
                BY <3>1, <1>a DEF Account
            <4> QED BY <4>1, <3>1
        <3>4. (Queued(r)' = {}) <=> (Queued(r) = {})
            BY <3>1, <3>2
        <3>5. Holders(r)' = Holders(r)
            BY <2>1, <2>3, <2>4, <2>6 DEF Holders
        <3> QED BY <1>a, <2>1, <3>3, <3>4, <3>5 DEF Account
    <2> QED BY <2>5, <2>6
<1>5. ASSUME NEW s \in Senders, UNCHANGED <<job, reqPc>>,
             jobid' = [jobid EXCEPT ![s] = NoJob],
             jobid[s] = r => outcome'[r] # "none",
             jobid[s] # r => outcome'[r] = outcome[r]
      PROVE  Account(r)'
    <2>1. NoJob # r /\ Queued(r)' = Queued(r)
        BY <1>5, JobAssumption DEF Queued
    <2>2. CASE jobid[s] = r
        <3>1. Holders(r) = {s} /\ Queued(r) = {} /\ reqPc[r] # "idle"
            BY <2>2, <1>a DEF Account, Holders
        <3>2. Holders(r)' = {}
            BY <3>1, <1>5, <2>1 DEF Holders
        <3> QED BY <1>5, <2>1, <2>2, <3>1, <3>2 DEF Account
    <2>3. CASE jobid[s] # r
        <3>1. Holders(r)' = Holders(r)
            BY <2>3, <1>5, <2>1 DEF Holders
        <3> QED BY <1>5, <2>1, <2>3, <3>1, <1>a DEF Account
    <2> QED BY <2>2, <2>3
<1>6. ASSUME NEW s \in Senders, get_info(s), jobid[s] \in info PROVE Account(r)'
    <2>1. UNCHANGED <<job, jobid, outcome, reqPc>>
        BY <1>6, GetInfoFound
    <2> QED BY <1>a, <2>1 DEF Account, Queued, Holders
<1>7. ASSUME NEW s \in Senders, get_info(s), jobid[s] \notin info PROVE Account(r)'
    <2>1. /\ UNCHANGED <<job, reqPc>> /\ jobid' = [jobid EXCEPT ![s] = NoJob]
          /\ outcome' = [q \in Requests |-> IF q = jobid[s] THEN "no record" ELSE outcome[q]]
        BY <1>7, GetInfoMissing
    <2> QED BY <1>5, <2>1
<1>8. ASSUME NEW s \in Senders, send_to_capture_agent(s) PROVE Account(r)'
    <2>1. jobid[s] \in Requests
        BY <1>8 DEF send_to_capture_agent, Holding
    <2>2. PICK o \in Sent(jobid[s]) \cup {"failed"} :
             outcome' = [outcome EXCEPT ![jobid[s]] = o]
        BY <1>8 DEF send_to_capture_agent
    <2>3. o # "none"
        BY <2>1, SentType, JobAssumption DEF Incomplete, Mixed
    <2> QED BY <1>5, <1>8, <2>1, <2>2, <2>3 DEF send_to_capture_agent, reqVars
<1>9. ASSUME NEW s \in Senders, Crash(s) PROVE Account(r)'
    BY <1>9, <1>5 DEF Crash, reqVars
<1>10. ASSUME NEW s \in Senders, Restart(s) PROVE Account(r)'
    BY <1>10, <1>a DEF Restart, reqVars, Account, Queued, Holders
<1>11. ASSUME UNCHANGED vars PROVE Account(r)'
    BY <1>11, <1>a DEF vars, Account, Queued, Holders
<1> QED BY <1>1, <1>2, <1>3, <1>4, <1>6, <1>7, <1>8, <1>9, <1>10, <1>11
       DEF Next, Worker, SenderLoop

LEMMA InitAccounted == Init => Holding /\ Accounted
<1> SUFFICES ASSUME Init PROVE Holding /\ Accounted
    OBVIOUS
<1>1. Holding
    BY DEF Init, Holding
<1>2. ASSUME NEW r \in Requests PROVE Queued(r) = {} /\ Holders(r) = {}
    <2>1. Len(job) = 0 /\ r # NoJob
        BY JobAssumption DEF Init
    <2>2. Queued(r) = {}
        BY <2>1 DEF Queued
    <2>3. Holders(r) = {}
        BY <2>1 DEF Init, Holders
    <2> QED BY <2>2, <2>3
<1>3. Accounted
    BY <1>2 DEF Init, Accounted
<1> QED BY <1>1, <1>3

\* A job is in the list once, or held by one sender, or has had its one outcome:
\* lpop hands it to one sender only, and it is never sent twice.
THEOREM AccountedCorrect == Spec => []Accounted
<1>1. Init => TypeOK /\ Holding /\ Accounted
    BY InitType, InitAccounted
<1>2. TypeOK /\ Holding /\ Accounted /\ [Next]_vars => (TypeOK /\ Holding /\ Accounted)'
    BY NextType, NextHolding, NextAccounted
<1> QED BY <1>1, <1>2, PTL DEF Spec

-----------------------------------------------------------------------------
(* A job that was sent is recorded.                                        *)

LEMMA OnceAfterPrepend ==
    ASSUME NEW h \in Seq(Requests), NEW q \in Requests, NEW r \in Requests,
           NEW p, p = <<q>> \o h
    PROVE  /\ r = q /\ None(h, r) => Once(p, r)
           /\ r # q /\ None(h, r) => None(p, r)
           /\ r # q /\ Once(h, r) => Once(p, r)
<1>1. /\ Len(p) = Len(h) + 1 /\ Len(h) \in Nat /\ p[1] = q
      /\ \A i \in 1 .. Len(h) : p[i + 1] = h[i]
      /\ \A i \in 1 .. Len(p) : i # 1 => i - 1 \in 1 .. Len(h) /\ p[i] = h[i - 1]
    BY Prepended
<1>2. ASSUME r = q, None(h, r) PROVE Once(p, r)
    <2>1. 1 \in 1 .. Len(p) /\ \A j \in 1 .. Len(p) : p[j] = r <=> j = 1
        BY <1>1, <1>2 DEF None
    <2> QED BY <2>1 DEF Once
<1>3. ASSUME r # q, None(h, r) PROVE None(p, r)
    BY <1>1, <1>3 DEF None
<1>4. ASSUME r # q, Once(h, r) PROVE Once(p, r)
    <2>1. PICK i \in 1 .. Len(h) : \A j \in 1 .. Len(h) : h[j] = r <=> j = i
        BY <1>4 DEF Once
    <2>2. i + 1 \in 1 .. Len(p) /\ \A j \in 1 .. Len(p) : p[j] = r <=> j = i + 1
        BY <1>1, <1>4, <2>1
    <2> QED BY <2>2 DEF Once
<1> QED BY <1>2, <1>3, <1>4

\* Recorded, one request at a time.
Record(r) ==
    /\ reqPc[r] \in {"idle", "push"} => None(history, r)
    /\ reqPc[r] = "history" => Once(history, r)
    /\ r \in info => Once(history, r)
    /\ outcome[r] \in Contents => Once(history, r)

LEMMA MarksAreNoContents == {"none", "no record", "failed", "crashed"} \cap Contents = {}
BY JobAssumption DEF Contents, NoFile, Incomplete, Mixed

LEMMA NextRecorded == TypeOK /\ Holding /\ Recorded /\ [Next]_vars => Recorded'
<1> SUFFICES ASSUME TypeOK, Holding, Recorded, [Next]_vars, NEW r \in Requests
             PROVE  Record(r)'
    BY DEF Recorded, Record
<1>a. Record(r)
    BY DEF Recorded, Record
<1> USE DEF TypeOK
<1>1. ASSUME NEW q \in Requests, add_history_queue(q) PROVE Record(r)'
    <2>1. /\ UNCHANGED <<info, outcome>> /\ reqPc[q] = "push"
          /\ reqPc' = [reqPc EXCEPT ![q] = "history"] /\ history' = <<q>> \o history
        BY <1>1 DEF add_history_queue, At, sendVars
    <2>2. CASE r = q
        <3>1. Once(history', r)
            BY <1>a, <2>1, <2>2, OnceAfterPrepend DEF Record
        <3> QED BY <2>1, <2>2, <3>1 DEF Record
    <2>3. CASE r # q
        <3>1. /\ None(history, r) => None(history', r)
              /\ Once(history, r) => Once(history', r)
            BY <2>1, <2>3, OnceAfterPrepend
        <3>2. reqPc'[r] = reqPc[r]
            BY <2>1, <2>3
        <3> QED BY <1>a, <2>1, <3>1, <3>2 DEF Record
    <2> QED BY <2>2, <2>3
<1>2. ASSUME NEW q \in Requests, add_info(q) PROVE Record(r)'
    <2>1. /\ UNCHANGED <<history, outcome>> /\ reqPc[q] = "history"
          /\ info' = info \cup {q}
          /\ reqPc'[r] = reqPc[r] \/ (r = q /\ reqPc'[r] \in {"info", "done"})
        BY <1>2 DEF add_info, At, sendVars
    <2> QED BY <1>a, <2>1 DEF Record
<1>3. ASSUME NEW q \in Requests, add_job_queue(q) \/ OpenFile(q) \/ WriteFile(q) \/ EndHandler(q) \/ Abort(q)
      PROVE  Record(r)'
    <2>1. /\ UNCHANGED <<history, info, outcome>>
          /\ \/ reqPc'[r] = reqPc[r]
             \/ reqPc[r] = "idle" /\ reqPc'[r] = "push"
             \/ reqPc'[r] \in {"open", "answered", "done", "aborted"}
        BY <1>3 DEF add_job_queue, OpenFile, WriteFile, EndHandler, Abort, At, sendVars
    <2> QED BY <1>a, <2>1 DEF Record
<1>4. ASSUME UNCHANGED <<history, info, reqPc>>,
             outcome'[r] \in Contents => outcome[r] \in Contents \/ r \in info
      PROVE  Record(r)'
    BY <1>4, <1>a DEF Record
<1>5. ASSUME NEW s \in Senders, remove_job_queue(s) \/ Restart(s) PROVE Record(r)'
    BY <1>4, <1>5 DEF remove_job_queue, Restart, reqVars
<1>6. ASSUME NEW s \in Senders, get_info(s) PROVE Record(r)'
    <2>1. CASE jobid[s] \in info
        BY <1>4, <1>6, <2>1, GetInfoFound
    <2>2. CASE jobid[s] \notin info
        <3>1. /\ UNCHANGED <<history, info, reqPc>>
              /\ outcome'[r] = outcome[r] \/ outcome'[r] = "no record"
            <4>1. outcome' = [q \in Requests |->
                                IF q = jobid[s] THEN "no record" ELSE outcome[q]]
                BY <1>6, <2>2, GetInfoMissing
            <4> QED BY <1>6, <2>2, <4>1, GetInfoMissing
        <3> QED BY <1>4, <3>1, MarksAreNoContents
    <2> QED BY <2>1, <2>2
<1>7. ASSUME NEW s \in Senders, send_to_capture_agent(s) PROVE Record(r)'
    <2>1. jobid[s] \in info /\ UNCHANGED <<history, info, reqPc>>
        BY <1>7 DEF send_to_capture_agent, Holding, reqVars
    <2>2. r # jobid[s] => outcome'[r] = outcome[r]
        BY <1>7, <2>1 DEF send_to_capture_agent
    <2> QED BY <1>4, <2>1, <2>2
<1>8. ASSUME NEW s \in Senders, Crash(s) PROVE Record(r)'
    <2>1. UNCHANGED <<history, info, reqPc>> /\ outcome'[r] \in {outcome[r], "crashed"}
        BY <1>8 DEF Crash, reqVars
    <2> QED BY <1>4, <2>1, MarksAreNoContents
<1>9. ASSUME UNCHANGED vars PROVE Record(r)'
    BY <1>9, <1>a DEF vars, Record
<1> QED BY <1>1, <1>2, <1>3, <1>5, <1>6, <1>7, <1>8, <1>9 DEF Next, Worker, SenderLoop

LEMMA InitRecorded == Init => Recorded
<1> SUFFICES ASSUME Init, NEW r \in Requests PROVE Record(r)
    BY DEF Recorded, Record
<1>1. Len(history) = 0 /\ info = {} /\ outcome[r] = "none" /\ reqPc[r] = "idle"
    BY DEF Init
<1>2. None(history, r)
    BY <1>1 DEF None
<1> QED BY <1>1, <1>2, MarksAreNoContents DEF Record

\* A job that reached a capture agent is in the history exactly once, though the
\* worker publishes it before it records it.
THEOREM SentIsRecordedCorrect == Spec => []SentIsRecorded
<1>1. Init => TypeOK /\ Holding /\ Recorded
    BY InitType, InitAccounted, InitRecorded
<1>2. TypeOK /\ Holding /\ Recorded /\ [Next]_vars => (TypeOK /\ Holding /\ Recorded)'
    BY NextType, NextHolding, NextRecorded
<1>3. Recorded => SentIsRecorded
    BY DEF Recorded, SentIsRecorded, Once
<1> QED BY <1>1, <1>2, <1>3, PTL DEF Spec
-----------------------------------------------------------------------------
(* A job that was answered before it was taken is sent, its body whole if  *)
(* the handler had ended.                                                 *)

LEMMA NextProgress == TypeOK /\ Progress /\ [Next]_vars => Progress'
<1> SUFFICES ASSUME TypeOK, Progress, [Next]_vars, NEW r \in Requests
             PROVE  /\ reqPc'[r] \in {"info", "open", "answered"} => kind'[r] = "file"
                    /\ reqPc'[r] \in {"info", "open", "answered", "done"} => r \in info'
    BY DEF Progress
<1> USE DEF TypeOK, Progress
<1>1. ASSUME NEW q \in Requests, add_info(q)
      PROVE  /\ kind' = kind /\ info' = info \cup {q}
             /\ reqPc' = [reqPc EXCEPT ![q] = IF kind[q] = "file" THEN "info" ELSE "done"]
    BY <1>1 DEF add_info, At
<1>2. CASE \E q \in Requests : add_info(q)
    BY <1>1, <1>2
<1>3. CASE \E q \in Requests : add_job_queue(q) \/ add_history_queue(q) \/ Abort(q)
    BY <1>3 DEF add_job_queue, add_history_queue, Abort, At
<1>4. CASE \E q \in Requests : OpenFile(q)
    BY <1>4 DEF OpenFile, At
<1>5. CASE \E q \in Requests : WriteFile(q) \/ EndHandler(q)
    BY <1>5 DEF WriteFile, EndHandler, At
<1>6. CASE \E s \in Senders : SenderLoop(s) \/ Crash(s) \/ Restart(s)
    BY <1>6 DEF SenderLoop, remove_job_queue, get_info, send_to_capture_agent, Crash,
                Restart, reqVars
<1>7. CASE UNCHANGED vars
    BY <1>7 DEF vars
<1> QED BY <1>2, <1>3, <1>4, <1>5, <1>6, <1>7 DEF Next, Worker

LEMMA NextAnswered ==
    TypeOK /\ Progress /\ Answered /\ [Next]_vars => Answered'
<1> SUFFICES ASSUME TypeOK, Progress, Answered, [Next]_vars, NEW r \in Requests
             PROVE  /\ popped'[r] = "done" => reqPc'[r] = "done"
                    /\ popped'[r] = "answered" => reqPc'[r] \in {"answered", "done", "aborted"}
                    /\ popped'[r] \in {"answered", "done"} => r \in info'
    BY DEF Answered
<1> USE DEF TypeOK, Answered
<1>1. ASSUME NEW q \in Requests, Worker(q)
      PROVE  /\ popped' = popped /\ info \subseteq info'
             /\ reqPc[r] = "done" => reqPc'[r] = "done"
             /\ reqPc[r] \in {"answered", "aborted"} => reqPc'[r] \in {"answered", "done", "aborted"}
    BY <1>1 DEF Worker, add_job_queue, add_history_queue, add_info, OpenFile, WriteFile,
                EndHandler, Abort, At, sendVars
<1>2. CASE \E q \in Requests : Worker(q)
    BY <1>1, <1>2
<1>3. CASE \E s \in Senders : remove_job_queue(s)
    <2>1. reqPc' = reqPc /\ info' = info
        BY <1>3 DEF remove_job_queue, reqVars
    <2>2. CASE job = <<>>
        BY <1>3, <2>1, <2>2 DEF remove_job_queue
    <2>3. CASE job # <<>>
        <3>1. Head(job) \in Requests /\ popped' = [popped EXCEPT ![Head(job)] = Stage(Head(job))]
            BY <1>3, <2>3, Popped DEF remove_job_queue
        <3>2. CASE r = Head(job)
            <4>1. popped'[r] = Stage(r)
                BY <3>1, <3>2
            <4> QED BY <4>1, <2>1 DEF Stage, Progress
        <3>3. CASE r # Head(job)
            BY <3>1, <3>3, <2>1
        <3> QED BY <3>2, <3>3
    <2> QED BY <2>2, <2>3
<1>4. ASSUME NEW s \in Senders, get_info(s) \/ send_to_capture_agent(s) \/ Crash(s) \/ Restart(s)
      PROVE  popped' = popped /\ reqPc' = reqPc /\ info' = info
    BY <1>4 DEF get_info, send_to_capture_agent, Crash, Restart, reqVars
<1>5. CASE UNCHANGED vars
    BY <1>5 DEF vars
<1> QED BY <1>2, <1>3, <1>4, <1>5 DEF Next, SenderLoop

\* A request does not become alone again: handlers do not go back to the start.
LEMMA AloneBefore ==
    ASSUME TypeOK, [Next]_vars, NEW r \in Requests, Alone(r)'
    PROVE  Alone(r) /\ kind' = kind /\ name' = name
<1> USE DEF TypeOK
<1>1. kind' = kind /\ name' = name /\ \A q \in Requests : reqPc'[q] = "idle" => reqPc[q] = "idle"
    <2>1. CASE \E q \in Requests : Worker(q)
        BY <2>1 DEF Worker, add_job_queue, add_history_queue, add_info, OpenFile, WriteFile, EndHandler,
                    Abort, At
    <2>2. CASE \E s \in Senders : SenderLoop(s) \/ Crash(s) \/ Restart(s)
        BY <2>2 DEF SenderLoop, remove_job_queue, get_info, send_to_capture_agent, Crash,
                    Restart, reqVars
    <2>3. CASE UNCHANGED vars
        BY <2>3 DEF vars
    <2> QED BY <2>1, <2>2, <2>3 DEF Next
<1> QED BY <1>1 DEF Alone

\* What OnDisk says of one request, for the file that bears its name.
FileOK(r) ==
    /\ reqPc[r] \in {"open", "answered"} => last[name[r]] = r
    /\ reqPc[r] = "open" => disk[name[r]] = Incomplete
    /\ reqPc[r] = "answered" \/ popped[r] = "answered" => disk[name[r]] \in {Incomplete, r}
    /\ reqPc[r] = "done" => disk[name[r]] = r

\* Two requests alone with their names have different files.
LEMMA OthersFile ==
    ASSUME Progress, NEW r \in Requests, Alone(r), NEW q \in Requests, q # r,
           reqPc[q] \in {"info", "open", "answered"}
    PROVE  name[q] # name[r]
BY DEF Progress, Alone

LEMMA NextOnDisk == TypeOK /\ Progress /\ Answered /\ OnDisk /\ [Next]_vars => OnDisk'
<1> SUFFICES ASSUME TypeOK, Progress, Answered, OnDisk, [Next]_vars, NEW r \in Requests,
                    Alone(r)', kind'[r] = "file"
             PROVE  FileOK(r)'
    BY DEF OnDisk, FileOK
<1> USE DEF TypeOK
<1>1. Alone(r) /\ kind' = kind /\ name' = name /\ kind[r] = "file" /\ name[r] \in Names
    BY AloneBefore
<1>2. FileOK(r)
    BY <1>1 DEF OnDisk, FileOK
\* Another request leaves the file, the handler and the pop alone.
<1>3. ASSUME NEW q \in Requests, q # r, OpenFile(q) \/ WriteFile(q) \/ EndHandler(q)
      PROVE  FileOK(r)'
    <2>1. reqPc'[r] = reqPc[r] /\ popped' = popped /\ reqPc[q] \in {"info", "open", "answered"}
        BY <1>3 DEF OpenFile, WriteFile, EndHandler, At, sendVars
    <2>2. name[q] # name[r] /\ name[q] \in Names
        BY <1>1, <1>3, <2>1, OthersFile
    <2>3. UNCHANGED fileVars \/ \E c : Put(q, c)
        BY <1>3 DEF OpenFile, WriteFile, EndHandler
    <2>4. disk'[name[r]] = disk[name[r]] /\ last'[name[r]] = last[name[r]]
        BY <1>1, <2>2, <2>3 DEF Put, fileVars
    <2> QED BY <1>1, <1>2, <2>1, <2>4 DEF FileOK
<1>4. CASE OpenFile(r)
    <2>1. /\ reqPc[r] = "info" /\ reqPc'[r] = "open" /\ popped' = popped
          /\ disk'[name[r]] = Incomplete /\ last'[name[r]] = r
        BY <1>1, <1>4 DEF OpenFile, Put, At, sendVars
    <2> QED BY <1>1, <2>1 DEF FileOK
<1>5. CASE WriteFile(r)
    <2>1. reqPc[r] = "open" /\ reqPc'[r] = "answered" /\ popped' = popped
        BY <1>5 DEF WriteFile, At, sendVars
    <2>2. disk[name[r]] = Incomplete /\ last[name[r]] = r
        BY <1>2, <2>1 DEF FileOK
    <2>3. UNCHANGED fileVars \/ \E c \in {Incomplete, r} : Put(r, c)
        BY <1>5, <2>2 DEF WriteFile
    <2>4. disk'[name[r]] \in {Incomplete, r} /\ last'[name[r]] = r
        BY <1>1, <2>2, <2>3 DEF Put, fileVars
    <2> QED BY <1>1, <2>1, <2>4 DEF FileOK
<1>6. CASE EndHandler(r)
    <2>1. reqPc[r] = "answered" /\ reqPc'[r] = "done" /\ popped' = popped
        BY <1>6 DEF EndHandler, At, sendVars
    <2>2. disk[name[r]] \in {Incomplete, r} /\ last[name[r]] = r
        BY <1>2, <2>1 DEF FileOK
    <2>3. disk[name[r]] # Mixed \/ r = Mixed
        BY <2>2 DEF Incomplete, Mixed
    <2>4. Mixed \notin Requests
        BY JobAssumption DEF Mixed
    <2>5. Put(r, r)
        BY <1>6, <2>2, <2>3, <2>4 DEF EndHandler
    <2> QED BY <1>1, <2>1, <2>5 DEF FileOK, Put
<1>7. ASSUME NEW q \in Requests, add_info(q) PROVE FileOK(r)'
    <2>1. /\ UNCHANGED <<disk, last, popped>> /\ reqPc[q] = "history"
          /\ reqPc' = [reqPc EXCEPT ![q] = IF kind[q] = "file" THEN "info" ELSE "done"]
        BY <1>7 DEF add_info, At, fileVars, sendVars
    <2> QED BY <1>1, <1>2, <2>1 DEF FileOK
<1>8. ASSUME NEW q \in Requests, add_job_queue(q) \/ add_history_queue(q) \/ Abort(q)
      PROVE  FileOK(r)'
    <2>1. /\ UNCHANGED <<disk, last, popped>>
          /\ reqPc'[r] = reqPc[r] \/ reqPc'[r] \in {"push", "history", "aborted"}
        BY <1>8 DEF add_job_queue, add_history_queue, Abort, At, fileVars, sendVars
    <2> QED BY <1>1, <1>2, <2>1 DEF FileOK
<1>9. ASSUME NEW s \in Senders, remove_job_queue(s) PROVE FileOK(r)'
    <2>1. UNCHANGED <<disk, last, reqPc>>
        BY <1>9 DEF remove_job_queue, reqVars, fileVars
    <2>2. popped'[r] = "answered" => popped[r] = "answered" \/ reqPc[r] = "answered"
        <3>1. CASE job = <<>>
            BY <1>9, <3>1 DEF remove_job_queue
        <3>2. CASE job # <<>>
            <4>1. Head(job) \in Requests /\ popped' = [popped EXCEPT ![Head(job)] = Stage(Head(job))]
                BY <1>9, <3>2, Popped DEF remove_job_queue
            <4> QED BY <4>1 DEF Stage
        <3> QED BY <3>1, <3>2
    <2> QED BY <1>1, <1>2, <2>1, <2>2 DEF FileOK
<1>10. ASSUME NEW s \in Senders,
              get_info(s) \/ send_to_capture_agent(s) \/ Crash(s) \/ Restart(s)
       PROVE  FileOK(r)'
    <2>1. UNCHANGED <<disk, last, reqPc, popped>>
        BY <1>10 DEF get_info, send_to_capture_agent, Crash, Restart, reqVars, fileVars
    <2> QED BY <1>1, <1>2, <2>1 DEF FileOK
<1>11. CASE UNCHANGED vars
    BY <1>11, <1>1, <1>2 DEF vars, FileOK
<1> QED BY <1>3, <1>4, <1>5, <1>6, <1>7, <1>8, <1>9, <1>10, <1>11 DEF Next, Worker, SenderLoop

\* The outcomes AnsweredIsSent allows.
Good(r) == {"none", r, "failed", "crashed"}
           \cup (IF popped[r] = "done" THEN {} ELSE {Incomplete})

LEMMA NextAnsweredIsSent ==
    TypeOK /\ Holding /\ Accounted /\ Progress /\ Answered /\ OnDisk
    /\ AnsweredIsSent /\ [Next]_vars => AnsweredIsSent'
<1> SUFFICES ASSUME TypeOK, Holding, Accounted, Progress, Answered, OnDisk, AnsweredIsSent,
                    [Next]_vars, NEW r \in Requests,
                    popped'[r] \in {"answered", "done"}, kind'[r] = "url" \/ Alone(r)'
             PROVE  outcome'[r] \in Good(r)'
    BY DEF AnsweredIsSent, Alone, Good
<1> USE DEF TypeOK
<1>1. kind' = kind /\ (kind[r] = "url" \/ Alone(r))
    <2>1. CASE Alone(r)'
        BY <2>1, AloneBefore
    <2>2. CASE kind'[r] = "url"
        <3>1. kind' = kind
            BY DEF Next, vars, Worker, add_job_queue, add_history_queue, add_info, OpenFile,
                   WriteFile, EndHandler, Abort, SenderLoop, remove_job_queue, get_info,
                   send_to_capture_agent, Crash, Restart, reqVars
        <3> QED BY <2>2, <3>1
    <2> QED BY <2>1, <2>2
<1>2. popped[r] \in {"answered", "done"} => outcome[r] \in Good(r)
    BY <1>1 DEF AnsweredIsSent, Alone, Good
<1>3. ASSUME UNCHANGED <<outcome, popped>> PROVE outcome'[r] \in Good(r)'
    BY <1>2, <1>3 DEF Good
<1>4. ASSUME NEW q \in Requests, Worker(q) PROVE UNCHANGED <<outcome, popped>>
    BY <1>4 DEF Worker, add_job_queue, add_history_queue, add_info, OpenFile, WriteFile, EndHandler,
                Abort, sendVars
<1>5. ASSUME NEW s \in Senders, remove_job_queue(s)
      PROVE  outcome'[r] \in Good(r)'
    <2>1. outcome' = outcome
        BY <1>5 DEF remove_job_queue
    <2>2. CASE job = <<>>
        BY <1>3, <1>5, <2>1, <2>2 DEF remove_job_queue
    <2>3. CASE job # <<>> /\ r = Head(job)
        <3>1. 1 \in Queued(r)
            BY <2>3, Popped DEF Queued
        <3>2. outcome[r] = "none"
            BY <3>1, AccountedByRequest DEF Account
        <3> QED BY <2>1, <3>2 DEF Good
    <2>4. CASE job # <<>> /\ r # Head(job)
        <3>1. Head(job) \in Requests /\ popped' = [popped EXCEPT ![Head(job)] = Stage(Head(job))]
            BY <1>5, <2>4, Popped DEF remove_job_queue
        <3>2. popped'[r] = popped[r]
            BY <2>4, <3>1
        <3> QED BY <1>2, <2>1, <3>2 DEF Good
    <2> QED BY <2>2, <2>3, <2>4
<1>6. ASSUME NEW s \in Senders, get_info(s)
      PROVE  outcome'[r] \in Good(r)'
    <2>1. CASE jobid[s] \in info
        BY <1>3, <1>6, <2>1, GetInfoFound
    <2>2. CASE jobid[s] \notin info
        <3>1. /\ popped' = popped
              /\ outcome' = [q \in Requests |-> IF q = jobid[s] THEN "no record" ELSE outcome[q]]
            BY <1>6, <2>2, GetInfoMissing
        <3>2. r \in info
            BY <3>1 DEF Answered
        <3>3. outcome'[r] = outcome[r]
            BY <2>2, <3>1, <3>2
        <3> QED BY <1>2, <3>1, <3>3 DEF Good
    <2> QED BY <2>1, <2>2
<1>7. ASSUME NEW s \in Senders, send_to_capture_agent(s)
      PROVE  outcome'[r] \in Good(r)'
    <2>1. popped' = popped /\ jobid[s] \in Requests
        BY <1>7 DEF send_to_capture_agent, Holding
    <2>2. PICK o \in Sent(jobid[s]) \cup {"failed"} :
             outcome' = [outcome EXCEPT ![jobid[s]] = o]
        BY <1>7 DEF send_to_capture_agent
    <2>3. CASE jobid[s] = r
        <3>1. Sent(r) \subseteq Good(r)
            <4>1. CASE kind[r] = "url"
                BY <4>1 DEF Sent, Good
            <4>2. CASE kind[r] # "url"
                <5>1. kind[r] = "file" /\ Alone(r)
                    BY <1>1, <4>2
                <5>2. disk[name[r]] \in Good(r)
                    BY <2>1, <5>1 DEF OnDisk, Answered, Good
                <5> QED BY <5>1, <5>2 DEF Sent
            <4> QED BY <4>1, <4>2
        <3> QED BY <2>1, <2>2, <2>3, <3>1 DEF Good
    <2>4. CASE jobid[s] # r
        BY <1>2, <2>1, <2>2, <2>4 DEF Good
    <2> QED BY <2>3, <2>4
<1>8. ASSUME NEW s \in Senders, Crash(s)
      PROVE  outcome'[r] \in Good(r)'
    BY <1>2, <1>8 DEF Crash, Good
<1>9. ASSUME NEW s \in Senders, Restart(s) PROVE UNCHANGED <<outcome, popped>>
    BY <1>9 DEF Restart
<1>10. CASE UNCHANGED vars
    BY <1>3, <1>10 DEF vars
<1> QED BY <1>3, <1>4, <1>5, <1>6, <1>7, <1>8, <1>9, <1>10 DEF Next, SenderLoop

\* What AnsweredIsSent needs beside itself.
Inv == /\ TypeOK /\ Holding /\ Accounted
       /\ Progress /\ Answered /\ OnDisk /\ AnsweredIsSent

\* A job taken after the answer to its request, whose name no other file bears, is
\* sent: its record and its file are there before the answer.  Its body is whole
\* if the handler had ended, which closes the file; the answer alone does not.
THEOREM AnsweredIsSentCorrect == Spec => []AnsweredIsSent
<1>1. Init => Inv
    <2> SUFFICES ASSUME Init PROVE Inv
        OBVIOUS
    <2>1. TypeOK /\ Holding /\ Accounted
        BY InitType, InitAccounted
    <2>2. Progress /\ OnDisk
        BY DEF Init, Progress, OnDisk
    <2>3. Answered /\ AnsweredIsSent
        BY DEF Init, Answered, AnsweredIsSent
    <2> QED BY <2>1, <2>2, <2>3 DEF Inv
<1>2. Inv /\ [Next]_vars => Inv'
    BY NextType, NextHolding, NextAccounted, NextProgress, NextAnswered, NextOnDisk, NextAnsweredIsSent
       DEF Inv
<1>3. Inv => AnsweredIsSent
    BY DEF Inv
<1> QED BY <1>1, <1>2, <1>3, PTL DEF Spec
=============================================================================
