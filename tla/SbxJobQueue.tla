---------------------------- MODULE SbxJobQueue ----------------------------
(***************************************************************************)
(* The cloud server's job queue: uWSGI workers that accept uploads, the      *)
(* Redis database they share with the senders, the upload directory, and     *)
(* the senders (sbxcapturesender.py) that hand each job to a capture agent.  *)
(*                                                                         *)
(* A Redis command is atomic; a handler is a sequence of them.  A request    *)
(* stands for its uuid, its headers and its body.                            *)
(***************************************************************************)
EXTENDS Naturals, Sequences

CONSTANTS Requests,  \* PUT requests
          Names,     \* values of the Filename header
          Senders,   \* sender processes
          NoJob      \* what lpop returns for an empty list

\* A uuid is neither the empty answer of lpop nor one of the marks below.
ASSUME JobAssumption ==
    Requests \cap {NoJob, "none", "no record", "failed", "crashed", "mixed"} = {}

VARIABLES reqPc,    \* where the handler of each request is
          kind,     \* the request's job_type
          name,     \* its Filename header
          job,      \* the Redis list "job", left end first
          history,  \* the Redis list "history", left end first
          info,     \* requests whose job record is stored
          disk,     \* the files of the upload directory
          last,     \* the request that opened or wrote each of them last
          sendPc,   \* where each sender is
          jobid,    \* the job each sender holds
          outcome,  \* history: what became of each job that was popped
          popped    \* history: what a pop found of the job's request: nothing yet,
                    \* the answer, or the end of the handler
vars == <<reqPc, kind, name, job, history, info, disk, last, sendPc, jobid, outcome,
          popped>>

reqVars == <<reqPc, kind, name, history, info>>
fileVars == <<disk, last>>
sendVars == <<sendPc, jobid, outcome, popped>>

\* Contents of a file: absent, a beginning (perhaps empty) of one request's body,
\* the whole body of one request, or one request's body over another's.
NoFile == "no file"
Incomplete == "incomplete"
Mixed == "mixed"
Contents == Requests \cup {NoFile, Incomplete, Mixed}

Init ==
    /\ reqPc = [r \in Requests |-> "idle"]
    /\ kind \in [Requests -> {"file", "url"}]
    /\ name \in [Requests -> Names]
    /\ job = <<>> /\ history = <<>> /\ info = {}
    /\ disk = [n \in Names |-> NoFile] /\ last = [n \in Names |-> NoJob]
    /\ sendPc = [s \in Senders |-> "poll"]
    /\ jobid = [s \in Senders |-> NoJob]
    /\ outcome = [r \in Requests |-> "none"]
    /\ popped = [r \in Requests |-> "early"]

-----------------------------------------------------------------------------
(* application.__iter__ and save_file                                      *)

At(r, pc, next) == reqPc[r] = pc /\ reqPc' = [reqPc EXCEPT ![r] = next]

add_job_queue(r) ==
    /\ At(r, "idle", "push")
    /\ job' = <<r>> \o job
    /\ UNCHANGED <<kind, name, history, info, fileVars, sendVars>>

\* Variant: a URL is not recorded.
add_history_queue_FilesOnly(r) ==
    /\ At(r, "push", "history")
    /\ history' = IF kind[r] = "file" THEN <<r>> \o history ELSE history
    /\ UNCHANGED <<kind, name, job, info, fileVars, sendVars>>

add_history_queue(r) ==
    /\ At(r, "push", "history")
    /\ history' = <<r>> \o history
    /\ UNCHANGED <<kind, name, job, info, fileVars, sendVars>>

\* A URL request is answered now; a file still has to be saved.
add_info(r) ==
    /\ At(r, "history", IF kind[r] = "file" THEN "info" ELSE "done")
    /\ info' = info \cup {r}
    /\ UNCHANGED <<kind, name, job, history, fileVars, sendVars>>

Put(r, c) ==
    /\ disk' = [disk EXCEPT ![name[r]] = c]
    /\ last' = [last EXCEPT ![name[r]] = r]

\* open(..., 'w') cuts the file that bears the name.
OpenFile(r) ==
    /\ At(r, "info", "open")
    /\ Put(r, Incomplete)
    /\ UNCHANGED <<kind, name, job, history, info, sendVars>>

\* f.write(body) and the answer.  `f.close' is not a call: the whole blocks of the
\* body are on disk, the rest of it waits in the buffer of f.
WriteFile(r) ==
    /\ At(r, "open", "answered")
    /\ \/ UNCHANGED fileVars
       \/ \E c \in {Incomplete, r} \cup (IF last[name[r]] = r THEN {} ELSE {Mixed}) : Put(r, c)
    /\ UNCHANGED <<kind, name, job, history, info, sendVars>>

\* Variant: the generator ends without giving f up.
EndHandler_Open(r) ==
    /\ At(r, "answered", "done")
    /\ UNCHANGED <<kind, name, job, history, info, fileVars, sendVars>>

\* The generator ends behind the yield and drops f, which writes its buffer.
\* If another request used the file since open(), the bodies may be mixed.
EndHandler(r) ==
    /\ At(r, "answered", "done")
    /\ IF last[name[r]] = r /\ disk[name[r]] # Mixed
       THEN Put(r, r)
       ELSE UNCHANGED fileVars \/ \E c \in {r, Mixed} : Put(r, c)
    /\ UNCHANGED <<kind, name, job, history, info, sendVars>>

\* A missing header, a Redis error or the end of the worker ends a handler
\* between any two of its steps; what is in the buffer of f is then lost.
Abort(r) ==
    /\ reqPc[r] \in {"push", "history", "info", "open", "answered"}
    /\ reqPc' = [reqPc EXCEPT ![r] = "aborted"]
    /\ UNCHANGED <<kind, name, job, history, info, fileVars, sendVars>>

Worker(r) == add_job_queue(r) \/ add_history_queue(r) \/ add_info(r)
             \/ OpenFile(r) \/ WriteFile(r) \/ EndHandler(r) \/ Abort(r)

-----------------------------------------------------------------------------
(* The main loop of sbxcapturesender.py                                    *)

\* How far the handler of a request is when its job is popped.
Stage(r) == IF reqPc[r] \in {"answered", "done"} THEN reqPc[r] ELSE "early"

\* Variant: the job stays in the list while it is sent.
remove_job_queue_Peek(s) ==
    /\ sendPc[s] = "poll"
    /\ jobid' = [jobid EXCEPT ![s] = IF job = <<>> THEN NoJob ELSE Head(job)]
    /\ sendPc' = [sendPc EXCEPT ![s] = "info"]
    /\ UNCHANGED <<reqVars, job, fileVars, outcome, popped>>

\* lpop
remove_job_queue(s) ==
    /\ sendPc[s] = "poll"
    /\ sendPc' = [sendPc EXCEPT ![s] = "info"]
    /\ IF job = <<>>
       THEN /\ jobid' = [jobid EXCEPT ![s] = NoJob]
            /\ UNCHANGED <<job, popped>>
       ELSE /\ jobid' = [jobid EXCEPT ![s] = Head(job)]
            /\ job' = Tail(job)
            /\ popped' = [popped EXCEPT ![Head(job)] = Stage(Head(job))]
    /\ UNCHANGED <<reqVars, fileVars, outcome>>

\* Variant: the sender's loop ends when it finds nothing.
get_info_Ends(s) ==
    /\ sendPc[s] = "info"
    /\ sendPc' = [sendPc EXCEPT ![s] = IF jobid[s] \in info THEN "send" ELSE "ended"]
    /\ UNCHANGED <<reqVars, job, fileVars, jobid, outcome, popped>>

\* hgetall: no record, the same as no job, makes the sender say that there is
\* nothing in the queue and go on.
get_info(s) ==
    /\ sendPc[s] = "info"
    /\ IF jobid[s] \in info
       THEN sendPc' = [sendPc EXCEPT ![s] = "send"] /\ UNCHANGED <<jobid, outcome>>
       ELSE /\ sendPc' = [sendPc EXCEPT ![s] = "poll"]
            /\ outcome' = [r \in Requests |->
                              IF r = jobid[s] THEN "no record" ELSE outcome[r]]
            /\ jobid' = [jobid EXCEPT ![s] = NoJob]
    /\ UNCHANGED <<reqVars, job, fileVars, popped>>

\* What reaches the capture agent: the record's URL, or the file that bears the
\* record's name at that time.
Sent(r) == IF kind[r] = "url" THEN {r} ELSE {disk[name[r]]} \ {NoFile}

\* send_url_to_capture_agent, send_file_to_capture_agent: every exception is
\* caught and the loop goes on, so a failed request is not repeated.
send_to_capture_agent(s) ==
    /\ sendPc[s] = "send"
    /\ \E o \in Sent(jobid[s]) \cup {"failed"} :
          outcome' = [outcome EXCEPT ![jobid[s]] = o]
    /\ sendPc' = [sendPc EXCEPT ![s] = "poll"]
    /\ jobid' = [jobid EXCEPT ![s] = NoJob]
    /\ UNCHANGED <<reqVars, job, fileVars, popped>>

\* A sender ends, with the job it holds, and is started again by hand.
Crash(s) ==
    /\ sendPc[s] # "dead"
    /\ sendPc' = [sendPc EXCEPT ![s] = "dead"]
    /\ outcome' = [r \in Requests |-> IF r = jobid[s] THEN "crashed" ELSE outcome[r]]
    /\ jobid' = [jobid EXCEPT ![s] = NoJob]
    /\ UNCHANGED <<reqVars, job, fileVars, popped>>
Restart(s) ==
    /\ sendPc[s] = "dead"
    /\ sendPc' = [sendPc EXCEPT ![s] = "poll"]
    /\ UNCHANGED <<reqVars, job, fileVars, jobid, outcome, popped>>

SenderLoop(s) == remove_job_queue(s) \/ get_info(s) \/ send_to_capture_agent(s)

Next ==
    \/ \E r \in Requests : Worker(r)
    \/ \E s \in Senders : SenderLoop(s) \/ Crash(s) \/ Restart(s)

Spec == Init /\ [][Next]_vars

\* "it can run forever": the loop of a sender that is alive goes on.
FairSpec == Spec /\ \A s \in Senders : WF_vars(SenderLoop(s))

-----------------------------------------------------------------------------
(* Properties                                                              *)

ReqPcs == {"idle", "push", "history", "info", "open", "answered", "done", "aborted"}
Outcomes == Requests \cup {Incomplete, Mixed, "none", "no record", "failed", "crashed"}

\* The types of the variables.
TypeOK ==
    /\ reqPc \in [Requests -> ReqPcs]
    /\ kind \in [Requests -> {"file", "url"}] /\ name \in [Requests -> Names]
    /\ job \in Seq(Requests) /\ history \in Seq(Requests) /\ info \subseteq Requests
    /\ disk \in [Names -> Contents] /\ last \in [Names -> Requests \cup {NoJob}]
    /\ sendPc \in [Senders -> {"poll", "info", "send", "dead"}]
    /\ jobid \in [Senders -> Requests \cup {NoJob}]
    /\ outcome \in [Requests -> Outcomes] /\ popped \in [Requests -> {"early", "answered", "done"}]

Queued(r) == {i \in 1 .. Len(job) : job[i] = r}
Holders(r) == {s \in Senders : jobid[s] = r}

\* Every job that was pushed is in the list once, or held by one sender, or has
\* had its one outcome: it is never sent twice, whatever the senders, crashes
\* and restarts, and never disappears without one of the outcomes.
Accounted ==
    \A r \in Requests :
        LET places == Queued(r) \cup Holders(r)
        IN  /\ \A x, y \in Queued(r) : x = y
            /\ \A x, y \in Holders(r) : x = y
            /\ Queued(r) # {} => Holders(r) = {}
            /\ outcome[r] # "none" => places = {}
            /\ reqPc[r] # "idle" /\ outcome[r] = "none" => places # {}
            /\ reqPc[r] = "idle" => places = {} /\ outcome[r] = "none"

\* A job that reached a capture agent is in the history, once: recording comes
\* after publishing but before the record that a sender needs.
SentIsRecorded ==
    \A r \in Requests :
        outcome[r] \in Contents =>
            \E i \in 1 .. Len(history) :
                \A j \in 1 .. Len(history) : history[j] = r <=> j = i

\* A job popped after the answer to its request, whose name no other file bears,
\* is sent unless the transfer fails: its record and its file are there.  It is
\* sent with its whole body if the handler had ended; between the answer and the
\* end of the handler the file may be cut short, since line 86 does not close it.
AnsweredIsSent ==
    \A r \in Requests :
        /\ popped[r] \in {"answered", "done"}
        /\ kind[r] = "url" \/ \A q \in Requests :
              q # r /\ kind[q] = "file" /\ reqPc[q] # "idle" => name[q] # name[r]
        => outcome[r] \in {"none", r, "failed", "crashed"}
                          \cup (IF popped[r] = "done" THEN {} ELSE {Incomplete})

\* A job in the list is taken out of it in the end, unless a sender ends: the
\* list is drained once uploads stop, though the newest job goes first.
JobsAreTaken ==
    \A r \in Requests :
        Queued(r) # {} ~> Queued(r) = {} \/ \E s \in Senders : sendPc[s] = "dead"
=============================================================================
