------------------------------ MODULE LogThreads ------------------------------
(***************************************************************************)
(* netmonitor/platform/src: the log writers of Bro and their threads.  The *)
(* main thread buffers the records of a log stream in a WriterFrontend and *)
(* sends them to a WriterBackend, a MsgThread; the thread manager handles  *)
(* what the threads send back, joins and deletes the dead ones and ends    *)
(* them all at shutdown.                                                   *)
(*                                                                         *)
(* One stream with one filter and one path.  A writer, that is a frontend  *)
(* with its backend, is created by the first Write after the last one was  *)
(* removed; writers are numbered in that order, as are the records.  The   *)
(* queues are FIFO (MsgQueue shows why).  What happens after a call to a   *)
(* deleted object is undefined: the main thread is then "undefined".       *)
(***************************************************************************)
EXTENDS Naturals, SequencesExt

CONSTANTS MaxWriters, MaxRecords,   \* bounds on writers and records
          MaxOps,                   \* bound on the other calls of the main thread
          BufferSize                \* WRITER_BUFFER_SIZE, 1000 in the code

ASSUME ConstantsAssumption ==
  MaxWriters \in Nat /\ MaxRecords \in Nat /\ MaxOps \in Nat /\ BufferSize \in Nat \ {0}

Writers == 1 .. MaxWriters

VARIABLES cur,          \* the writer in stream->writers, 0 if there is none
          created,      \* number of writers created
          fe,           \* the frontends
          th,           \* the flags of the threads
          qin, qout,    \* queue_in, queue_out
          todo,         \* what a child has yet to send for the message in hand
          file,         \* what DoWrite wrote; 0 stands for DoFinish
          accepted,     \* history: the records put into the write buffer
          mpc,          \* where the main thread is
          stage,        \* "run", "bro_done" (terminate_bro began) or "threads"
                        \* (in threading::Manager::Terminate)
          turn, dead, did_process, signal_count,  \* locals of the thread manager
          records, ops  \* used up of MaxRecords and MaxOps

logVars == <<cur, created, accepted>>
childVars == <<todo, file>>
mgrVars == <<turn, dead, did_process, signal_count>>
budget == <<records, ops>>
vars == <<fe, th, qin, qout, mpc, stage, logVars, childVars, mgrVars, budget>>

\* History: "halted", stopped because a postprocessor failed; "condemned", killed
\* by the main thread.
Flags == {"terminating", "killed", "failed", "child_finished", "main_finished",
          "exited", "deleted", "halted", "condemned"}

Empty == [w \in Writers |-> << >>]

Init ==
  /\ cur = 0 /\ created = 0 /\ accepted = Empty
  /\ fe = [w \in Writers |-> [disabled |-> FALSE, backend |-> TRUE, deleted |-> FALSE,
                              buf |-> TRUE, write_buffer |-> << >>]]
  /\ th = [w \in Writers |-> [f \in Flags |-> FALSE]]
  /\ qin = Empty /\ qout = Empty /\ todo = Empty /\ file = Empty
  /\ mpc = "idle" /\ stage = "run"
  /\ turn = 1 /\ dead = {} /\ did_process = FALSE /\ signal_count = 0
  /\ records = 0 /\ ops = 0

Alive == {w \in 1 .. created : ~ th[w].deleted}

Over == mpc \in {"closed", "exit", "undefined"}

Running(w) == w \in Alive /\ ~ th[w].exited /\ ~ Over

-----------------------------------------------------------------------------
(* The frontend and logging::Manager, in the main thread.                    *)

Msg(name) == [name |-> name, recs |-> << >>]

\* MsgThread::SendIn drops what is sent to a thread that is terminating.
SendIn(w, msgs) == IF th[w].terminating THEN << >> ELSE msgs

\* What FlushWriteBuffer sends, and below the frontend after it.
Flushed(w) == IF fe[w].write_buffer = << >> THEN << >>
              ELSE <<[name |-> "Write", recs |-> fe[w].write_buffer]>>

\* Variant: write_buffer_pos is not reset.
Emptied_Keeps(w) == fe[w]

Emptied(w) == [fe[w] EXCEPT !.write_buffer = << >>]

\* BasicThread::SignalStop and MsgThread::OnSignalStop: the message is forced.
SignalStop(w) == IF th[w].terminating \/ th[w].main_finished THEN << >>
                 ELSE <<Msg("Finish")>>

\* The backend is deleted but the frontend still points to it.
Dangling(w) == fe[w].backend /\ th[w].deleted

Undefined ==
  /\ mpc' = "undefined"
  /\ UNCHANGED <<fe, th, qin, qout, stage, logVars, childVars, mgrVars, budget>>

\* A call that hands msgs to the backend of w and leaves the frontend as f.
Call(w, msgs, f) ==
  /\ qin' = [qin EXCEPT ![w] = @ \o msgs]
  /\ fe' = [fe EXCEPT ![w] = f]

BufferAfter(buffer, flush) == IF flush THEN << >> ELSE buffer

\* Manager::Write, CreateWriter when there is no writer for the path, and
\* WriterFrontend::Write.  A record for a disabled writer is dropped.
Write ==
  LET w == IF cur = 0 THEN created + 1 ELSE cur
      first == IF cur = 0 THEN <<Msg("Init")>> ELSE << >>
      buffer == Append(fe[w].write_buffer, records + 1)
      flush == Len(buffer) >= BufferSize \/ ~ fe[w].buf \/ stage # "run"
      msgs == first \o IF flush THEN <<[name |-> "Write", recs |-> buffer]>> ELSE << >>
  IN /\ mpc = "idle" /\ records < MaxRecords /\ w \in Writers
     /\ IF Dangling(w) /\ flush /\ ~ fe[w].disabled THEN Undefined
        ELSE /\ cur' = w /\ created' = IF cur = 0 THEN w ELSE created
             /\ records' = records + 1
             /\ IF fe[w].disabled THEN UNCHANGED <<fe, qin, accepted>>
                ELSE /\ Call(w, SendIn(w, msgs),
                             [fe[w] EXCEPT !.write_buffer = BufferAfter(buffer, flush)])
                     /\ accepted' = [accepted EXCEPT ![w] = Append(@, records + 1)]
             /\ UNCHANGED <<th, qout, mpc, stage, childVars, mgrVars, ops>>

\* A call for the stream's writer that is no write.
StreamCall(msgs, f) ==
  /\ mpc = "idle" /\ ops < MaxOps /\ cur # 0 /\ ~ fe[cur].disabled
  /\ IF Dangling(cur) THEN Undefined
     ELSE /\ Call(cur, SendIn(cur, msgs), f)
          /\ ops' = ops + 1
          /\ UNCHANGED <<th, qout, mpc, stage, logVars, childVars, mgrVars, records>>

SetBuf(enabled) ==
  StreamCall(<<Msg("SetBuf")>> \o (IF enabled THEN << >> ELSE Flushed(cur)),
             [fe[cur] EXCEPT !.buf = enabled,
                             !.write_buffer = BufferAfter(@, ~ enabled)])

Flush == StreamCall(Append(Flushed(cur), Msg("Flush")), Emptied(cur))

Rotate == StreamCall(Append(Flushed(cur), Msg("Rotate")), Emptied(cur))

\* Variant: the buffer is dropped.
Stop_NoFlush(w, delete) ==
  Call(w, SignalStop(w),
       [Emptied(w) EXCEPT !.disabled = TRUE, !.backend = FALSE, !.deleted = delete])

\* Variant: the pointer to the backend is kept.
Stop_KeepsBackend(w, delete) ==
  Call(w, SendIn(w, Flushed(w)) \o SignalStop(w),
       [Emptied(w) EXCEPT !.disabled = TRUE, !.deleted = delete])

\* WriterFrontend::Stop; RemoveStream deletes the frontend as well.
Stop(w, delete) ==
  Call(w, SendIn(w, Flushed(w)) \o SignalStop(w),
       [Emptied(w) EXCEPT !.disabled = TRUE, !.backend = FALSE, !.deleted = delete])

\* Manager::RemoveStream, and RemoveDisabledWriters at the end of SetBuf and
\* Flush.  The stream may be created again.
RemoveWriter(delete) ==
  /\ mpc = "idle" /\ ops < MaxOps /\ cur # 0
  /\ delete \/ fe[cur].disabled
  /\ IF Dangling(cur) THEN Undefined
     ELSE /\ Stop(cur, delete)
          /\ cur' = 0 /\ ops' = ops + 1
          /\ UNCHANGED <<th, qout, mpc, stage, created, accepted, childVars, mgrVars,
                         records>>

-----------------------------------------------------------------------------
(* The backend, in the child thread: MsgThread::Run.                         *)

\* Variant: the thread asks to be killed before it has disabled the frontend.
Failure_KillFirst(m) == <<"KillMe", "Disable">>

\* What the child sends when the handling of m fails, but for the messages for
\* the reporter.
Failure(m) == (IF m.name = "Finish" THEN << >> ELSE <<"Disable">>) \o <<"KillMe">>

\* Variant: the child does not say that it has finished.
Emitted_NotFinished(m, failed, ok) ==
  (CASE m.name = "Heartbeat" /\ ~ failed -> <<"FlushWriteBuffer">>
     [] m.name = "Rotate" /\ ~ failed /\ ok -> <<"RotationFinished">>
     [] OTHER -> << >>)
  \o (IF ok THEN << >> ELSE Failure(m))

\* What the child sends for m.  A writer that failed before does nothing but
\* say that it has finished.
Emitted(m, failed, ok) ==
  (CASE m.name = "Finish" -> <<"Finished">>
     [] m.name = "Heartbeat" /\ ~ failed -> <<"FlushWriteBuffer">>
     [] m.name = "Rotate" /\ ~ failed /\ ok -> <<"RotationFinished">>
     [] OTHER -> << >>)
  \o (IF ok THEN << >> ELSE Failure(m))

\* Variant: the loop does not look at child_finished.
Goes_Finished(w) == ~ th[w].killed

\* The condition of the loop in Run.
Goes(w) == ~ (th[w].child_finished \/ th[w].killed)

\* One message: Init, Write, SetBuf, Flush, Rotate, OnHeartbeat or OnFinish.
\* Each but the heartbeat may fail; a Write fails after some of its records.
Run(w) ==
  /\ Running(w) /\ todo[w] = << >> /\ Goes(w) /\ qin[w] # << >>
  /\ qin' = [qin EXCEPT ![w] = Tail(@)]
  /\ LET m == Head(qin[w])
         failed == th[w].failed
     IN \E ok \in IF failed \/ m.name = "Heartbeat" THEN {TRUE} ELSE BOOLEAN :
          /\ todo' = [todo EXCEPT ![w] = Emitted(m, failed, ok)]
          /\ th' = [th EXCEPT ![w].failed = @ \/ ~ ok,
                              ![w].child_finished = @ \/ m.name = "Finish"]
          /\ \E n \in IF ok \/ m.recs = << >> THEN {Len(m.recs)} ELSE 0 .. Len(m.recs) - 1 :
               file' = [file EXCEPT ![w] =
                          IF failed THEN @
                          ELSE @ \o SubSeq(m.recs, 1, n)
                                 \o (IF m.name = "Finish" THEN <<0>> ELSE << >>)]
  /\ UNCHANGED <<fe, qout, mpc, stage, logVars, mgrVars, budget>>

\* MsgThread::SendOut drops the message once the thread is terminating.
SendOut(w) ==
  /\ Running(w) /\ todo[w] # << >>
  /\ todo' = [todo EXCEPT ![w] = Tail(@)]
  /\ qout' = IF th[w].terminating THEN qout
             ELSE [qout EXCEPT ![w] = Append(@, Head(todo[w]))]
  /\ UNCHANGED <<fe, th, qin, mpc, stage, file, logVars, mgrVars, budget>>

\* The end of Run and BasicThread::Done.
Done(w) ==
  /\ Running(w) /\ todo[w] = << >> /\ ~ Goes(w)
  /\ th' = [th EXCEPT ![w].terminating = TRUE, ![w].killed = TRUE, ![w].exited = TRUE]
  /\ UNCHANGED <<fe, qin, qout, mpc, stage, logVars, childVars, mgrVars, budget>>

-----------------------------------------------------------------------------
(* threading::Manager, in the main thread.                                   *)

\* Process.  The heartbeats are sent together before the threads are drained.
StartProcess(do_beat) ==
  /\ mpc = "idle" /\ mpc' = "process"
  /\ do_beat => ops < MaxOps
  /\ ops' = IF do_beat THEN ops + 1 ELSE ops
  /\ turn' = 1 /\ did_process' = FALSE
  /\ qin' = [w \in Writers |-> IF do_beat /\ w \in Alive
                               THEN qin[w] \o SendIn(w, <<Msg("Heartbeat")>>) ELSE qin[w]]
  /\ UNCHANGED <<fe, th, qout, stage, logVars, childVars, dead, signal_count, records>>

Killed(W) == [w \in Writers |->
                IF w \in W THEN [th[w] EXCEPT !.terminating = TRUE, !.killed = TRUE,
                                           !.condemned = TRUE]
                ELSE th[w]]

\* Message::Process for the first message of the thread whose turn it is.  A
\* rotation's postprocessor may fail if the writer is still in the stream;
\* Process then stops the thread, OnWaitForStop only reports it.
Handle(name) ==
  CASE name = "Disable" ->
         fe' = [fe EXCEPT ![turn].disabled = TRUE] /\ UNCHANGED <<th, qin>>
    [] name = "FlushWriteBuffer" ->
         /\ Call(turn, IF fe[turn].backend THEN SendIn(turn, Flushed(turn)) ELSE << >>,
                 Emptied(turn))
         /\ UNCHANGED th
    [] name = "RotationFinished" ->
         /\ \/ UNCHANGED <<th, qin>>
            \/ /\ cur = turn /\ mpc = "process"
               /\ qin' = [qin EXCEPT ![turn] = @ \o SignalStop(turn)]
               /\ th' = [th EXCEPT ![turn].halted = TRUE]
         /\ UNCHANGED fe
    [] name = "KillMe" -> th' = Killed({turn}) /\ UNCHANGED <<fe, qin>>
    [] name = "Finished" ->
         th' = [th EXCEPT ![turn].main_finished = TRUE] /\ UNCHANGED <<fe, qin>>

\* Both Process and OnWaitForStop take the messages of one thread in order.
\* Two of them are calls of the frontend, which RemoveStream may have deleted.
ProcessOut ==
  /\ turn \in Alive /\ qout[turn] # << >>
  /\ mpc \in {"process", "wait"}
  /\ LET name == Head(qout[turn])
     IN IF fe[turn].deleted /\ name \in {"Disable", "FlushWriteBuffer"} THEN Undefined
        ELSE /\ Handle(name)
             /\ qout' = [qout EXCEPT ![turn] = Tail(@)]
             /\ did_process' = (stage = "threads")
             /\ UNCHANGED <<mpc, stage, logVars, childVars, turn, dead, signal_count, budget>>

ProcessNext ==
  /\ mpc = "process" /\ turn <= created /\ (turn \in Alive => qout[turn] = << >>)
  /\ turn' = turn + 1
  /\ UNCHANGED <<fe, th, qin, qout, mpc, stage, logVars, childVars, dead, did_process,
                 signal_count, budget>>

\* The second half of Process: the threads found killed are joined and deleted.
ProcessDead ==
  /\ mpc = "process" /\ turn > created
  /\ dead' = {w \in Alive : th[w].killed} /\ mpc' = "join"
  /\ UNCHANGED <<fe, th, qin, qout, stage, logVars, childVars, turn, did_process,
                 signal_count, budget>>

Join(w) ==
  /\ mpc \in {"join", "final"} /\ w \in dead /\ th[w].exited
  /\ dead' = dead \ {w}
  /\ th' = [th EXCEPT ![w].deleted = TRUE]
  /\ UNCHANGED <<fe, qin, qout, mpc, stage, logVars, childVars, turn, did_process,
                 signal_count, budget>>

ProcessEnd ==
  /\ mpc = "join" /\ dead = {} /\ (stage = "threads" => did_process)
  /\ mpc' = IF stage = "threads" THEN "process" ELSE "idle"
  /\ turn' = 1 /\ did_process' = FALSE
  /\ UNCHANGED <<fe, th, qin, qout, stage, logVars, childVars, dead, signal_count, budget>>

\* terminate_bro: from now on writes are not buffered.
StartTerminate ==
  /\ mpc = "idle" /\ stage = "run" /\ stage' = "bro_done"
  /\ UNCHANGED <<fe, th, qin, qout, mpc, logVars, childVars, mgrVars, budget>>

\* logging::Manager::Terminate, then threading::Manager::Terminate, which calls
\* Process as long as there is something to process.
Terminate ==
  /\ mpc = "idle" /\ stage = "bro_done"
  /\ IF cur # 0 /\ Dangling(cur) THEN Undefined
     ELSE /\ IF cur # 0 THEN Stop(cur, FALSE) ELSE UNCHANGED <<fe, qin>>
          /\ stage' = "threads" /\ mpc' = "process" /\ turn' = 1 /\ did_process' = FALSE
          /\ UNCHANGED <<th, qout, logVars, childVars, dead, signal_count, budget>>

\* Then SignalStop for all threads.
SignalAll ==
  /\ mpc = "join" /\ dead = {} /\ stage = "threads" /\ ~ did_process
  /\ qin' = [w \in Writers |-> IF w \in Alive THEN qin[w] \o SignalStop(w) ELSE qin[w]]
  /\ mpc' = "wait" /\ turn' = 1 /\ signal_count' = 0
  /\ UNCHANGED <<fe, th, qout, stage, logVars, childVars, dead, did_process, budget>>

\* WaitForStop of one thread after the other, then all are joined.  What comes
\* after Finished is handled if it comes before the last look at the queue.
WaitNext ==
  /\ mpc = "wait" /\ turn <= created /\ (turn \in Alive => th[turn].main_finished)
  /\ th' = [th EXCEPT ![turn].terminating = TRUE]
  /\ turn' = turn + 1 /\ signal_count' = 0
  /\ UNCHANGED <<fe, qin, qout, mpc, stage, logVars, childVars, dead, did_process, budget>>

\* A SIGTERM or SIGINT while OnWaitForStop waits: KillThreads, then exit.
Signal ==
  /\ mpc = "wait" /\ turn \in Alive /\ ~ th[turn].main_finished
  /\ IF signal_count = 0 THEN th' = Killed(Alive) /\ UNCHANGED mpc
     ELSE mpc' = "exit" /\ UNCHANGED th
  /\ signal_count' = signal_count + 1
  /\ UNCHANGED <<fe, qin, qout, stage, logVars, childVars, turn, dead, did_process, budget>>

JoinAll ==
  /\ mpc = "wait" /\ turn > created
  /\ mpc' = "final" /\ dead' = Alive
  /\ UNCHANGED <<fe, th, qin, qout, stage, logVars, childVars, turn, did_process,
                 signal_count, budget>>

Closed ==
  /\ mpc = "final" /\ dead = {} /\ mpc' = "closed"
  /\ UNCHANGED <<fe, th, qin, qout, stage, logVars, childVars, mgrVars, budget>>

-----------------------------------------------------------------------------
Child(w) == Run(w) \/ SendOut(w) \/ Done(w)

Calls == \/ Write \/ Flush \/ Rotate
         \/ \E b \in BOOLEAN : SetBuf(b) \/ RemoveWriter(b) \/ StartProcess(b)

ManagerStep == \/ ProcessOut \/ ProcessNext \/ ProcessDead \/ ProcessEnd
               \/ SignalAll \/ WaitNext \/ JoinAll \/ Closed
               \/ \E w \in Writers : Join(w)

Next == \/ Calls \/ StartTerminate \/ Terminate \/ ManagerStep \/ Signal
        \/ \E w \in Writers : Child(w)

\* Every thread that can go on goes on; no further call is assumed, nor a signal.
Fairness == /\ WF_vars(ManagerStep)
            /\ \A w \in Writers : WF_vars(Child(w))

Spec == Init /\ [][Next]_vars /\ Fairness

-----------------------------------------------------------------------------
\* What a file holds, but for the mark of DoFinish at its end.
Records(w) == IF file[w] # << >> /\ Last(file[w]) = 0 THEN Front(file[w]) ELSE file[w]

\* Whatever the order in which the buffer is flushed, by a full buffer, a
\* heartbeat, a rotation or a stop, a file holds the records given to its
\* frontend without a gap, a repetition or an exchange (WriterFrontend::Write,
\* FlushWriteBuffer and WriterBackend::Write).
InOrder == \A w \in Writers : IsPrefix(Records(w), accepted[w])

\* DoFinish is the last thing a writer does although Finish may be sent more
\* than once, by Stop, Process and Terminate: the abort "duplicate finish" of
\* the ASCII writer is not reached.
FinishOnce == \A w \in Writers : \A k \in 1 .. Len(file[w]) - 1 : file[w][k] # 0

\* A thread that failed is not deleted before its frontend has been disabled:
\* KillMe follows what tells of the failure (MsgThread::Run, "only after all
\* other outgoing messages").  Excepted is every thread that has handled Finish: a
\* failing DoFinish sends no Disable, and the thread may be killed and joined with
\* the Disable of an earlier failure still in its queue.
FailureIsTold ==
  \A w \in Writers :
    th[w].deleted /\ th[w].failed => fe[w].disabled \/ th[w].child_finished

\* The frontend points to a deleted backend only after a failure, of the
\* writer or of a postprocessor.
DanglingOnlyAfterFailure ==
  \A w \in Writers : Dangling(w) => th[w].failed \/ th[w].halted

\* After an orderly shutdown the file of a writer that did not fail and was
\* not stopped by a failing postprocessor holds every record it was given.
AllWritten ==
  mpc = "closed" =>
    \A w \in 1 .. created :
      th[w].failed \/ th[w].halted \/ file[w] = Append(accepted[w], 0)

\* Terminate comes to its end, without a signal, unless a thread is killed that
\* has not said that it has finished (OnWaitForStop).
WaitEnds ==
  (mpc = "wait") ~>
     (Over \/ \E w \in Alive : th[w].condemned /\ ~ th[w].main_finished)

\* Manager.h: Terminate "signals all threads to terminates and wait for them to
\* do so. It then joins them and returns to the caller".
TerminateReturns == (mpc = "wait") ~> Over
=============================================================================
