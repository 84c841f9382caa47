------------------------------- MODULE MsgQueue -------------------------------
(***************************************************************************)
(* netmonitor/platform/src/threading/Queue.h: the queue between Bro's main *)
(* thread and a child thread.  It is striped over NUM_QUEUES sub-queues    *)
(* with a mutex and a condition variable each; the reader and the writer   *)
(* go round them with pointers that no lock protects, so that the two meet *)
(* on a mutex only when the queue is nearly empty.                         *)
(*                                                                         *)
(* This is the queue_in of a MsgThread: the child is its reader, the main  *)
(* thread its writer, which also kills the child, wakes it up and asks for *)
(* the queue's size.  The n-th message put is the number n.                *)
(***************************************************************************)
EXTENDS Integers, Sequences

CONSTANTS NumQueues,   \* NUM_QUEUES, 8 in the code
          MaxPuts      \* bound on the messages put

ASSUME NumQueuesAssumption == NumQueues \in Nat \ {0}
ASSUME MaxPutsAssumption == MaxPuts \in Nat

Slots == 0 .. NumQueues - 1

VARIABLES messages,     \* the sub-queues
          mutex,        \* who holds the mutex of each sub-queue
          read_ptr, write_ptr, num_reads, num_writes,
          killed,       \* reader->Killed()
          data,         \* what the last successful Get returned
          rpc, rheld,   \* the reader's step in Get, old_read_ptr
          wpc, wheld,   \* the main thread's step, old_write_ptr
          need_signal,  \* local of Put
          slot          \* loop counter of WakeUp and Size

readerVars == <<read_ptr, num_reads, data, rheld>>
writerVars == <<write_ptr, num_writes, wheld, need_signal>>
vars == <<messages, mutex, killed, rpc, wpc, slot, readerVars, writerVars>>

Init ==
  /\ messages = [i \in Slots |-> << >>]
  /\ mutex = [i \in Slots |-> "free"]
  /\ read_ptr = 0 /\ write_ptr = 0
  /\ num_reads = 0 /\ num_writes = 0
  /\ killed = FALSE /\ data = 0
  /\ rpc = "idle" /\ rheld = 0
  /\ wpc = "idle" /\ wheld = 0
  /\ need_signal = FALSE /\ slot = 0

Advance(p) == IF p = NumQueues - 1 THEN 0 ELSE p + 1

-----------------------------------------------------------------------------
(* The reader: Get, one step per lock, test, wait and unlock.               *)

GetLock ==
  /\ rpc = "idle" /\ mutex[read_ptr] = "free"
  /\ mutex' = [mutex EXCEPT ![read_ptr] = "reader"]
  /\ rpc' = "locked"
  /\ UNCHANGED <<messages, killed, wpc, slot, readerVars, writerVars>>

\* Variant: equal pointers are taken for an empty queue.
GetTest_ComparesPointers ==
  /\ rpc = "locked"
  /\ rheld' = read_ptr
  /\ rpc' = IF read_ptr # write_ptr THEN "pop" ELSE "unlock"
  /\ UNCHANGED <<messages, mutex, killed, wpc, slot, read_ptr, num_reads, data,
                 writerVars>>

\* Variant: the flags are not looked at before the wait.
GetTest_IgnoresKill ==
  /\ rpc = "locked"
  /\ rheld' = read_ptr
  /\ rpc' = IF messages[read_ptr] # << >> THEN "pop" ELSE "towait"
  /\ UNCHANGED <<messages, mutex, killed, wpc, slot, read_ptr, num_reads, data,
                 writerVars>>

\* Variant: an empty sub-queue is passed over.
GetTest_SkipsEmpty ==
  /\ rpc = "locked"
  /\ rheld' = read_ptr
  /\ rpc' = IF messages[read_ptr] # << >> THEN "pop" ELSE "unlock"
  /\ read_ptr' = IF messages[read_ptr] # << >> THEN read_ptr ELSE Advance(read_ptr)
  /\ UNCHANGED <<messages, mutex, killed, wpc, slot, num_reads, data, writerVars>>

\* The test of emptiness and, when empty, of the two Killed() flags.
GetTest ==
  /\ rpc = "locked"
  /\ rheld' = read_ptr
  /\ rpc' = IF messages[read_ptr] # << >> THEN "pop"
            ELSE IF killed THEN "unlock" ELSE "towait"
  /\ UNCHANGED <<messages, mutex, killed, wpc, slot, read_ptr, num_reads, data,
                 writerVars>>

\* pthread_cond_timedwait gives the mutex back while it waits.
GetWait ==
  /\ rpc = "towait"
  /\ mutex' = [mutex EXCEPT ![read_ptr] = "free"]
  /\ rpc' = "wait"
  /\ UNCHANGED <<messages, killed, wpc, slot, readerVars, writerVars>>

GetTimeout ==
  /\ rpc = "wait" /\ rpc' = "woken"
  /\ UNCHANGED <<messages, mutex, killed, wpc, slot, readerVars, writerVars>>

\* The wait returns with the mutex; Get releases it and returns 0 even if a
\* message is there: the caller's loop comes back for it.
GetWoken ==
  /\ rpc = "woken" /\ mutex[read_ptr] = "free"
  /\ mutex' = [mutex EXCEPT ![read_ptr] = "reader"]
  /\ rpc' = "unlock"
  /\ UNCHANGED <<messages, killed, wpc, slot, readerVars, writerVars>>

GetPop ==
  /\ rpc = "pop"
  /\ data' = Head(messages[read_ptr])
  /\ messages' = [messages EXCEPT ![read_ptr] = Tail(@)]
  /\ rpc' = "advance"
  /\ UNCHANGED <<mutex, killed, wpc, slot, read_ptr, num_reads, rheld, writerVars>>

\* Variant: the pointer stays until its sub-queue is drained.
GetAdvance_Drains ==
  /\ rpc = "advance"
  /\ read_ptr' = IF messages[read_ptr] = << >> THEN Advance(read_ptr) ELSE read_ptr
  /\ num_reads' = num_reads + 1
  /\ rpc' = "unlock"
  /\ UNCHANGED <<messages, mutex, killed, wpc, slot, data, rheld, writerVars>>

GetAdvance ==
  /\ rpc = "advance"
  /\ read_ptr' = Advance(read_ptr)
  /\ num_reads' = num_reads + 1
  /\ rpc' = "unlock"
  /\ UNCHANGED <<messages, mutex, killed, wpc, slot, data, rheld, writerVars>>

GetUnlock ==
  /\ rpc = "unlock"
  /\ mutex' = [mutex EXCEPT ![rheld] = "free"]
  /\ rpc' = "idle"
  /\ UNCHANGED <<messages, killed, wpc, slot, readerVars, writerVars>>

-----------------------------------------------------------------------------
(* The main thread: Put, WakeUp (alone, or after Kill has set the flag) and *)
(* Size, which takes every mutex in order.                                  *)

\* Variant: the mutex is not taken.
PutLock_Unlocked ==
  /\ wpc = "idle" /\ num_writes < MaxPuts
  /\ wheld' = write_ptr
  /\ wpc' = "push"
  /\ UNCHANGED <<messages, mutex, killed, rpc, slot, readerVars, write_ptr, num_writes,
                 need_signal>>

PutLock ==
  /\ wpc = "idle" /\ num_writes < MaxPuts
  /\ mutex[write_ptr] = "free"
  /\ mutex' = [mutex EXCEPT ![write_ptr] = "writer"]
  /\ wheld' = write_ptr
  /\ wpc' = "push"
  /\ UNCHANGED <<messages, killed, rpc, slot, readerVars, write_ptr, num_writes,
                 need_signal>>

PutPush ==
  /\ wpc = "push"
  /\ need_signal' = (messages[write_ptr] = << >>)
  /\ messages' = [messages EXCEPT ![write_ptr] = Append(@, num_writes + 1)]
  /\ wpc' = "signal"
  /\ UNCHANGED <<mutex, killed, rpc, slot, readerVars, write_ptr, num_writes, wheld>>

\* A signal of condition variable i reaches the reader only if it waits there.
Signalled(i) == IF rpc = "wait" /\ read_ptr = i THEN "woken" ELSE rpc

PutSignal ==
  /\ wpc = "signal"
  /\ rpc' = IF need_signal THEN Signalled(write_ptr) ELSE rpc
  /\ write_ptr' = Advance(write_ptr)
  /\ num_writes' = num_writes + 1
  /\ wpc' = "unlock"
  /\ UNCHANGED <<messages, mutex, killed, slot, readerVars, wheld, need_signal>>

PutUnlock ==
  /\ wpc = "unlock"
  /\ mutex' = [mutex EXCEPT ![wheld] = "free"]
  /\ wpc' = "idle"
  /\ UNCHANGED <<messages, killed, rpc, slot, readerVars, writerVars>>

\* BasicThread::Kill sets the flag and calls OnKill; OnWaitForStop wakes the
\* reader up without killing it.
StartWakeUp(kill) ==
  /\ wpc = "idle"
  /\ killed' = (killed \/ kill)
  /\ wpc' = "wake" /\ slot' = 0
  /\ UNCHANGED <<messages, mutex, rpc, readerVars, writerVars>>

WakeUp ==
  /\ wpc = "wake" /\ mutex[slot] = "free"
  /\ rpc' = Signalled(slot)
  /\ slot' = Advance(slot)
  /\ wpc' = IF slot = NumQueues - 1 THEN "idle" ELSE "wake"
  /\ UNCHANGED <<messages, mutex, killed, readerVars, writerVars>>

StartSize ==
  /\ wpc = "idle"
  /\ wpc' = "size" /\ slot' = 0
  /\ UNCHANGED <<messages, mutex, killed, rpc, readerVars, writerVars>>

SizeLock ==
  /\ wpc = "size" /\ mutex[slot] = "free"
  /\ mutex' = [mutex EXCEPT ![slot] = "writer"]
  /\ slot' = Advance(slot)
  /\ wpc' = IF slot = NumQueues - 1 THEN "count" ELSE "size"
  /\ UNCHANGED <<messages, killed, rpc, readerVars, writerVars>>

\* Size and GetStats: the sums are taken, then every mutex is released.
SizeUnlock ==
  /\ wpc = "count"
  /\ mutex' = [i \in Slots |-> IF mutex[i] = "writer" THEN "free" ELSE mutex[i]]
  /\ wpc' = "idle"
  /\ UNCHANGED <<messages, killed, rpc, slot, readerVars, writerVars>>

-----------------------------------------------------------------------------
Get == \/ GetLock \/ GetTest \/ GetWait \/ GetWoken
       \/ GetPop \/ GetAdvance \/ GetUnlock

MainStep == \/ PutPush \/ PutSignal \/ PutUnlock \/ WakeUp \/ SizeLock \/ SizeUnlock

Next == \/ Get \/ GetTimeout
        \/ PutLock \/ MainStep \/ StartSize
        \/ \E kill \in BOOLEAN : StartWakeUp(kill)

\* A thread that can go on goes on, and a mutex that is given back again and
\* again is obtained.  Neither a further call of the main thread nor a
\* time-out of the wait is assumed.
Fairness == /\ WF_vars(Get) /\ SF_vars(GetLock) /\ SF_vars(GetWoken)
            /\ WF_vars(MainStep) /\ SF_vars(SizeLock) /\ SF_vars(WakeUp)

Spec == Init /\ [][Next]_vars /\ Fairness

-----------------------------------------------------------------------------
(* Messages pushed and popped: pointer and counter follow in a second step.  *)
Pushed == num_writes + (IF wpc = "signal" THEN 1 ELSE 0)
Popped == num_reads + (IF rpc = "advance" THEN 1 ELSE 0)

TypeOK ==
  /\ messages \in [Slots -> Seq(Nat)]
  /\ mutex \in [Slots -> {"free", "reader", "writer"}]
  /\ read_ptr \in Slots /\ write_ptr \in Slots
  /\ num_reads \in Nat /\ num_writes \in Nat
  /\ killed \in BOOLEAN /\ need_signal \in BOOLEAN
  /\ data \in Nat
  /\ rpc \in {"idle", "locked", "towait", "wait", "woken", "pop", "advance",
             "unlock"}
  /\ wpc \in {"idle", "push", "signal", "unlock", "wake", "size", "count"}
  /\ rheld \in Slots /\ wheld \in Slots /\ slot \in Slots

\* Going round the sub-queues keeps the order: the striped queue implements a
\* FIFO queue (Queue.h, Get and Put).  In the mapping the abstract queue holds
\* the numbers of the messages pushed and not popped, whatever sub-queue they
\* are in, and the message taken last is the one Get really returned.
Fifo == INSTANCE FifoQueue WITH
          queue <- [k \in 1 .. Pushed - Popped |-> Popped + k],
          puts <- Pushed, last <- data

ImplementsFifo == Fifo!Init /\ [][Fifo!Next]_Fifo!vars

\* No lost wake-up: a reader that waits and has not been signalled waits on an
\* empty sub-queue, or the signal is about to come (Get's wait, Put's signal
\* "only if it was empty").
NoLostWakeUp ==
  rpc = "wait" =>
    \/ messages[read_ptr] = << >>
    \/ wpc = "signal" /\ need_signal /\ write_ptr = read_ptr

\* Ready() looks at one sub-queue only and still tells whether the whole queue
\* is empty: with none at the read pointer there is none anywhere.
ReadyIsExact ==
  rpc # "advance" /\ messages[read_ptr] = << >> =>
    \A i \in Slots : messages[i] = << >>

\* A killed reader does not sleep: once Kill's WakeUp has passed the reader's
\* sub-queue the reader is not waiting there (MsgThread::OnKill).
KilledIsAwake ==
  killed /\ rpc \in {"towait", "wait"} => wpc = "wake" /\ slot <= read_ptr

\* Every message put is read unless the reader is killed, without the help of
\* the five-second time-out.
Delivered ==
  \A n \in 1 .. MaxPuts : (num_writes >= n) ~> (num_reads >= n \/ killed)
=============================================================================
