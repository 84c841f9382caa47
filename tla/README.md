# A TLA+ verification project for deepsecurity

deepsecurity collects suspicious files and URLs and has them analysed. It is made of a network
sensor, a cloud front end, an agent on the analysis hosts, a modified Capture-HPC client, and a
copy of the Bro network monitor. This directory models the parts that carry the program's own
logic in TLA+, checks them with TLC on small instances, and proves the main properties with
TLAPS for every size of the constants.

## 1. Inventory

### killerfinder (`src/src/killerfinder`)

The sensor: a C++ process with three threads.

| Part | State | Operations | Hard behaviour |
| --- | --- | --- | --- |
| `CTcpSegBuf` | `m_start`, `m_end`, `m_used`, `m_buf` | `setStartSeq`, `insertData`, `dumpUnusedData`, `setUsedPos` | reordering, retransmission, overlap, wrap of the 32-bit sequence number, uncaught `std::out_of_range` |
| `CTcpSession` | `m_tcpState`, two segment buffers, `m_lastUpdateTime`, protocol, block flag | `updateMe`, `finishMe`, `savePayload`, `blockMe` | FINs in any order, with payload, repeated |
| `CTcpSessionPool` | `m_activeSessMap` (capture thread only), `m_closedSessList` (under `m_lock`), `m_index` | `createSession`, `postSession`, `postTimeoutSessions`, `popClosedSession` | the pointer is published before the map entry is erased; sweeps erase what they walk |
| `CPacketHandler` | none of its own | `processL2` ... `processL5` | decides which session operation a packet causes |
| `CPacketCaptureThread`, `CTxnDecodeThread`, `CMain` | `m_isRunning`, thread ids | `start`, `stop`, `join`, `threadMain` | start and stop races, busy polling, shutdown |
| `CHttpTxnDecoder` | parser, header under construction, transactions | parser callbacks, `decodeHttpActive`, `decodeHttp`, `saveToFile` | decoding while data arrives, restart after a parse error |
| `CSmtpTxnDecoder` | mails found | `decode`, `getMailDatas`, `saveToFile` | rethrown exceptions, unsigned underflow |
| `CDBManager`, `CConfig`, `CLog` | tables, settings, log file | load once, look up | none after start |

The capture thread calls the pool and the session for every packet. It hands a
session over by pushing its pointer on `m_closedSessList`. The decode thread pops,
decodes and deletes it. The real-time HTTP decoder runs inside the capture thread,
after each stored payload.

What makes it correct: a session is in one place only and is deleted once; the
capture thread never uses a session it has given away; a session is handed over only
when its connection is over or silent; the buffer is the byte stream; the parser is
fed that stream.

### cloudserver (`src/src/cloudserver`)

uWSGI workers (`sbxuwsgi.py`) accept uploads into Redis (`sbxredis.py`: a list `job`, a list
`history`, one hash per job) and a directory. `sbxcapturesender.py` takes jobs and sends them to
capture agents chosen by `policy.py`. `sbxlogserver.py` and `sbxincidentlogserver.py` receive
logs. What makes it correct: a job is sent at most once, is never dropped silently, is recorded,
and is sent with its own body. The job is published first, its file is opened later and is never
closed by a call (`sbxuwsgi.py:86`): a sender can come before any of it.

### cloudagent (`src/src/cloudagent`)

`monitordir.py` scans a directory, asks `sophos.py` about each new file, unpacks
archives (`decompress.py`) and uploads (`uploadtocloud.py`). State: the list of names
already handled, the scanner's answers, the unpacking directory. It runs beside the
processes that write files and a scanner that may be slow. It should deal with every
file and every member of an archive, only when it is complete, and upload no virus. It catches
no exception: an archive that does not unpack or an answer that does not parse ends it.

### capture-client (`src/src/capture-hpc/capture-client`)

Capture-HPC with additions: `WebService` (receives commands over HTTP, one thread per
connection, and signals them to the visitor), `Visitor` (a queue of visits),
`FileUploader` and `Server`. `TaskManager` is compiled but nothing creates one. Hard: an
unsynchronised visit queue, acknowledgements of file parts.

### netmonitor (`src/src/netmonitor/platform/src`)

The Bro network monitor, kept in the repository as source.

| Part | State | Operations | Hard behaviour |
| --- | --- | --- | --- |
| `threading/Queue.h` | `NUM_QUEUES` stripes with a mutex and a condition each, `read_ptr`, `write_ptr`, two counters | `Get`, `Put`, `Ready`, `Size`, `WakeUp` | unprotected pointers and tests, wake-ups, killing a sleeping reader |
| `threading/BasicThread`, `MsgThread`, `Manager` | flags of a thread, its two queues, list of all threads | `SendIn`, `SendOut`, `Run`, `SignalStop`, `WaitForStop`, `Process`, `Terminate` | a flag set by two threads, messages dropped while terminating, reaping a thread whose messages are not read, signals during shutdown |
| `logging/Manager`, `WriterFrontend`, `WriterBackend` | stream's writers, write buffer, `disabled`, pointers in both directions | `Write`, `SetBuf`, `Flush`, `Rotate`, `Stop`, `RemoveStream` | failing writers and postprocessors, deleted objects that are still pointed to |
| `RemoteSerializer`, `SocketComm` | peers with state, phase and requests, `in_sync`, `sync_pending`, sockets, two pipes | `Connect`, `CloseConnection`, `DoMessage`, `HandshakeDone`, `Poll`; `DoParentMessage`, `Connect`, `CloseConnection` of the child | messages of an old connection, lost connections and retries, who sends its state, everyone waiting for everyone, waiting peers that are gone, a `current_peer` that changes between header and argument |
| `input/*`, `Sessions`, `analyzer/*`, script interpreter | | | not modelled, see section 6 |

The main thread talks to each log writer through two queues; the thread manager drains
what comes back and deletes dead threads. The main process talks to the child that owns
the sockets through two pipes. What makes it correct: the queue is a FIFO queue that
loses no message and no wake-up; a file holds the records of its stream in order, all of
them after an orderly shutdown; a failure is told before the thread is deleted; shutdown
ends; two peers agree on who sends, the receiver has the state before it goes on, and
every connection gets through the synchronization, again after a loss. The last is not true of
all connections: section 3 says of which, and section 5 what happens to the others.

### Not the program's own

`src/thirdparty/redis` is vendored.

## 2. Modules

| Module | Models | State and actions |
| --- | --- | --- |
| `SegBuf` | `CTcpSegBuf` | operators on a record with the four members; `threw` stands for the exception that nothing catches |
| `Reassembly` | one direction of a connection: `updateMe`/`savePayload`, and `decodeHttpActive` behind it | `Segment(off, len)` is one packet from arrival to the end of the real-time decode; `SynAck` sets the server's start |
| `TcpSession` | `updateMe`, `finishMe`, `isAckPacket`, `isClosed` | operators on a state and a packet |
| `TcpDialog` | a session between two correct end points | `Send*` are the end points (external); `CaptureFirst`, `Capture` are `processL5` |
| `KillerFinder` | the process: main, capture and decode threads, pool, `processL5` | one action per step between two accesses to shared state; `capPc`, `decPc`, `mainPc` are the threads' positions |
| `SessionHandoff` | what the pool promises: `Open`, `Post`, `Take`, `Delete` | abstract specification that `KillerFinder` implements |
| `HttpActive` | real-time blocking: `decodeHttpActive`, the parser callbacks, `isUrlHit`, `blockMe` | `Segment(off, len)` is one packet from `savePayload` to `blockMe`; `OtherPacket` any other packet; `http_parser` is external |
| `MonitorDir` | `run_loop`, `filter_file` and what they call | one action per external program that is called; an exception ends the monitor (`pc` = "dead"); `Drop`, `Close`, `Scanner` are the other processes |
| `SbxJobQueue` | workers, Redis, upload directory, senders | one action per Redis command or file operation; `WriteFile` is the write and the answer, `EndHandler` the end of the generator, which drops the file object and so writes the rest of its buffer |
| `MsgQueue` | `threading/Queue.h` between one writer and one reader, `BasicThread::Kill` | one action per lock, test, wait, signal and pointer update; `rpc` and `wpc` are the two threads' positions |
| `FifoQueue` | what the queue promises: `Put`, `Get` | abstract specification that `MsgQueue` implements |
| `LogThreads` | `threading/Manager`, `MsgThread`, `logging/Manager`, `WriterFrontend`, `WriterBackend` | one action per call of the main thread, per message of a child and per message it sends, per message the manager handles; queues are FIFO, as `MsgQueue` shows |
| `RemoteSync` | `RemoteSerializer` and `SocketComm` of several nodes | the main process' functions are operators on its state, its actions `PollSync`, `PollHeader`, `Poll` (the parts of `Poll`), `Crash`, `Connect`, `Disconnect`; the child's are `DoParentMessage`, `Retry`, `AcceptConnection`, `Lost` |
| `RemoteSyncInv` | the invariants that the theorems about `RemoteSync` rest on | no state of its own |
| `Reassembly_proofs`, `TcpDialog_proofs`, `KillerFinder_proofs`, `MonitorDir_proofs`, `SbxJobQueue_proofs`, `MsgQueue_proofs`, `LogThreads_proofs`, `RemoteSync_proofs` | theorems | |
| `MC*` | instances for TLC | |

Definitions whose name has the form `Operation_Change` are variants: each is what a
plausible slip in that operation would amount to. They are used by no specification;
substituting one for its operation makes a named property fail, which shows that the
property watches the code.

How data are abstracted. In `Reassembly` a byte is its own offset in the stream, so
that a displaced byte can be told from the right one, and the zero that `resize` fills
in is `Hole`. In `KillerFinder` a session is its number, a connection is a
`CTcpSessionId` (which compares equal in both directions), a packet is its flags, its
direction and whether it has a payload. Payload bytes do not occur there; that storing
one may throw does (`PayloadThrows`), and so does that decoding a mail may
(`DecodeSession`). In `HttpActive` text is a sequence of atoms and each atom is sent as one
byte, so that a segment can end inside every element; a request carries, beside what is
sent, the host and path it asks for, and the properties compare with those. A byte that
has not arrived is an error for `http_parser` everywhere but in a header value, where it
is text; there the model stops, since the parser then reads a request that nobody sent.
An empty input is an error in the middle of a request. In `MonitorDir` a file is its path
and one of a few contents. A request of `SbxJobQueue` stands for its uuid, headers and body.
A message of `MsgQueue` and a record of `LogThreads` is its number, so that a lost, repeated
or exchanged one is seen. In `RemoteSync` a message is its type and the connection it was
meant for; a node's full state is one `SERIAL` message, and a connection is numbered within
its link, which the code does not know: the number is history. The run times that the two ends
compare are those of the configuration for each node and connection, since `PeerConnected` looks
at the clock each time (1768); the receiver's record has the one that came with VERSION, of
whichever connection it was. A call of `Poll` takes at most one peer out of `sync_pending`
(1503-1508) and reads what it can: `took` says that the call in progress has had its one, and
`msgstate` that it is between the header of a message and its argument. There `Poll` calls
itself (1566) and may take another peer; if it sends that peer its state, `SendAllSynchronized`
makes it `current_peer` (1021), and the argument is handled for it. A message for a peer that the
main process does not know goes through a null pointer, which is `Crash`: the main process is
gone, and its child with it. In `MonitorDir` an archive may be broken, then some of its members
are unpacked, and a line of the scanner may be `Malformed`. In `SbxJobQueue` a file that has been
written and not closed holds nothing, a part or all of the body, as the size of the buffer has it;
a handler that ends gives the file object up, and CPython then closes it.

Undefined behaviour: the join of a thread that was never created reads an
uninitialized thread id; `Join` lets it return or end the process. `m_isRunning` is an
unsynchronised flag, like the flags of `BasicThread`: reads see the last write. A call of a
deleted writer makes the main thread of `LogThreads` "undefined", and nothing is claimed of
it from there on. The unlocked read of the list's size in
`printMe` only reaches the log and is left out.

## 3. Runs

| Run | Instance | Shows |
| --- | --- | --- |
| `reassembly` | sequence space of 10, stream of 5 bytes, segments of 1 or 2 | `AnyOrderFaithful`, `InOrderFaithful`, `FeedAligned`, `FeedExact` |
| `tcp_dialog` | all packets of one connection | `CloseJustified`, `BothFinsClose` |
| `killerfinder` | 3 connections, 3 sessions, 5 packets, time 0..2 | `OnePlace`, `CaptureOwns`, `NoClosedActive`, `ClosedOrSilent`, `DecoderOutlivesCapture`, `HandoffSpec`, `PostedIsDecoded`, `Terminates` |
| `killerfinder_start_race` | 2 connections, 2 sessions, 4 packets | the decode thread ends before `start()` says that it works |
| `http_active` | 3 pairs of pipelined requests, 3 databases, segments of up to 3 of about 20 bytes | `ResetRight`, `MethodKnown` |
| `monitor_dir` | 2 paths, 8 contents with nested and broken archives, 3 writes, any or no scanner output | `VirusNotSent`, `Judged`, `EachFileHandled` |
| `job_queue` | 2 uploads, 2 names, 2 senders | `Accounted`, `SentIsRecorded`, `AnsweredIsSent`, `JobsAreTaken` |
| `msg_queue` | 3 stripes, 7 messages | `NoLostWakeUp`, `ReadyIsExact`, `KilledIsAwake`, `ImplementsFifo`, `Delivered` |
| `log_threads` | 2 writers, 2 records, 2 other calls, a buffer of 2 | `InOrder`, `FinishOnce`, `FailureIsTold`, `DanglingOnlyAfterFailure`, `AllWritten`, `WaitEnds` |
| `log_threads_terminate` | 1 writer, 1 record | a thread killed during shutdown keeps `Terminate` waiting for ever |
| `remote_sync` | 2 or 3 nodes, 1 or 2 links, at most 3 connections of a link, 24 configurations | `RolesAgree`, `HasState`, `ErrorOnlyIfUpset`, `Synchronizes`, `Restores`, `NoHalfOpen` |
| `remote_sync_mutual` | 2 nodes that connect to each other | the end of a second synchronization is taken for a handshake and waited for for ever |

The type invariants (`TypeOK`) are theorems, not properties of the runs.

Exceptions. Some properties are true only of a part of the behaviours, because the code fails
in the rest; the property then names the part.

* `RolesAgree`, `HasState`, `ErrorOnlyIfUpset` and `Restores` except connections that were mixed
  up with another (`upset`): a message of an earlier connection of the link was handled for it;
  or one of its ends was in `sync_pending` when it was disconnected, and `HandshakeDone` is called
  for that place all the same, perhaps in the middle of the next handshake; or an argument was
  handled for another peer than the one it came from (then nothing is said of any connection).
  All of these occur in `remote_sync`: the reconnecting `Collector` and `Twice` are in it, and
  without the exceptions TLC refutes the properties there. What the run shows is that nothing else
  than these breaks them.
* `Restores` also excepts peers that have to wait for another's synchronization, which is the
  case that `remote_sync_mutual` shows. `NoHalfOpen` excepts arguments handled for the wrong peer.
* `EachFileHandled` excepts a monitor that has ended, and says that only a broken archive, an
  archive inside an archive, or a missing or malformed answer of the scanner end it.
* `AnsweredIsSent` is about jobs popped after the answer. One that is popped between the answer
  and the end of the handler may be sent with a part of its body.
* `FailureIsTold`, `DanglingOnlyAfterFailure`, `VirusNotSent`, `ResetRight`: see their comments.

Bounds, and why they are enough. The sequence space of 10 with a stream of 5 starts the stream
at every number, so that the wrap falls before, inside, at the edge of and after every segment;
two-byte segments give overlaps and gaps of every kind. Three connections are needed for a sweep
that posts one session, refreshes another and leaves a third because its limit (`SweepMax` = 1,
so two per sweep; 11 in the code) is reached. Timestamps 0..2 with `Timeout` 1 and `SweepPeriod`
2 give sessions younger than, as old as and older than the timeout at a sweep. Two uploads are
needed for a collision of names and for an order; two senders for a double send. The requests of
`http_active` are in origin and absolute form, with and without a Host header, with other
headers before and after it, and are followed by another request in the same segment; `Window` =
3 lets a segment overtake or repeat its neighbours, `MaxStale` = 2 bounds the restarts that find
collected text, which otherwise grows without end. Three writes in `monitor_dir` let one path be
written twice while another archive is unpacked, or a broken or nested archive come before or
behind another file; `MaxDepth` = 3 stands for Python's limit of 1000 nested calls and is
reached by any nested archive, since it finds itself again. Three stripes and seven messages let
both pointers go round twice, with the writer a whole round ahead; the code has eight stripes,
and the theorems hold for any number. Two writers let one be removed and made again while the
old thread still runs; a buffer of two lets a record wait in it, or fill it; two other calls
give every pair of them. The configurations of `MCRemoteSync` are every choice of who wants
whose state, who is authoritative and who runs longer on one link, a loss with and without a
retry, a call of disconnect, two links in opposite directions and in a row, a node that collects
from two and loses one while it waits, for good or to be connected again (`Collector`), and one
whose peer is lost twice while it waits, so that two peers are in `sync_pending` (`Twice`); two
connections of a link let a message of the first reach the second, a third lets a peer wait
twice. The run times differ by node (`Older`) or by connection (`Growing`). `MaxSess`,
`PacketNum`, `MaxTime`, `MaxPuts`, `MaxRecords`, `MaxOps` and `MaxConns` are caps on counters;
the theorems hold for any value of those in their modules.

No run uses symmetry: the runs of interchangeable connections, uploads and senders
check liveness as well, for which it would not be sound.

Deadlock is checked in the runs of `KillerFinder`, `SbxJobQueue` and `MsgQueue`; `KillerFinder`
has a stuttering step only for a process that has ended, so that a deadlock of its threads would
be reported. `Reassembly`, `TcpDialog` and `HttpActive` may simply run out of input,
`LogThreads` ends with the process, the monitor of `MonitorDir` with an exception, and
`RemoteSync` comes to rest when all peers are synchronized; there `WaitEnds` and `Synchronizes`
say what deadlock freedom would.

Fairness. `KillerFinder` assumes weak fairness of the main thread, of the decode
thread, and of the capture thread's own work. It assumes nothing about packets or the
end of the capture: a live capture may wait for ever, and posted sessions must be
decoded all the same. The runs have finitely many packets, so that weak fairness is
enough for a thread to get the lock; under unending traffic the decode thread, which
polls without a pause, competes for `m_lock` with the capture thread and a fair mutex
would be needed. `SbxJobQueue` assumes weak fairness of a sender's loop while it is
alive (the script says it can run forever), and nothing about crashes, restarts or
uploads. `MonitorDir` assumes weak fairness of the monitor's loop, and nothing about the
writers or the scanner. `MsgQueue` assumes weak fairness of the steps inside `Get` and inside
the main thread's calls, and strong fairness of getting a mutex, which two threads contend for.
`LogThreads` assumes weak fairness of the thread manager and of each child, and nothing about
calls or signals. `RemoteSync` assumes weak fairness of each main and each child process, that
a connect that is tried again succeeds in the end, and nothing about losses or disconnects.

## 4. Proofs

Assumptions on the constants: `SeqSpaceAssumption` and `StreamAssumption` (the modulus is
at least 2, the stream is shorter than the sequence space), `ConstantsAssumption` of
`KillerFinder` (the limits are naturals, packets have the right type), `NumQueuesAssumption`
(there is a stripe), `JobAssumption` (a uuid is not one of the marks for an outcome),
`ConstantsAssumption` of `LogThreads` (the caps are naturals, the frontend's buffer holds at
least one record), `MonitorAssumption` (dropped and unpacked paths differ, contents have
the right type) and `ConstantsAssumption` of `RemoteSync` (no node connects to itself, a node
that holds its state to be authoritative asks for synchronization).

`Reassembly_proofs`

* `TypeCorrect`: `m_buf` stays a contiguous string of bounded length.
* `ReassemblyCorrect`, `FeedAlignedCorrect`, `FeedExactCorrect`: the properties are not
  inductive, because `insertData` decides by `m_end` and places by `m_start`. The
  invariant adds where the cursors stand (`m_start` is the first number of the stream,
  `m_end` is one past the last byte that has arrived, `m_used` lies between them) and
  that everything below `m_used` was fed. The arithmetic lemma `TruncExact` says that
  below the wrap nothing is truncated.
* `InOrderFaithfulCorrect`: segments that arrive in order are stored faithfully wherever the
  sequence numbers wrap. The invariant `OrderInv` says that the first n bytes have arrived and
  are in `m_buf`, that `m_end` is the number of byte n, and that the parser has been fed all or
  none of them; `SeqFacts`, `TruncOver` and `TruncUnder` are the arithmetic of a segment that
  ends before, at or after the wrap.

`TcpDialog_proofs`

* `CloseJustifiedCorrect`, `BothFinsCloseCorrect`: whatever is captured, in any order. The
  invariant `StateTells` says for each state of the session which FINs were captured since
  the last SYN, and that a closed session has both of them, a RST or a late payload.

`KillerFinder_proofs`

* `TypeCorrect` rests on `Startup` (a thread that was not started is nowhere) and
  `Posting` (the entries a post or a sweep still needs are there).
* `OnePlaceCorrect` and `CaptureOwnsCorrect`: `StepKinds` reduces the twenty-odd actions
  to the five that move a session; one lemma for each says where every session is
  afterwards; `Placed`, `ListedOnce` and `MappedOnce` follow separately.
* `ImplementsHandoff`: under the mapping that counts a session as handed over when it is
  pushed, not when it is erased, the same five steps are `Open`, `Post`, a stutter,
  `Take` and `Delete`.
* `NoClosedActiveCorrect`, `ClosedOrSilentCorrect`: strengthened by `ClosedIsPosted` (a
  closed session is in the map only while it is being posted) and `DueToPost` (what is
  being posted is closed or expired).
* `DecoderOutlivesCorrect`: an action property, from `Shutdown`, which relates the flag
  to the positions of the three threads.

`MsgQueue_proofs`, for any number of stripes and messages

* The inductive invariant `IInv` says where every message lies: message k is in stripe
  k mod `NUM_QUEUES`, counted from the pointers, in order (`LayOut`), with the corrections
  for a `Put` or `Get` that has changed the stripe but not yet its pointer; who holds which
  mutex at which step; and that a reader that sleeps has found its stripe empty under its
  mutex. `DistAdvance` and its neighbours are the arithmetic of going round.
* `TypeCorrect`, `NoLostWakeUpCorrect`, `KilledIsAwakeCorrect` and `ReadyIsExactCorrect`
  follow from it. `ReadyIsExact` needs the layout: that one empty stripe means an empty
  queue is true only because stripes are filled and emptied in turn.
* `ImplementsFifoCorrect`: every step is a `Put`, a `Get` or a stutter of `FifoQueue`, where
  a message is in the queue from the push, not from the update of the pointer.

`SbxJobQueue_proofs`, for any number of uploads, names and senders

* `TypeCorrect`.
* `AccountedCorrect`: strengthened by `Holding` (a sender that polls holds nothing, one that
  sends holds a job with a record); `Prepended` and `Popped` say what `lpush` and `lpop` do to
  positions.
* `SentIsRecordedCorrect`: strengthened by `Recorded`, the order in which history, record and
  outcome come about.
* `AnsweredIsSentCorrect`: strengthened by `Progress`, `Answered` and `OnDisk` (the file of a
  request whose name is its own is cut when it is opened, is there when the answer goes out, and
  is complete when the handler has ended); `AloneBefore` says that a name, once
  shared, stays shared.

`MonitorDir_proofs`, for any number of paths, contents and writes and any depth of archives

* `VirusNotSentCorrect`: a virus is not uploaded. The invariant `KnownInv` follows the file in
  hand through `filter_file`: it is on the disk (`PresentInv`), a line of the scanner's output
  that calls a file clean is right about what lies at its path (`LineInv`), a file that is asked about its
  signature or sent is no virus (`FilterInv`), and neither is what was sent (`TriedInv`), all of
  it for paths that have held one content only. `Stable` says what the steps that only touch
  other paths leave alone. Lines are found with the smallest index, which `Smallest` gives.
* `JudgedCorrect`: what `filter_file` has returned from was judged. It adds `StackInv`: of an
  archive that is being walked through, every member has been handled, is still in the
  caller's list or is the one in hand, so that a return finds the loop where it was left.

`LogThreads_proofs`, for any number of writers, records and calls and any buffer size

* `LifeInv` relates a writer's frontend, its thread, the flags of `MsgThread` and the messages
  under way: how often `Finished` and `Disable` can still arrive, and what the position of the
  main thread allows. `TypeCorrect`, `DanglingCorrect`, `FailureIsToldCorrect` and
  `FinishOnceCorrect` follow from it: a frontend points to a deleted writer only after a
  failure of it or of a postprocessor, a failure is told before the writer is reaped, and
  nothing is written after `DoFinish`.
* `InOrderCorrect`: the invariant `RecordInv` says that what a writer has written, followed by
  what is in its queue and then by what is in the frontend's buffer, is what the frontend has
  accepted, in order, unless the writer has failed; `FileInv` keeps a file as it is once it is
  closed.
* `AllWrittenCorrect` adds `ShutInv`, the order of flush, stop and finish at the end of the
  process.

`RemoteSync_proofs`, for any number of nodes, links and connections of a link, any choice of
who wants whose state, and any losses, retries and calls of `disconnect`; the invariants are
defined in `RemoteSyncInv`

All four theorems hold without a hypothesis about the behaviour. Their common invariant is
`None \in upset \/ SyncInv`: either an argument was handled for the wrong peer, and then nothing
is claimed, or `SyncInv` holds, the conjunction of the following.

* `SysInv` and `PollInv` (`SystemCorrect`): types, and what lies in the pipes. A request is under
  way only where the configuration says so (`PipeInv`), a main process hears `CONNECTED` before
  anything else of a peer it does not know, the number of a connection is not used before the
  connection is made (`FreshInv`), and therefore `current_peer` is never null where it is used
  and no process crashes.
* `LabelInv`: the numbers of connections on the messages and in the records are right; a record
  is never ahead of its link, the CONNECTED of a peer come in rising order with a CLOSE between
  two of them, and what was sent on a connection comes after its CONNECTED. `WaitInv`: who waits
  has been connected.
* `OrderInv`: on a connection that was not mixed up five rules of the form "after A there is no Z
  before B" hold on the way from either end to the other (`Ordered`), through the sender's pipe
  (`OutOK`), the backlog and the receiver's queue (`InOK`), and from one to the other
  (`CrossOK`): VERSION comes first; it comes once; between VERSION and PHASE_DONE there is the
  request of a side that wants the state; between the PHASE_DONE of the handshake and the one of
  the synchronization there is the state; the state comes once, and only from the side that is
  to send it (`Sends`, the mirror of the other side's `Gets`, by `MateGets`). Each end decides
  from what it has received, so the third rule is what `RolesAgree` needs, and the fourth what
  `HasState` does.
* `CleanInv`: a peer whose connection was not mixed up has the record that belongs to its phase,
  with the run times that both ends took for this connection (`PeerOK`), is in no error, has the
  state only if it is to get it and runs only when it has it; who waits in `sync_pending` is
  through with the handshake, and a peer that is to send waits at most once, since otherwise its
  turn could come twice and the state be sent twice.

The first lemmas are about rules and queues only. `NextSteps` reduces the steps of the system to
`MainMove` (one record changes, messages are sent for it) and `ChildGood`. What a main process may
do with one record is a short list of kinds (`Kinds`, shown by `DoesKinds`), and each of them is
shown to keep the rules on the way out (`KindsFollow`) and on the way in (`KindsWarm`). TLC
checked the parts, with two and three nodes, before they were proved. `RolesAgreeCorrect`,
`HasStateCorrect` and `ErrorOnlyIfUpsetCorrect` follow from `CleanInv`.

Only model-checked: `ResetRight` and `MethodKnown` of `HttpActive`, whose parser is a fold over
the bytes of a segment, so that a proof would be an induction over data; and everything about
liveness, which is out of the prover's reach. Every other invariant and every action property
that a passing run checks is the statement of a theorem.

## 5. Disagreements between the code and what it says

Each of the first three has a run that shows it.

1. `CTxnDecodeThread.cpp:34-41` logs "decoder thread works now" although the thread may
   already have ended, since it tests a flag that is set after its creation
   (`killerfinder_start_race`).
2. `threading/Manager.h:39-41` says that `Terminate` waits for the threads and returns. A
   thread that is killed meanwhile, by its own failure or by a signal, does not send the
   `Finished` that `OnWaitForStop` waits for (`log_threads_terminate`).
3. `RemoteSerializer.cc:139-143` says that the state synchronization "ends when peer sends
   another PHASE_DONE". A peer that waits in `sync_pending` takes that message for the
   handshake's (`remote_sync_mutual`).

Others were met while modelling and are not checked by a run of their own:

* `CTcpSession.cpp:158,165` log "should never be here" for a payload from a side that has
  finished; a retransmission reaches it and closes the session (`late` in `TcpDialog`).
* `sbxcapturesender.py:124` says "there is nothing in the job queue" when it has just taken a
  job whose record is not stored yet, and the job is lost (the outcome "no record" of
  `SbxJobQueue`).
* `CHttpTxnDecoder.cpp:358` says that in real-time decoding the URL may be in different
  packets. After a parse error, for which a repeated segment is enough, the parser starts
  again but the collected URL and Host are kept, and a listed request is not reset.
* `sophos.py:7` says "return 1 if virus, else 0"; a third value, for a scanner that has not
  answered yet, is treated as a virus by `monitordir.py:55`.
* `monitordir.py:14` says that each file of an archive is treated like any other file; a
  nested archive makes `filter_file` call itself without end. So does anything that raises end
  the monitor: a broken or encrypted archive (`decompress.py:21,26`), a missing `/tmp/sophos_out`
  (`sophos.py:20`) and a line of it that does not parse (`sophos.py:25`). The run `monitor_dir`
  has all of these.
* `sbxuwsgi.py:86` is `f.close`, without a call: the answer of line 87 goes out while the end of
  the body is in the buffer of `f`, and a sender that takes the job then sends a file that is cut
  short (`Incomplete` in `AnsweredIsSent`).
* `threading/Manager.cc:128-155`: a thread that is reaped may have messages in its output
  queue; a `RotationFinished` among them is lost, and the postprocessor that according to
  `WriterBackend.h:212-214` "can now run" does not.
* `threading/Manager.cc:142`: a failing postprocessor stops the backend and does not disable
  the frontend, which then points to a deleted object. `logging/Manager.cc:400` deletes a
  frontend while messages that name it are in the queue. `LogThreads` follows both into
  "undefined".
* `logging/Manager.cc:917`: the `error` that is tested is never set. `WriterBackend.cc:87`:
  the loop `while ( size )` does not count down.
* `RemoteSerializer.cc:141` says that the peer with the smallest runtime sends; in the code
  the one that runs longest does, as the comment in `HandshakeDone` says.
* `RemoteSerializer.h:434` says "If we get disconnected, reconnect after this many seconds",
  but main process and child address a peer by its number alone: what the main
  process sent before it knew of a reconnection goes to the new connection, which then is
  refused and not tried again. A close during the wait for a retry is ignored.
* `RemoteSerializer.cc:1502` says "See if there's any peer waiting for initial state
  synchronization." A peer that disconnects stays in `sync_pending` (1505). When it has connected
  again and its turn comes, `Poll` calls `HandshakeDone` in the middle of the new handshake, when
  the request of the other side may not have come. Both ends may then wait for the other's state,
  or a peer runs without it: node 1 connects to 2 and 2 to 3, node 2 wants the state of both
  others, and the connection of 2 and 3 is lost and made again (`Collector`); the PHASE_DONE of
  the handshake is taken for the end of the synchronization, and the real one is refused.
* `RemoteSerializer.cc:1524,1566,1021`: if two peers wait, the call of `Poll` inside `Poll` may send
  the second its state and leave it as `current_peer`; the argument that was about to be read is
  handled for it (`Twice`). If it is the argument of CONNECTED, the peer that has reconnected is
  not told, and the next message for it finds a null pointer or a closed peer.
* A ring of requests waits for itself. `ProcessPeerCompress` (3982) sets the flag of `parent_peer`.

Hazards that no property covers: a session posted between the decode thread's last empty
pop and its test of the flag is never decoded (`CTxnDecodeThread.cpp:60`); sweeps need a pure
ACK in the right second (`CPacketHandler.cpp:69`); positions in a mail are subtracted without
a check (`CSmtpTxnDecoder.cpp:164`); `npos` + 3 for a URL without a scheme
(`CHttpTxnDecoder.cpp:149`); `sbxlogserver.py:107` copies the log before it closes it;
`monitordir.py:97` asks whether a file is in use before it asks anything else, so that a file
that is always open is never judged.

## 6. Not modelled

Header parsing of layers 2 to 4 (no state), the HTTP parser and MIME library
(vendored), logging and configuration, the kernel monitors of Capture-HPC, Redis.
`HttpActive` leaves out requests with a body, CONNECT, and what the parser does after a
missing byte was taken for the text of a header. `removeSession` is called by nothing.

Of netmonitor: the script interpreter and the protocol analyzers, which are most of its code,
are sequential and have no protocol between parts that a model checker would explore; the
input framework and Bro's own TCP reassembly are in the plan. `LogThreads` has one stream with
one filter and one path; remote log writers and the output formats are left out. `RemoteSync`
leaves out events, logs, prints, pings, capabilities, compression, pseudo-realtime and the
serialization of the state.

## 7. Plan

Done: the sensor (`Reassembly`, `TcpDialog`, `KillerFinder`, `HttpActive`), the cloud
(`SbxJobQueue`), the agent (`MonitorDir`), and of netmonitor the queues, the log threads and
the remote synchronization, with all their invariants proved that the prover can reach. Next:

1. `InputThreads`: readers beside the thread manager of `LogThreads`.
2. `Visitor` with `WebService` (the visit queue is shared without a lock) and `FileUploader`
   with `Server` (parts and acknowledgements; `sendFilePart` takes a size where it is given
   an end).
3. `LogReceiver`, `Policy`, `SmtpMails` and `SaveFiles` as small modules against reference
   definitions.
4. Bro's TCP reassembly, beside `SegBuf`.
