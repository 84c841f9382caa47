------------------------------ MODULE RemoteSync ------------------------------
(***************************************************************************)
(* netmonitor/platform/src/RemoteSerializer.cc: how Bro processes connect  *)
(* to each other, agree on who sends its state and synchronize.  A node is *)
(* a main process (class RemoteSerializer) and a child that owns its       *)
(* sockets (class SocketComm), joined by a pipe in each direction.         *)
(*                                                                         *)
(* A link <<o, r>> says that o connects to r, again and again if the       *)
(* configuration has a retry interval; its connections are numbered.  The  *)
(* peer object of o is the same for all of them, <<l, 0>>; r has one for   *)
(* each, <<l, k>>.  What the network delays is left to the pipes: a child  *)
(* hands a message to the pipe of the other node, or to the backlog of a   *)
(* connection that has not been accepted yet.  SERIAL stands for the full  *)
(* state, which is sent in one go; CAPS, events and pings are left out.    *)
(***************************************************************************)
EXTENDS Naturals, Sequences, FiniteSets

CONSTANTS Nodes,
          Configs,     \* the configurations that are looked at
          MaxConns     \* bound on the connections of a link

\* A configuration: which node connects to which, which wants whose state and
\* holds its own to be authoritative, how long a node has been running when it is
\* told of a connection (it looks at the clock each time), whether there is a
\* retry interval, which links may be lost, and when (late: only while an end is in
\* sync_pending), and bounds on the connections of a link, on those lost and on the
\* calls of disconnect.
ConfigType(c) ==
  /\ c.links \subseteq Nodes \X Nodes
  /\ \A l \in c.links : l[1] # l[2]
  /\ c.want \subseteq Nodes \X Nodes /\ c.auth \subseteq c.want
  /\ c.runtime \in [Nodes -> [(Nodes \X Nodes) \X (0 .. MaxConns) -> Nat]]
  /\ c.lossy \subseteq c.links /\ c.late \in BOOLEAN
  /\ c.retry \in BOOLEAN /\ c.conns \in 0 .. MaxConns /\ c.losses \in Nat /\ c.closes \in Nat

ASSUME ConstantsAssumption == MaxConns \in Nat /\ \A c \in Configs : ConfigType(c)

VARIABLES cf,      \* the configuration
          main,    \* the main processes
          poll,    \* where Poll is in reading a message
          inq,     \* the pipes from a child to its main process
          link,    \* what the child of the connecting side keeps for a link
          acc,     \* the accepted connections that are still open
          backlog, \* the connections not yet accepted, with what was sent on them
          upset,   \* history: the connections that Poll has mixed up with others, or None
          losses, closes  \* used up of cf.losses and cf.closes

vars == <<cf, main, poll, inq, link, acc, backlog, upset, losses, closes>>

Links == UNION {c.links : c \in Configs}
Ids == Links \X (0 .. MaxConns)
Owner(p) == IF p[2] = 0 THEN p[1][1] ELSE p[1][2]
Other(p) == IF p[2] = 0 THEN p[1][2] ELSE p[1][1]
None == <<>>

\* conn, got and error are history: the connection that CONNECTED reported,
\* whether the state has come, whether the protocol was violated.
NewPeer == [state |-> "INIT", phase |-> "UNKNOWN", sync_requested |-> {},
            handshake_done |-> {}, our_runtime |-> 0, runtime |-> 0, send_state |-> FALSE,
            suspended |-> FALSE, conn |-> 0, got |-> FALSE, error |-> FALSE]

Init ==
  /\ cf \in Configs
  /\ main = [n \in Nodes |-> [peer |-> [p \in {} |-> NewPeer], in_sync |-> None,
                              sync_pending |-> << >>, out |-> << >>]]
  /\ poll = [n \in Nodes |-> [msgstate |-> "TYPE", current_peer |-> None, took |-> FALSE]]
  /\ inq = [n \in Nodes |-> << >>]
  /\ link = [l \in Links |-> [entry |-> "none", conn |-> 0]]
  /\ acc = {} /\ backlog = [c \in {} |-> << >>] /\ upset = {}
  /\ losses = 0 /\ closes = 0

-----------------------------------------------------------------------------
(* The main process.  Each operator maps the state s of the process to the   *)
(* state after the function; s.out is the pipe to the child.                 *)

SendToChild(s, p, type) ==
  [s EXCEPT !.out = Append(@, [id |-> p, type |-> type, conn |-> s.peer[p].conn])]

AddPeer(s, p) == [s EXCEPT !.peer = [q \in DOMAIN @ \cup {p} |->
                                      IF q = p THEN NewPeer ELSE @[q]]]

CloseConnection(s, p) ==
  LET s1 == [s EXCEPT !.peer[p].suspended = FALSE]
  IN IF s.peer[p].state = "CLOSING" THEN s1
     ELSE SendToChild([s1 EXCEPT !.peer[p].state = "CLOSING"], p, "CLOSE")

Refuse(s, p) == CloseConnection([s EXCEPT !.peer[p].error = TRUE], p)

LeaveSync(s, p) == IF s.in_sync = p THEN [s EXCEPT !.in_sync = None] ELSE s

\* Variant: the peer stays the one that is being synchronized.
EnterPhaseRunning_KeepsSync(s, p) == [s EXCEPT !.peer[p].phase = "RUNNING"]

EnterPhaseRunning(s, p) == [LeaveSync(s, p) EXCEPT !.peer[p].phase = "RUNNING"]

\* Variant: both sides send if they have been running equally long.
SendState_Ties(peer, p) ==
  LET asked == peer.sync_requested
  IN IF ~ ({"WE", "PEER"} \subseteq asked) THEN "PEER" \in asked
     ELSE IF "AUTH_WE" \in asked THEN TRUE
     ELSE IF "AUTH_PEER" \in asked THEN FALSE
     ELSE peer.our_runtime >= peer.runtime

\* Who sends: the peer of the only side that asked, else the authoritative
\* side, else the side that was running longest when the two connected.
SendState(peer, p) ==
  LET asked == peer.sync_requested
  IN IF ~ ({"WE", "PEER"} \subseteq asked) THEN "PEER" \in asked
     ELSE IF "AUTH_WE" \in asked THEN TRUE
     ELSE IF "AUTH_PEER" \in asked THEN FALSE
     ELSE IF peer.our_runtime = peer.runtime THEN p[2] = 0
     ELSE peer.our_runtime > peer.runtime

\* Variant: the end of the phase is sent first.
SendAllSynchronized_DoneFirst(s, p) ==
  EnterPhaseRunning(SendToChild(SendToChild(s, p, "PHASE_DONE"), p, "SERIAL"), p)

SendAllSynchronized(s, p) ==
  EnterPhaseRunning(SendToChild(SendToChild(s, p, "SERIAL"), p, "PHASE_DONE"), p)

HandshakeDone(s, p) ==
  LET peer == s.peer[p]
      send == SendState(peer, p)
      sync == [s EXCEPT !.in_sync = p,
                        !.peer[p].phase = "SYNC", !.peer[p].send_state = send]
  IN IF peer.sync_requested = {} THEN EnterPhaseRunning(s, p)
     ELSE IF s.in_sync # None THEN [s EXCEPT !.sync_pending = Append(@, p)]
     ELSE IF {"AUTH_WE", "AUTH_PEER"} \subseteq peer.sync_requested
       THEN CloseConnection(s, p)
     ELSE IF send THEN SendAllSynchronized(sync, p)
     ELSE [sync EXCEPT !.peer[p].suspended = TRUE]

PeerDisconnected(s, p) ==
  LET s1 == [s EXCEPT !.peer[p].suspended = FALSE]
  IN CASE s.peer[p].state \in {"CLOSED", "INIT"} -> s1
       [] s.peer[p].state = "PENDING" -> [s1 EXCEPT !.peer[p].state = "CLOSED"]
       [] OTHER -> [LeaveSync(s1, p) EXCEPT !.peer[p].state = "CLOSED",
                                            !.peer[p].phase = "UNKNOWN"]

\* What the other side calls its run time in the VERSION of connection k.
RunTime(n, l, k) == cf.runtime[n][<<l, k>>]

PeerConnected(s, p, k) ==
  IF s.peer[p].state = "CONNECTED" THEN s
  ELSE SendToChild([s EXCEPT !.peer[p] =
                      [@ EXCEPT !.state = "CONNECTED", !.phase = "SETUP",
                                !.sync_requested = {}, !.handshake_done = {},
                                !.our_runtime = RunTime(Owner(p), p[1], k), !.conn = k, !.got = FALSE, !.error = FALSE]],
                   p, "VERSION")

\* RequestSync and CompleteHandshake, which communication/main.bro calls in its
\* handler of remote_connection_established.
RequestSync(s, p) ==
  LET n == Owner(p)
      auth == <<n, Other(p)>> \in cf.auth
      s1 == SendToChild(s, p, IF auth THEN "REQUEST_SYNC_AUTH" ELSE "REQUEST_SYNC")
  IN IF <<n, Other(p)>> \notin cf.want THEN s
     ELSE [s1 EXCEPT !.peer[p].sync_requested =
                       @ \cup {"WE"} \cup (IF auth THEN {"AUTH_WE"} ELSE {})]

HandshakeIfBoth(s, p) ==
  IF s.peer[p].handshake_done = {"WE", "PEER"} THEN HandshakeDone(s, p) ELSE s

CompleteHandshake(s, p) ==
  HandshakeIfBoth(SendToChild([s EXCEPT !.peer[p].handshake_done = @ \cup {"WE"}],
                              p, "PHASE_DONE"), p)

\* Message m carries the run time of its sender, which is the other side of m.id.
ProcessVersionMsg(s, p, m) ==
  LET s1 == [s EXCEPT !.peer[p].runtime = RunTime(Other(m.id), m.id[1], m.conn),
                      !.peer[p].phase = "HANDSHAKE"]
  IN CompleteHandshake(RequestSync(s1, p), p)

\* Variant: the end of the synchronization is confirmed.
ProcessPhaseDone_Answers(s, p) ==
  CASE s.peer[p].phase = "HANDSHAKE" ->
         HandshakeIfBoth([s EXCEPT !.peer[p].handshake_done = @ \cup {"PEER"}], p)
    [] s.peer[p].phase = "SYNC" /\ ~ s.peer[p].send_state ->
         SendToChild([EnterPhaseRunning(s, p) EXCEPT !.peer[p].suspended = FALSE],
                     p, "PHASE_DONE")
    [] OTHER -> Refuse(s, p)

ProcessPhaseDone(s, p) ==
  CASE s.peer[p].phase = "HANDSHAKE" ->
         HandshakeIfBoth([s EXCEPT !.peer[p].handshake_done = @ \cup {"PEER"}], p)
    [] s.peer[p].phase = "SYNC" /\ ~ s.peer[p].send_state ->
         [EnterPhaseRunning(s, p) EXCEPT !.peer[p].suspended = FALSE]
    [] OTHER -> Refuse(s, p)

PeerMsgs == {"VERSION", "REQUEST_SYNC", "REQUEST_SYNC_AUTH", "PHASE_DONE", "SERIAL"}

ProcessConnected(s, p, k) ==
  PeerConnected(IF p \in DOMAIN s.peer THEN s ELSE AddPeer(s, p), p, k)

\* Message m, with p for current_peer.
DoMessage(s, m, p) ==
  LET peer == IF p \in DOMAIN s.peer THEN s.peer[p] ELSE NewPeer
  IN CASE peer.state \in {"CLOSING", "CLOSED"} /\ m.type \in PeerMsgs -> s
       [] peer.state \notin {"CLOSING", "CLOSED"} /\ peer.phase = "SETUP"
            /\ m.type \in PeerMsgs \ {"VERSION"} -> Refuse(s, p)
       [] OTHER ->
            CASE m.type = "CLOSE" -> PeerDisconnected(s, p)
              [] m.type = "CONNECTED" -> ProcessConnected(s, p, m.conn)
              [] m.type = "VERSION" -> ProcessVersionMsg(s, p, m)
              [] m.type = "REQUEST_SYNC" ->
                   [s EXCEPT !.peer[p].sync_requested = @ \cup {"PEER"}]
              [] m.type = "REQUEST_SYNC_AUTH" ->
                   [s EXCEPT !.peer[p].sync_requested = @ \cup {"PEER", "AUTH_PEER"}]
              [] m.type = "SERIAL" ->
                   [s EXCEPT !.peer[p].got = @ \/ "WE" \in peer.sync_requested]
              [] m.type = "PHASE_DONE" -> ProcessPhaseDone(s, p)

Main(n, s) == main' = [main EXCEPT ![n] = s]
Alive(n) == poll[n].msgstate # "dead"

\* Between two calls of Poll.
NextCall(n) == Alive(n) /\ poll' = [poll EXCEPT ![n].took = FALSE]

Connect(l) ==
  LET p == <<l, 0>>
      s == SendToChild(AddPeer(main[l[1]], p), p, "CONNECT_TO")
  IN /\ l \in cf.links /\ p \notin DOMAIN main[l[1]].peer
     /\ NextCall(l[1]) /\ Main(l[1], [s EXCEPT !.peer[p].state = "PENDING"])
     /\ UNCHANGED <<cf, inq, link, acc, backlog, upset, losses, closes>>

\* disconnect(), at any time.
Disconnect(p) ==
  /\ closes < cf.closes
  /\ p \in DOMAIN main[Owner(p)].peer /\ main[Owner(p)].peer[p].state = "CONNECTED"
  /\ NextCall(Owner(p)) /\ Main(Owner(p), CloseConnection(main[Owner(p)], p))
  /\ closes' = closes + 1
  /\ UNCHANGED <<cf, inq, link, acc, backlog, upset, losses>>

-----------------------------------------------------------------------------
(* Poll.  A call takes one peer out of sync_pending, if there is one and no  *)
(* synchronization is in progress, and then reads what it can: a header, or, *)
(* in state ARGS, the argument of the last one.  After the header of a       *)
(* message with an argument Poll calls itself, and the inner call may take   *)
(* another peer; if it sends that peer its state, the peer is current_peer   *)
(* from then on, and the argument is handled as if it came from it.  The     *)
(* state ARGS is left out where no peer is taken in it.                      *)

InPending(s, p) == \E i \in 1 .. Len(s.sync_pending) : s.sync_pending[i] = p
ToSync(s) == s.sync_pending # << >> /\ s.in_sync = None

\* HandshakeDone calls SendAllSynchronized.
StartsSending(s, p) ==
  /\ s.in_sync = None /\ s.peer[p].sync_requested # {}
  /\ ~ ({"AUTH_WE", "AUTH_PEER"} \subseteq s.peer[p].sync_requested)
  /\ SendState(s.peer[p], p)

\* The first peer is taken; the message being read, if any, is for peer cur.  It is
\* noted if the peer has been disconnected in the meantime: PeerDisconnected does not
\* take it out of the list.
TakePending(n, msgstate, cur) ==
  LET p == Head(main[n].sync_pending)
      s == [main[n] EXCEPT !.sync_pending = Tail(@)]
      t == HandshakeDone(s, p)
      current_peer == IF msgstate = "ARGS" /\ StartsSending(s, p) THEN p ELSE cur
  IN /\ ToSync(main[n])
     /\ Main(n, t)
     /\ poll' = [poll EXCEPT ![n] = [msgstate |-> msgstate, current_peer |-> current_peer,
                                     took |-> ToSync(t)]]
     /\ upset' = IF s.peer[p].state = "CONNECTED" THEN upset
                 ELSE upset \cup {<<p[1], s.peer[p].conn>>}
     /\ UNCHANGED <<cf, inq, link, acc, backlog, losses, closes>>

\* A call that takes a peer, before or without reading anything.
PollSync(n) == Alive(n) /\ TakePending(n, poll[n].msgstate, poll[n].current_peer)

NoArgs == {"CLOSE", "PHASE_DONE"}

\* The call goes on, reads the header of a message and calls itself.
PollHeader(n) ==
  LET m == Head(inq[n])
  IN /\ poll[n].msgstate = "TYPE" /\ poll[n].took
     /\ inq[n] # << >> /\ m.type \notin NoArgs
     /\ TakePending(n, "ARGS", IF m.id \in DOMAIN main[n].peer THEN m.id ELSE None)

\* The call goes on and handles the message, for peer Current(n).
PollReads(n) ==
  /\ Alive(n) /\ inq[n] # << >>
  /\ ToSync(main[n]) => /\ poll[n].took
                        /\ poll[n].msgstate = "ARGS" \/ Head(inq[n]).type \in NoArgs
Current(n) == IF poll[n].current_peer # None THEN poll[n].current_peer ELSE Head(inq[n]).id

\* The message is for nobody that the main process knows of.
Fatal(n) == Current(n) \notin DOMAIN main[n].peer /\ Head(inq[n]).type # "CONNECTED"

\* What the message mixes up: it is handled for another peer, and then nothing can be
\* said of any connection (None); it was sent to an earlier connection of the link; or its
\* peer is connected again and still in sync_pending from the last time.
MixedUp(n, m) ==
  LET p == Current(n)
      known == p \in DOMAIN main[n].peer
      peer == main[n].peer[p]
  IN CASE p # m.id -> {None}
       [] p = m.id /\ m.type \in PeerMsgs /\ m.conn # peer.conn -> {<<p[1], peer.conn>>}
       [] p = m.id /\ m.type = "CONNECTED" /\ known /\ peer.state # "CONNECTED"
            /\ InPending(main[n], p) -> {<<p[1], m.conn>>}
       [] OTHER -> {}

Poll(n) ==
  /\ PollReads(n) /\ ~ Fatal(n)
  /\ LET m == Head(inq[n])
     IN Main(n, DoMessage(main[n], m, Current(n))) /\ upset' = upset \cup MixedUp(n, m)
  /\ poll' = [poll EXCEPT ![n] = [msgstate |-> "TYPE", current_peer |-> None, took |-> FALSE]]
  /\ inq' = [inq EXCEPT ![n] = Tail(@)]
  /\ UNCHANGED <<cf, link, acc, backlog, losses, closes>>

\* The handler of the message goes through the null pointer current_peer.  The main
\* process is gone, and with it the child, which finds the pipe closed.
Crash(n) ==
  /\ PollReads(n) /\ Fatal(n)
  /\ poll' = [poll EXCEPT ![n] = [msgstate |-> "dead", current_peer |-> None, took |-> FALSE]]
  /\ Main(n, [main[n] EXCEPT !.out = << >>])
  /\ inq' = [inq EXCEPT ![n] = << >>]
  /\ link' = [l \in Links |-> IF l[1] = n THEN [link[l] EXCEPT !.entry = "none"] ELSE link[l]]
  /\ acc' = {p \in acc : Owner(p) # n}
  /\ backlog' = [p \in {q \in DOMAIN backlog : Owner(q) # n} |-> backlog[p]]
  /\ UNCHANGED <<cf, upset, losses, closes>>

-----------------------------------------------------------------------------
(* The child.                                                                *)

\* The end of a connection that peer p stands for, if it is open.
Open(p) == IF p[2] = 0 THEN link[p[1]].entry = "up" ELSE p \in acc

\* The peer at the other end.
Far(p) == IF p[2] = 0 THEN <<p[1], link[p[1]].conn>> ELSE <<p[1], 0>>

Waiting(p) == p \in DOMAIN backlog

\* Whether the far end still has the connection.
Linked(p) == /\ Open(p) /\ Far(Far(p)) = p
             /\ Open(Far(p)) \/ Waiting(Far(p))

Msg(p, type, k) == [id |-> p, type |-> type, conn |-> k]

ToParent(p, type, k) == inq' = [inq EXCEPT ![Owner(p)] = Append(@, Msg(p, type, k))]

\* SocketComm::Connect.
Connected(l) ==
  LET k == link[l].conn + 1
  IN /\ k <= cf.conns /\ Alive(l[2])
     /\ link' = [link EXCEPT ![l] = [entry |-> "up", conn |-> k]]
     /\ backlog' = [c \in DOMAIN backlog \cup {<<l, k>>} |->
                      IF c = <<l, k>> THEN << >> ELSE backlog[c]]
     /\ ToParent(<<l, 0>>, "CONNECTED", k)
     /\ UNCHANGED acc

\* Variant: the entry is deleted whether or not there is a retry interval.
Close_Deletes(p, reconnect) ==
  /\ ToParent(p, "CLOSE", 0)
  /\ IF p[2] = 0
       THEN link' = [link EXCEPT ![p[1]].entry = "none"] /\ UNCHANGED acc
       ELSE acc' = acc \ {p} /\ UNCHANGED link

\* SocketComm::CloseConnection.
Close(p, reconnect) ==
  /\ ToParent(p, "CLOSE", 0)
  /\ IF p[2] = 0
       THEN /\ link' = [link EXCEPT ![p[1]].entry =
                          IF cf.retry /\ reconnect THEN "wait" ELSE "none"]
            /\ UNCHANGED acc
       ELSE acc' = acc \ {p} /\ UNCHANGED link

\* Variant: the main process is told, the socket stays open.
CloseMsg_KeepsSocket(p) ==
  (IF Open(p) THEN ToParent(p, "CLOSE", 0) ELSE UNCHANGED inq) /\ UNCHANGED <<link, acc>>

CloseMsg(p) == IF Open(p) THEN Close(p, FALSE) ELSE UNCHANGED <<inq, link, acc>>

\* What is for a peer that is not connected is dropped.
Forward(m) ==
  /\ CASE Linked(m.id) /\ Waiting(Far(m.id)) ->
            /\ backlog' = [backlog EXCEPT ![Far(m.id)] = Append(@, Msg(Far(m.id), m.type, m.conn))]
            /\ UNCHANGED inq
       [] Linked(m.id) /\ ~ Waiting(Far(m.id)) ->
            ToParent(Far(m.id), m.type, m.conn) /\ UNCHANGED backlog
       [] OTHER -> UNCHANGED <<inq, backlog>>
  /\ UNCHANGED <<link, acc>>

\* DoParentMessage for the first message in the pipe.
DoParentMessage(n) ==
  /\ main[n].out # << >>
  /\ LET m == Head(main[n].out)
     IN CASE m.type = "CONNECT_TO" ->
               \/ Connected(m.id[1])
               \/ /\ UNCHANGED backlog
                  /\ IF cf.retry
                     THEN link' = [link EXCEPT ![m.id[1]].entry = "wait"] /\ UNCHANGED <<inq, acc>>
                     ELSE Close(m.id, FALSE)
          [] m.type = "CLOSE" -> CloseMsg(m.id) /\ UNCHANGED backlog
          [] OTHER -> Forward(m)
  /\ Main(n, [main[n] EXCEPT !.out = Tail(@)])
  /\ UNCHANGED <<cf, poll, upset, losses, closes>>

\* SocketComm::Run: the time of the next attempt has come.
Retry(l) ==
  /\ link[l].entry = "wait" /\ Connected(l)
  /\ UNCHANGED <<cf, main, poll, upset, losses, closes>>

AcceptConnection(p) ==
  /\ Waiting(p)
  /\ acc' = acc \cup {p}
  /\ inq' = [inq EXCEPT ![Owner(p)] = Append(@, Msg(p, "CONNECTED", p[2])) \o backlog[p]]
  /\ backlog' = [c \in DOMAIN backlog \ {p} |-> backlog[c]]
  /\ UNCHANGED <<cf, main, poll, link, upset, losses, closes>>

\* An end finds that the other has closed the connection, or that the
\* connection is lost; a full pipe to the main process is such a case.
MayBeLost(p) ==
  /\ losses < cf.losses /\ p[1] \in cf.lossy
  /\ cf.late => InPending(main[Owner(p)], p) \/ InPending(main[Owner(Far(p))], Far(p))
Lost(p) ==
  /\ Open(p) /\ (Linked(p) => MayBeLost(p))
  /\ Close(p, TRUE)
  /\ losses' = IF Linked(p) THEN losses + 1 ELSE losses
  /\ UNCHANGED <<cf, main, poll, backlog, upset, closes>>

-----------------------------------------------------------------------------
MainStep(n) ==
  PollSync(n) \/ PollHeader(n) \/ Poll(n) \/ Crash(n) \/ \E l \in Links : l[1] = n /\ Connect(l)

\* SocketComm::Run.
ChildStep(n) ==
  \/ DoParentMessage(n)
  \/ \E l \in Links : l[1] = n /\ Retry(l)
  \/ \E p \in Ids : Owner(p) = n /\ (AcceptConnection(p) \/ (~ Linked(p) /\ Lost(p)))

Next == \/ \E n \in Nodes : MainStep(n) \/ ChildStep(n)
        \/ \E p \in Ids : Disconnect(p) \/ (Linked(p) /\ Lost(p))

\* Both processes of a node run in a loop; no loss and no call of disconnect is
\* assumed.  An attempt to connect succeeds in the end.
Spec == /\ Init /\ [][Next]_vars
        /\ \A n \in Nodes : WF_vars(MainStep(n)) /\ WF_vars(ChildStep(n))

-----------------------------------------------------------------------------
Peers == UNION {DOMAIN main[n].peer : n \in Nodes}
Peer(p) == main[Owner(p)].peer[p]
IsConnected(p) == p \in Peers /\ Peer(p).state = "CONNECTED" /\ Alive(Owner(p))

\* The two ends of one connection, both through with the handshake.
Ends(a, b) == /\ a[2] = 0 /\ b = <<a[1], Peer(a).conn>>
              /\ \A p \in {a, b} : /\ Peer(p).state = "CONNECTED"
                                   /\ Peer(p).phase \in {"SYNC", "RUNNING"}

\* The connection of p has been mixed up with another: a message of an earlier
\* connection of the link came to one of its ends, since the main process of the
\* connecting side had sent it before it knew of the new one, and SocketComm goes by
\* the peer's number alone; or one of its ends was in sync_pending when it was
\* disconnected, and HandshakeDone is called for it all the same, perhaps in the
\* middle of the handshake of the next connection; or an argument was handled for a
\* peer that it did not come from.
Upset(p) == None \in upset \/ <<p[1], Peer(p).conn>> \in upset

\* Unless the connection is mixed up, its two ends do not both wait for the other's
\* state, nor do both send theirs, nor does one go on without synchronization while
\* the other waits: each decides by itself, from what it had received by then and
\* from the run times taken for this connection (HandshakeDone).
RolesAgree ==
  \A a, b \in Peers :
    Ends(a, b) =>
      \/ Upset(a)
      \/ Peer(a).sync_requested = {} /\ Peer(b).sync_requested = {}
      \/ /\ Peer(a).sync_requested # {} /\ Peer(b).sync_requested # {}
         /\ Peer(a).send_state # Peer(b).send_state

\* A peer that is to get the other's state has it when it goes on, unless the
\* connection is mixed up (ProcessPhaseDone).  That holds for a connection that is
\* made again, too, if its peer was not in sync_pending at the time.
HasState ==
  \A p \in Peers :
    (/\ Peer(p).state = "CONNECTED" /\ Peer(p).phase = "RUNNING"
     /\ Peer(p).sync_requested # {} /\ ~ Peer(p).send_state)
    => Peer(p).got \/ Upset(p)

\* A peer finds the other in error ("peer did not send version", "unexpected
\* phase_done") only if their connection is mixed up.
ErrorOnlyIfUpset == \A p \in Peers : Peer(p).error => Upset(p)

AllRunning ==
  \A l \in cf.links : \E k \in 1 .. MaxConns :
    \A p \in {<<l, 0>>, <<l, k>>} :
      IsConnected(p) /\ Peer(p).phase = "RUNNING" /\ Peer(p).conn = k

\* The side of a link that gets the state, by the comment in HandshakeDone, on the
\* k-th connection.
Receivers(c, l, k) ==
  LET sides == {l[1], l[2]}
      wants == {n \in sides : \E m \in sides : <<n, m>> \in c.want}
      auth == {n \in sides : \E m \in sides : <<n, m>> \in c.auth}
      RunTimeOf(n) == c.runtime[n][<<l, k>>]
  IN CASE Cardinality(wants) < 2 -> wants
       [] Cardinality(wants) = 2 /\ auth # {} -> sides \ auth
       [] OTHER -> IF RunTimeOf(l[1]) < RunTimeOf(l[2]) THEN {l[1]} ELSE {l[2]}
MayReceive(c, l) == UNION {Receivers(c, l, k) : k \in 1 .. MaxConns}

\* Not both sides of a link are authoritative, no node gets the state of two
\* peers, and none waits for itself: every set of nodes has one that gets no
\* state from within the set.
InOrder(c) ==
  /\ \A l \in c.links : ~ ({l, <<l[2], l[1]>>} \subseteq c.auth)
  /\ \A l, m \in c.links : l # m => MayReceive(c, l) \cap MayReceive(c, m) = {}
  /\ \A S \in SUBSET Nodes \ {{}} :
       \E n \in S : \A l \in c.links : {l[1], l[2]} \subseteq S => n \notin MayReceive(c, l)
Orderly == {c \in Configs : InOrder(c)}

\* No connection is lost or closed, and a failing connect is tried again.
Undisturbed == cf.losses = 0 /\ cf.closes = 0 /\ cf.retry

\* Every connection gets through the handshake and the synchronization.
Synchronizes == Undisturbed /\ cf \in Orderly => <>[]AllRunning

\* A lost connection is made again and synchronizes again, unless it is mixed up
\* with another or a peer has to wait for the synchronization of another.
Restores ==
  cf.retry /\ cf.closes = 0 /\ cf \in Orderly
    => <>[]AllRunning \/ <>(upset # {} \/ \E n \in Nodes : main[n].sync_pending # << >>)

\* In the end both sides of a link agree on whether they are connected, however
\* losses, retries and calls of disconnect cross each other, unless an argument was
\* handled for the wrong peer: if that was the one of CONNECTED, the peer that
\* reconnects does not hear of it.
NoHalfOpen ==
  \/ <>(None \in upset)
  \/ <>[](\A l \in Links :
             IsConnected(<<l, 0>>) <=> \E k \in 1 .. MaxConns : IsConnected(<<l, k>>))

\* RemoteSerializer.cc: state synchronization "ends when peer sends another
\* PHASE_DONE".  Checked with two nodes that connect to each other.
SyncEnds == Undisturbed => <>[]AllRunning
=============================================================================
