--------------------------- MODULE RemoteSyncInv ---------------------------
(***************************************************************************)
(* The invariants of RemoteSync that its theorems rest on, and what a step *)
(* may do, in the terms of these invariants.                               *)
(*                                                                         *)
(* The ends of a connection are to agree on who sends its state.  Each     *)
(* decides by itself, in HandshakeDone, so each must by then have got the  *)
(* other's request, if there is one.  It has, because a node that wants    *)
(* the state sends its request between VERSION and PHASE_DONE, and because *)
(* the order holds over all of the way of a message: the pipe to the       *)
(* child, the backlog of a connection that is not accepted yet, and the    *)
(* pipe to the main process, where messages of other connections may be    *)
(* in between.  It does not hold for a connection that Poll has mixed up   *)
(* with another (upset), so all rules are about the others; and once an    *)
(* argument was handled for the wrong peer (None), nothing is said.        *)
(*                                                                         *)
(* The order is stated as a rule, "after A there is no Z before B", for    *)
(* any two queues that make up a channel (OutOK, InOK, CrossOK), and what  *)
(* a queue may do is shown to keep it.  The steps of the system are then   *)
(* reduced to two forms: MainMove, where a main process changes one record *)
(* and sends messages for it, and ChildGood, where a child moves messages  *)
(* and opens and closes connections.                                       *)
(*                                                                         *)
(* That a peer has the state when it goes on takes the same rules once     *)
(* more, for the messages of one connection at a time: VERSION is the      *)
(* first and comes once, the state comes once and from the side that is to *)
(* send it, and it is between the PHASE_DONE of the handshake and the one  *)
(* of the synchronization (Ordered).  To tell connections apart, the       *)
(* numbers on the messages must be right (LabelInv); and that the sender   *)
(* sends the state once needs that it waits in sync_pending once           *)
(* (CleanInv).  SyncInv is all of it.                                      *)
(***************************************************************************)
EXTENDS RemoteSync

-----------------------------------------------------------------------------
(* Rules for the order of messages on a channel.                           *)

\* V is Q without its first element; Q and then e; Q and then x.
Rest(V, Q) ==
    /\ Len(Q) \in Nat /\ Len(Q) >= 1 /\ Len(V) = Len(Q) - 1
    /\ \A i \in 1 .. Len(V) : V[i] = Q[i + 1]
More(V, Q, e) ==
    /\ Len(Q) \in Nat /\ Len(V) = Len(Q) + 1
    /\ \A i \in 1 .. Len(Q) : V[i] = Q[i]
    /\ V[Len(Q) + 1] = e
Joined(V, Q, x) ==
    /\ Len(Q) \in Nat /\ Len(x) \in Nat /\ Len(V) = Len(Q) + Len(x)
    /\ \A i \in 1 .. Len(Q) : V[i] = Q[i]
    /\ \A i \in 1 .. Len(x) : V[Len(Q) + i] = x[i]

\* Rules for what may follow what on a channel, that is, in the pipe O of the
\* sender and then in the queue Q of the receiver: after a message of A there is no
\* message of Z before there was one of B.  The receiver may have taken the message
\* of A (hot), and the sender may be about to send one of Z (due).  The sets are
\* R = <<A, B, Z>>, of messages as they are in Q, and T, as they are in O.
HotAt(Q, R, hot, i) == (i = 0 /\ hot) \/ (i \in 1 .. Len(Q) /\ Q[i] \in R[1])
DueAt(O, T, due, j) == (j = Len(O) + 1 /\ due) \/ (j \in 1 .. Len(O) /\ O[j] \in T[3])
OutOK(O, T, due) ==
    \A i \in 1 .. Len(O), j \in 1 .. Len(O) + 1 :
        O[i] \in T[1] /\ DueAt(O, T, due, j) /\ i < j
            => \E m \in 1 .. Len(O) : i < m /\ m < j /\ O[m] \in T[2]
InOK(Q, R, hot) ==
    \A i \in 0 .. Len(Q), j \in 1 .. Len(Q) :
        HotAt(Q, R, hot, i) /\ Q[j] \in R[3] /\ i < j
            => \E m \in 1 .. Len(Q) : i < m /\ m < j /\ Q[m] \in R[2]
CrossOK(Q, R, hot, O, T, due) ==
    \A i \in 0 .. Len(Q), j \in 1 .. Len(O) + 1 :
        HotAt(Q, R, hot, i) /\ DueAt(O, T, due, j)
            => \/ \E m \in 1 .. Len(Q) : i < m /\ Q[m] \in R[2]
               \/ \E m \in 1 .. Len(O) : m < j /\ O[m] \in T[2]

\* The sender sends x, which is in order by itself.
Led(x, T, due, due1) ==
    \A j \in 1 .. Len(x) + 1 :
        DueAt(x, T, due1, j) => due \/ \E m \in 1 .. Len(x) : m < j /\ x[m] \in T[2]

-----------------------------------------------------------------------------
(* The effect of the functions of the main process.                        *)

States == {"INIT", "PENDING", "CONNECTED", "CLOSING", "CLOSED"}
Phases == {"UNKNOWN", "SETUP", "HANDSHAKE", "SYNC", "RUNNING"}
PeerSet ==
    [state : States, phase : Phases, sync_requested : SUBSET {"WE", "PEER", "AUTH_WE", "AUTH_PEER"},
     handshake_done : SUBSET {"WE", "PEER"}, our_runtime : Nat, runtime : Nat, send_state : BOOLEAN,
     suspended : BOOLEAN, conn : 0 .. MaxConns, got : BOOLEAN, error : BOOLEAN]
MsgTypes == PeerMsgs \cup {"CONNECT_TO", "CONNECTED", "CLOSE"}
Msgs == [id : Ids, type : MsgTypes, conn : 0 .. MaxConns]

\* The state s of the main process of node n.
IsMain(n, s) ==
    /\ s = [peer |-> s.peer, in_sync |-> s.in_sync, sync_pending |-> s.sync_pending, out |-> s.out]
    /\ s.peer = [p \in DOMAIN s.peer |-> s.peer[p]]
    /\ \A p \in DOMAIN s.peer : p \in Ids /\ Owner(p) = n /\ s.peer[p] \in PeerSet
    /\ s.sync_pending \in Seq(Ids)
    /\ \A i \in 1 .. Len(s.sync_pending) : s.sync_pending[i] \in DOMAIN s.peer
    /\ s.out \in Seq(Msgs)
    /\ \A i \in 1 .. Len(s.out) : /\ s.out[i].id \in DOMAIN s.peer /\ s.out[i].type # "CONNECTED"
                                  /\ s.out[i].type = "CONNECT_TO" => s.out[i].id[2] = 0

\* The messages of p of the types ts, in their order.
Sent(p, k, ts) == [i \in 1 .. Len(ts) |-> Msg(p, ts[i], k)]

\* From s to t the record of p becomes r, the list of those who wait w, and
\* messages of the types ts are sent.
Effect(n, s, t, p, r, w, ts) ==
    /\ IsMain(n, t)
    /\ DOMAIN t.peer = DOMAIN s.peer \cup {p}
    /\ t.peer[p] = r
    /\ \A q \in DOMAIN s.peer : q # p => t.peer[q] = s.peer[q]
    /\ t.sync_pending = w
    /\ Joined(t.out, s.out, Sent(p, r.conn, ts))

\* Messages that the rule says nothing of.
Foreign(x, R) == \A i \in 1 .. Len(x) : x[i] \notin R[1] /\ x[i] \notin R[2] /\ x[i] \notin R[3]

\* A rule: after a message with a type of g.a there is none with a type of g.z before
\* one with a type of g.b, among the messages for the connections g.k.
RuleSet == [a : SUBSET PeerMsgs, b : SUBSET PeerMsgs, z : SUBSET PeerMsgs, k : SUBSET (0 .. MaxConns)]
Kind(p, types, k) == {m \in Msgs : m.id = p /\ m.type \in types /\ m.conn \in k}
Sets(g, p) == <<Kind(p, g.a, g.k), Kind(p, g.b, g.k), Kind(p, g.z, g.k)>>
Types(g) == <<g.a, g.b, g.z>>
AreTypes(ts) == Len(ts) \in Nat /\ \A i \in 1 .. Len(ts) : ts[i] \in MsgTypes

\* The run times of the two sides of connection k.
OurTime(p, k) == RunTime(Owner(p), p[1], k)
TheirTime(p, k) == RunTime(Other(p), p[1], k)

\* What the functions do to the record of the peer.
Closed(r) == [r EXCEPT !.suspended = FALSE, !.state = "CLOSING"]
CloseMsgs(r) == IF r.state = "CLOSING" THEN << >> ELSE <<"CLOSE">>

\* What HandshakeDone leaves alone, and what becomes of the record.
Keeps(r, r1) == /\ r1 \in PeerSet /\ r1.conn = r.conn
                /\ r1.our_runtime = r.our_runtime /\ r1.runtime = r.runtime
                /\ r1.sync_requested = r.sync_requested /\ r1.handshake_done = r.handshake_done
                /\ r1.got = r.got /\ r1.error = r.error
Decided(p, r, r1, ts) ==
    /\ Keeps(r, r1)
    /\ \/ /\ r.sync_requested = {} /\ r1.state = r.state /\ r1.phase = "RUNNING"
          /\ ts = << >>
       \/ r1 = r /\ ts = << >>
       \/ /\ {"AUTH_WE", "AUTH_PEER"} \subseteq r.sync_requested
          /\ r1.state = "CLOSING" /\ r1.phase = r.phase /\ ts \in {<< >>, <<"CLOSE">>}
       \/ /\ ~ ({"AUTH_WE", "AUTH_PEER"} \subseteq r.sync_requested) /\ r.sync_requested # {}
          /\ SendState(r, p) /\ r1.send_state = TRUE
          /\ r1.state = r.state /\ r1.phase = "RUNNING" /\ ts = <<"SERIAL", "PHASE_DONE">>
       \/ /\ ~ ({"AUTH_WE", "AUTH_PEER"} \subseteq r.sync_requested) /\ r.sync_requested # {}
          /\ ~ SendState(r, p) /\ r1.send_state = FALSE
          /\ r1.state = r.state /\ r1.phase = "SYNC" /\ ts = << >>

\* Either the list of those who wait stays, or another is in sync and p is put behind.
Queued(s, w, p, r1) ==
    \/ w = s.sync_pending
    \/ More(w, s.sync_pending, p) /\ s.in_sync # None /\ r1 = s.peer[p]
InSync(s, p, send) ==
    [s EXCEPT !.in_sync = p, !.peer[p].phase = "SYNC", !.peer[p].send_state = send]
Wants(p) == <<Owner(p), Other(p)>> \in cf.want
Auth(p) == <<Owner(p), Other(p)>> \in cf.auth
WePart(p) == {"WE"} \cup (IF Auth(p) THEN {"AUTH_WE"} ELSE {})
RequestType(p) == IF Auth(p) THEN "REQUEST_SYNC_AUTH" ELSE "REQUEST_SYNC"
Opening(p) == IF Wants(p) THEN <<RequestType(p), "PHASE_DONE">> ELSE <<"PHASE_DONE">>

\* HandshakeDone is called if both sides are through with the handshake.
Shaken(p, r, r1, ts) ==
    IF r.handshake_done = {"WE", "PEER"} THEN Decided(p, r, r1, ts) ELSE r1 = r /\ ts = << >>
QueuedIf(s, w, p, r, r1) ==
    \/ w = s.sync_pending
    \/ More(w, s.sync_pending, p) /\ r.handshake_done = {"WE", "PEER"} /\ r1 = r
Shook(r, side) == [r EXCEPT !.handshake_done = @ \cup {side}]
Refused(r) == Closed([r EXCEPT !.error = TRUE])
Heard(p, k, r) == [r EXCEPT !.runtime = TheirTime(p, k), !.phase = "HANDSHAKE"]
Asks(p, r) == [r EXCEPT !.sync_requested = @ \cup (IF Wants(p) THEN WePart(p) ELSE {})]
Opened(p, k, r) == Shook(Asks(p, Heard(p, k, r)), "WE")
RequestMsgs(p) == IF Wants(p) THEN <<RequestType(p)>> ELSE << >>

\* The end of a phase.
PhaseEnds(p, r, r1, ts) ==
    \/ r.phase = "HANDSHAKE" /\ Shaken(p, Shook(r, "PEER"), r1, ts)
    \/ /\ r.phase = "SYNC" /\ ~ r.send_state /\ ts = << >>
       /\ r1 = [r EXCEPT !.phase = "RUNNING", !.suspended = FALSE]
    \/ /\ r.phase # "HANDSHAKE" /\ ~ (r.phase = "SYNC" /\ ~ r.send_state)
       /\ r1 = Refused(r) /\ ts = CloseMsgs(r)

\* The peer is gone.
Gone(r, r1) ==
    /\ r1 \in PeerSet /\ r1.state \in {"CLOSED", "INIT"} /\ r1.phase \in {r.phase, "UNKNOWN"}
    /\ r1.conn = r.conn /\ r1.handshake_done = r.handshake_done /\ r1.got = r.got /\ r1.error = r.error
    /\ r1.sync_requested = r.sync_requested /\ (r1.state = "INIT" => r.state = "INIT")

\* The peer is connected, by connection k.
Fresh(p, r, k) == [r EXCEPT !.state = "CONNECTED", !.phase = "SETUP", !.sync_requested = {},
                         !.handshake_done = {}, !.our_runtime = OurTime(p, k),
                            !.conn = k, !.got = FALSE, !.error = FALSE]
Requests == {"REQUEST_SYNC", "REQUEST_SYNC_AUTH"}
Deaf(r) == r.state \in {"CLOSING", "CLOSED"}

\* What a message does to the record r of its peer, and what is sent for it.
Treated(p, m, r, r1, ts) ==
    \/ m.type \in PeerMsgs /\ Deaf(r) /\ r1 = r /\ ts = << >>
    \/ /\ m.type \in PeerMsgs /\ m.type # "VERSION" /\ ~ Deaf(r) /\ r.phase = "SETUP"
       /\ r1 = Refused(r) /\ ts = CloseMsgs(r)
    \/ m.type = "CLOSE" /\ Gone(r, r1) /\ ts = << >>
    \/ m.type = "CONNECTED" /\ r.state = "CONNECTED" /\ r1 = r /\ ts = << >>
    \/ m.type = "CONNECTED" /\ r.state # "CONNECTED" /\ r1 = Fresh(p, r, m.conn) /\ ts = <<"VERSION">>
    \/ /\ m.type = "VERSION" /\ ~ Deaf(r)
       /\ \E us : Shaken(p, Opened(p, m.conn, r), r1, us) /\ Joined(ts, Opening(p), us)
    \/ /\ m.type \in Requests /\ ~ Deaf(r) /\ r.phase # "SETUP" /\ ts = << >>
       /\ r1 = [r EXCEPT !.sync_requested =
                  @ \cup {"PEER"} \cup (IF m.type = "REQUEST_SYNC_AUTH" THEN {"AUTH_PEER"} ELSE {})]
    \/ /\ m.type = "SERIAL" /\ ~ Deaf(r) /\ r.phase # "SETUP" /\ ts = << >>
       /\ r1 = [r EXCEPT !.got = @ \/ "WE" \in r.sync_requested]
    \/ m.type = "PHASE_DONE" /\ ~ Deaf(r) /\ r.phase # "SETUP" /\ PhaseEnds(p, r, r1, ts)

\* Who is put behind those who wait is through with the handshake.
Waits(s, w, m, r1) ==
    \/ w = s.sync_pending
    \/ /\ More(w, s.sync_pending, m.id) /\ m.type \in {"VERSION", "PHASE_DONE"}
       /\ r1.handshake_done = {"WE", "PEER"} /\ r1.phase = "HANDSHAKE"

-----------------------------------------------------------------------------
(* The invariant of the pipes, the links and the connections.              *)

Known(p) == p \in DOMAIN main[Owner(p)].peer
Inq(p) == inq[Owner(p)]
In(p) == IF Waiting(p) THEN backlog[p] ELSE Inq(p)
Out(p) == main[Owner(p)].out
Asked(p) == <<Other(p), Owner(p)>> \in cf.want
AskedAuth(p) == <<Other(p), Owner(p)>> \in cf.auth
AskedType(p) == IF AskedAuth(p) THEN "REQUEST_SYNC_AUTH" ELSE "REQUEST_SYNC"

\* A request is sent where the configuration says so.
OutGood(m) == m.type \in Requests => Wants(m.id) /\ m.type = RequestType(m.id)
InGood(m) == m.type \in Requests => Asked(m.id) /\ m.type = AskedType(m.id)
TypeInv ==
    /\ cf \in Configs
    /\ main = [n \in Nodes |-> main[n]] /\ \A n \in Nodes : IsMain(n, main[n])
    /\ inq \in [Nodes -> Seq(Msgs)]
    /\ link \in [Links -> [entry : {"none", "wait", "up"}, conn : 0 .. MaxConns]]
    /\ backlog = [p \in DOMAIN backlog |-> backlog[p]]
    /\ \A p \in DOMAIN backlog : p \in Ids /\ p[2] # 0 /\ backlog[p] \in Seq(Msgs)
    /\ acc \subseteq Ids /\ \A p \in acc : p[2] # 0

\* What lies in the pipes.
PipeInv ==
    /\ \A n \in Nodes : \A i \in 1 .. Len(main[n].out) : OutGood(main[n].out[i])
    /\ \A n \in Nodes : \A i \in 1 .. Len(inq[n]) :
           /\ inq[n][i].type # "CONNECT_TO" /\ Owner(inq[n][i].id) = n /\ InGood(inq[n][i])
           /\ inq[n][i].type = "CONNECTED" => inq[n][i].conn # 0
    /\ \A p \in DOMAIN backlog : \A i \in 1 .. Len(backlog[p]) :
           backlog[p][i].id = p /\ backlog[p][i].type \in PeerMsgs /\ InGood(backlog[p][i])

\* The main process hears CONNECTED before anything else of a peer that it does not
\* know: after nothing there is none of the others before CONNECTED.
Intro(p) == <<{}, {m \in Msgs : m.id = p /\ m.type = "CONNECTED"},
                  {m \in Msgs : m.id = p /\ m.type # "CONNECTED"}>>
Unused(p) == ~ Known(p) /\ p \notin acc /\ \A i \in 1 .. Len(Inq(p)) : Inq(p)[i].id # p
FreshInv ==
    /\ \A l \in Links : link[l].entry # "none" => Known(<<l, 0>>)
    /\ \A l \in Links : link[l].entry = "up" => link[l].conn # 0
    /\ \A p \in Ids : p[2] > link[p[1]].conn => Unused(p) /\ ~ Waiting(p)
    /\ \A p \in DOMAIN backlog : Unused(p)
    /\ \A p \in Ids : InOK(Inq(p), Intro(p), ~ Known(p))
    /\ \A p \in acc : Known(p) \/ \E i \in 1 .. Len(Inq(p)) : Inq(p)[i] \in Intro(p)[2]
SysInv == TypeInv /\ PipeInv /\ FreshInv

\* The processes of all nodes run, and current_peer is known to the main process.
Polls == [msgstate : {"TYPE", "ARGS", "dead"}, current_peer : Ids \cup {None}, took : BOOLEAN]
PollInv ==
    /\ poll \in [Nodes -> Polls]
    /\ \A n \in Nodes : /\ Alive(n)
                        /\ poll[n].current_peer = None \/ poll[n].current_peer \in DOMAIN main[n].peer

-----------------------------------------------------------------------------
(* A step of the main process.                                             *)

\* A step of the main process of n: the record of p becomes r1, those who wait are w,
\* messages of the types ts are sent, and perhaps the first message, which is of p, is
\* taken from the pipe.
Took(n, p) == Rest(inq'[n], inq[n]) /\ inq[n][1].id = p
MainMove(n, t, p, r1, w, ts) ==
    /\ n \in Nodes /\ p \in Ids /\ Owner(p) = n
    /\ ~ Waiting(p) /\ p[2] <= link[p[1]].conn
    /\ main' = [main EXCEPT ![n] = t] /\ Effect(n, main[n], t, p, r1, w, ts) /\ Len(ts) \in Nat
    /\ UNCHANGED <<cf, link, acc, backlog>>
    /\ inq' \in [Nodes -> Seq(Msgs)] /\ \A k \in Nodes \ {n} : inq'[k] = inq[k]
    /\ inq'[n] = inq[n] \/ Took(n, p)

\* What the types that p sends must be, with due before and due1 after.
Follows(g, k, ts, due, due1) ==
    IF k \in g.k THEN OutOK(ts, Types(g), due1) /\ Led(ts, Types(g), due, due1) ELSE due1 => due

\* How the receiver may begin to wait, and when it has to stop.
Warms(g, n, p, hot, hot1) ==
    IF Took(n, p) THEN hot1 => (hot \/ inq[n][1] \in Sets(g, p)[1]) /\ inq[n][1] \notin Sets(g, p)[2]
                  ELSE hot1 => hot
GoodTypes(p, ts) == \A i \in 1 .. Len(ts) : ts[i] \in Requests => Wants(p) /\ ts[i] = RequestType(p)

-----------------------------------------------------------------------------
(* A step of the child.                                                    *)

\* A step of the child of n: it may take the first message from the pipe.
ChildMain(n) ==
    /\ n \in Nodes /\ cf' = cf
    /\ \/ main' = main
       \/ main[n].out # << >> /\ main' = [main EXCEPT ![n] = [main[n] EXCEPT !.out = Tail(@)]]

\* The main process is told of p, of which it has heard or will hear before.
Arrives(p) == Known(p) \/ \E i \in 1 .. Len(Inq(p)) : Inq(p)[i] \in Intro(p)[2]
Told(p, type, k) ==
    /\ p \in Ids /\ Arrives(p) /\ Msg(p, type, k) \in Msgs
    /\ type # "CONNECT_TO" /\ InGood(Msg(p, type, k)) /\ (type = "CONNECTED" => k # 0)
    /\ ToParent(p, type, k)

\* The queue of the main process that q belongs to.
Tells(p, type, k, q) ==
    IF Owner(q) = Owner(p) THEN More(Inq(q)', Inq(q), Msg(p, type, k)) ELSE Inq(q)' = Inq(q)

\* What the queues are like after such a step.
InqGood ==
    /\ inq' \in [Nodes -> Seq(Msgs)]
    /\ \A k \in Nodes : \A i \in 1 .. Len(inq'[k]) :
           /\ inq'[k][i].type # "CONNECT_TO" /\ Owner(inq'[k][i].id) = k /\ InGood(inq'[k][i])
           /\ inq'[k][i].type = "CONNECTED" => inq'[k][i].conn # 0
    /\ \A q \in Ids : /\ InOK(Inq(q)', Intro(q), ~ Known(q))
                      /\ Unused(q) => \A i \in 1 .. Len(Inq(q)') : Inq(q)'[i].id # q
                      /\ \A i \in 1 .. Len(Inq(q)) : i \in 1 .. Len(Inq(q)') /\ Inq(q)'[i] = Inq(q)[i]

\* What a step of a child may do to its connections, other than accept one.
NetStep ==
    /\ link' \in [Links -> [entry : {"none", "wait", "up"}, conn : 0 .. MaxConns]]
    /\ \A l \in Links : /\ link'[l].entry # "none" => Known(<<l, 0>>)
                        /\ link'[l].entry = "up" => link'[l].conn # 0
                        /\ link[l].conn <= link'[l].conn
    /\ acc' \subseteq acc
    /\ backlog' = [q \in DOMAIN backlog' |-> backlog'[q]]
    /\ \A q \in DOMAIN backlog' :
           /\ q \in Ids /\ q[2] # 0 /\ q[2] <= link'[q[1]].conn /\ backlog'[q] \in Seq(Msgs)
           /\ q \in DOMAIN backlog \/ q[2] > link[q[1]].conn
           /\ \A i \in 1 .. Len(backlog'[q]) : /\ backlog'[q][i].id = q /\ backlog'[q][i].type \in PeerMsgs
                                               /\ InGood(backlog'[q][i])

\* An end is closed.
Cut(p, e) ==
    /\ p \in Ids /\ e \in {"none", "wait"} /\ (p[2] = 0 /\ e = "wait" => Known(p))
    /\ IF p[2] = 0 THEN link' = [link EXCEPT ![p[1]].entry = e] /\ acc' = acc
                   ELSE acc' = acc \ {p} /\ link' = link
    /\ backlog' = backlog

\* A connection is made, with number k.
Up(l, k) ==
    /\ l \in Links /\ k = link[l].conn + 1 /\ k <= MaxConns /\ Known(<<l, 0>>)
    /\ link' = [link EXCEPT ![l] = [entry |-> "up", conn |-> k]]
    /\ backlog' = [c \in DOMAIN backlog \cup {<<l, k>>} |-> IF c = <<l, k>> THEN << >> ELSE backlog[c]]
    /\ acc' = acc

\* A message gets into the backlog of f.
Fill(f, m) ==
    /\ f \in DOMAIN backlog /\ m \in Msgs /\ m.id = f /\ m.type \in PeerMsgs /\ InGood(m)
    /\ backlog' = [backlog EXCEPT ![f] = Append(@, m)]
    /\ link' = link /\ acc' = acc

\* Messages that are none of the other side's for p.
Alien(x, p) == Len(x) \in Nat /\ \A i \in 1 .. Len(x) : x[i].id # p \/ x[i].type \notin PeerMsgs
QuietIn(p) == In(p)' = In(p) \/ \E x : Joined(In(p)', In(p), x) /\ Alien(x, p)
AcceptsIn(p) == \E u : Joined(In(p)', u, In(p)) /\ Alien(u, p)
QuietOut(q) == Out(q)' = Out(q) \/ (Rest(Out(q)', Out(q)) /\ (Out(q)[1].id # q \/ Out(q)[1].type \notin PeerMsgs))

\* The first message of q goes to p.
Passes(q, p) ==
    /\ Rest(Out(q)', Out(q)) /\ Out(q)[1] \in Msgs /\ Out(q)[1].id = q
    /\ More(In(p)', In(p), Msg(p, Out(q)[1].type, Out(q)[1].conn))

\* What a step of a child does to what p gets.
InStep(p) ==
    \/ QuietIn(p) \/ AcceptsIn(p) \/ Len(In(p)') = 0
    \/ \E q \in Ids : Linked(q) /\ Far(q) = p /\ Passes(q, p)

\* The main process is told nothing of q.
Unheard(q) ==
    \/ Inq(q)' = Inq(q)
    \/ \E x : Joined(Inq(q)', Inq(q), x) /\ Len(x) \in Nat /\ \A i \in 1 .. Len(x) : x[i].id # q

\* The child has tried to connect, again or on CONNECT_TO.
Tried(l) ==
    \/ link[l].entry = "wait"
    \/ /\ Rest(Out(<<l, 0>>)', Out(<<l, 0>>))
       /\ Out(<<l, 0>>)[1].id = <<l, 0>> /\ Out(<<l, 0>>)[1].type = "CONNECT_TO"

\* What it does to the link of q and to what its main process hears of q: nothing; it
\* is about the other end; the attempt to connect fails, without and with a word to the
\* main process; the end is closed; a connection is made; a message is handed on; the
\* connection is accepted.
LinkStep(q) ==
    \/ Unheard(q) /\ link'[q[1]] = link[q[1]]
    \/ Unheard(q) /\ q[2] # 0 /\ link[q[1]].conn <= link'[q[1]].conn
    \/ Unheard(q) /\ Tried(q[1]) /\ link'[q[1]].conn = link[q[1]].conn /\ link'[q[1]].entry # "up"
    \/ /\ More(Inq(q)', Inq(q), Msg(q, "CLOSE", 0)) /\ link'[q[1]].conn = link[q[1]].conn
       /\ q[2] = 0 => link'[q[1]].entry # "up" /\ (link[q[1]].entry = "up" \/ Tried(q[1]))
    \/ /\ q[2] = 0 /\ Tried(q[1]) /\ More(Inq(q)', Inq(q), Msg(q, "CONNECTED", link'[q[1]].conn))
       /\ link'[q[1]].conn = link[q[1]].conn + 1 /\ link'[q[1]].entry = "up"
    \/ /\ \E v \in Ids : Linked(v) /\ Far(v) = q /\ Passes(v, q) /\ Out(v)[1].type \in PeerMsgs
       /\ In(q) = Inq(q) /\ In(q)' = Inq(q)' /\ link'[q[1]] = link[q[1]]
    \/ /\ \E u : More(u, Inq(q), Msg(q, "CONNECTED", q[2])) /\ Joined(Inq(q)', u, backlog[q])
       /\ Unused(q) /\ Waiting(q) /\ link'[q[1]] = link[q[1]]

\* The ends of connection k of a link, one of which may not be accepted yet.
Mates(q, p, k) ==
    /\ q \in Ids /\ p \in Ids /\ k \in 1 .. MaxConns /\ q[1] = p[1]
    /\ (q[2] = 0 /\ p[2] = k) \/ (q[2] = k /\ p[2] = 0)
Joint(l, k) ==
    link[l].entry = "up" /\ link[l].conn = k /\ (<<l, k>> \in acc \/ <<l, k>> \in DOMAIN backlog)
JointStep(q, p, k) ==
    \/ Joint(q[1], k) /\ (QuietIn(p) \/ AcceptsIn(p)) /\ QuietOut(q)
    \/ Joint(q[1], k) /\ Passes(q, p)
    \/ link[q[1]].conn < k /\ (QuietIn(p) \/ Len(In(p)') = 0)
ChildGood(n) ==
    /\ ChildMain(n) /\ SysInv' /\ \A p \in Ids : InStep(p)
    /\ \A q \in Ids : LinkStep(q)
    /\ \A q, p, k : Mates(q, p, k) /\ Joint(q[1], k)' => JointStep(q, p, k)

-----------------------------------------------------------------------------
(* Every step is one of the two.                                           *)

\* What the main process of n does, for its peer p.
Connects(n, p, r1, w, ts) ==
    /\ ~ Known(p) /\ inq' = inq /\ ts = <<"CONNECT_TO">> /\ w = main[n].sync_pending
    /\ p[2] = 0 /\ r1.state = "PENDING" /\ r1.phase = "UNKNOWN" /\ r1.conn = 0 /\ ~ r1.error
Disconnects(n, p, r1, w, ts) ==
    /\ Known(p) /\ inq' = inq /\ ts = CloseMsgs(Peer(p)) /\ w = main[n].sync_pending
    /\ r1 = Closed(Peer(p))
Resumes(n, p, r1, w, ts) ==
    /\ Known(p) /\ inq' = inq /\ Decided(p, Peer(p), r1, ts)
    /\ main[n].sync_pending # << >> /\ p = main[n].sync_pending[1]
    /\ Rest(w, main[n].sync_pending)
    /\ Peer(p).state # "CONNECTED" => <<p[1], Peer(p).conn>> \in upset'
Record(p) == IF Known(p) THEN Peer(p) ELSE NewPeer
Takes(n, p, r1, w, ts) ==
    LET m == inq[n][1]
    IN /\ Took(n, p) /\ m \in Msgs /\ m.id = p /\ InGood(m) /\ m.type # "CONNECT_TO"
       /\ m.type = "CONNECTED" => m.conn # 0
       /\ m.type = "CONNECTED" \/ Known(p)
       /\ Treated(p, m, Record(p), r1, ts) /\ Waits(main[n], w, m, r1)
       /\ m.type \in PeerMsgs /\ m.conn # Peer(p).conn => <<p[1], Peer(p).conn>> \in upset'
       /\ m.type = "CONNECTED" /\ Record(p).state # "CONNECTED" /\ InPending(main[n], p)
             => <<p[1], m.conn>> \in upset'
Does(n, p, r1, w, ts) ==
    \/ Connects(n, p, r1, w, ts) \/ Disconnects(n, p, r1, w, ts)
    \/ Resumes(n, p, r1, w, ts) \/ Takes(n, p, r1, w, ts)
ShortTypes == {<< >>, <<"CLOSE">>, <<"VERSION">>, <<"CONNECT_TO">>, <<"SERIAL", "PHASE_DONE">>}

-----------------------------------------------------------------------------
(* The record of a peer.                                                   *)

\* A peer is past SETUP when it has heard VERSION; it lacks the request of the other
\* side until it has taken it.
Past(r) == r.phase \notin {"UNKNOWN", "SETUP"}
Lacks(r) == r.state = "CONNECTED" /\ Past(r) /\ "PEER" \notin r.sync_requested

\* What p has asked for, and what the other side has.
Ours(p) == IF Wants(p) THEN WePart(p) ELSE {}
Theirs(p) == IF Asked(p) THEN {"PEER"} \cup (IF AskedAuth(p) THEN {"AUTH_PEER"} ELSE {}) ELSE {}
Full(p) == Ours(p) \cup Theirs(p)

\* The record r of a peer p that is connected.
PeerOK(p, r) ==
    r.state = "CONNECTED" =>
        /\ r.phase # "UNKNOWN" /\ r.conn # 0 /\ r.our_runtime = OurTime(p, r.conn)
        /\ r.phase = "SETUP" => r.sync_requested = {} /\ r.handshake_done = {}
        /\ r.phase # "SETUP" => /\ "WE" \in r.handshake_done /\ r.runtime = TheirTime(p, r.conn)
                                /\ r.sync_requested \in {Ours(p), Full(p)}
        /\ "PEER" \in r.handshake_done => r.sync_requested = Full(p)
        /\ r.phase = "SYNC" => ~ r.send_state
        /\ r.phase \in {"SYNC", "RUNNING"} =>
               /\ r.handshake_done = {"WE", "PEER"}
               /\ r.sync_requested # {} => /\ r.send_state = SendState(r, p)
                                           /\ ~ (Auth(p) /\ AskedAuth(p))

\* Who waits has been connected.
WaitInv == \A p \in Ids : InPending(main[Owner(p)], p) => Record(p).conn # 0

-----------------------------------------------------------------------------
(* The numbers of the connections.                                         *)

\* All of Q is in S.
Within(Q, S) == \A i \in 1 .. Len(Q) : Q[i] \in S
ConnOf(q) == {m \in Msgs : m.id = q /\ m.type = "CONNECTED"}
CloseOf(q) == {m \in Msgs : m.id = q /\ m.type = "CLOSE"}
DataOf(q) == {m \in Msgs : m.id = q /\ m.type \in PeerMsgs}

\* What the main process has sent for q, which is at connection k; what comes to q on
\* connections up to k; the CONNECTED of q, up to connection k.
OutSet(q, k) == {m \in Msgs : m \in DataOf(q) => 0 < m.conn /\ m.conn <= k /\ (q[2] # 0 => m.conn = q[2])}
InSet(q, k) == {m \in Msgs : m \in DataOf(q) => 0 < m.conn /\ m.conn <= k}
ConnSet(q, k) == {m \in Msgs : m \in ConnOf(q) => 0 < m.conn /\ m.conn <= k /\ (q[2] # 0 => m.conn = q[2])}

\* The CONNECTED of a peer come in the order of the connections; what the other side has
\* sent for connection k comes after the CONNECTED of it; between two CONNECTED there is
\* a CLOSE.
Rising(q, k) == <<{m \in ConnOf(q) : m.conn >= k}, {}, {m \in ConnOf(q) : m.conn <= k}>>
Announced(q, k) == <<{}, {m \in ConnOf(q) : m.conn = k}, {m \in DataOf(q) : m.conn = k}>>
Turns(q) == <<ConnOf(q), CloseOf(q), ConnOf(q)>>

\* Whatever is waited for is already there.
Settled(Q, R, hot) == CrossOK(Q, R, hot, << >>, R, TRUE)
Reached(r, k) == r.conn >= k
Behind(r, k) == r.conn < k
IsUp(r) == r.state = "CONNECTED"
LabelParts(q) ==
    /\ Known(q) /\ q[2] # 0 => Record(q).conn = q[2]
    /\ Record(q).state \in {"INIT", "PENDING"} => Record(q).conn = 0
    /\ Record(q).conn <= link[q[1]].conn
    /\ Within(Out(q), OutSet(q, Record(q).conn))
    /\ Within(In(q), InSet(q, IF q[2] = 0 THEN link[q[1]].conn ELSE q[2]))
    /\ Within(Inq(q), ConnSet(q, link[q[1]].conn))
    /\ \A k \in 1 .. MaxConns : InOK(Inq(q), Rising(q, k), Reached(Record(q), k))

\* The child connects only if the last connection is closed, and its CLOSE is under way.
TurnParts(q) ==
    /\ \A k \in 1 .. MaxConns : InOK(Inq(q), Announced(q, k), Behind(Record(q), k))
    /\ InOK(Inq(q), Turns(q), IsUp(Record(q)))
    /\ link[q[1]].entry # "up" => Settled(Inq(q), Turns(q), IsUp(Record(q)))
    /\ \/ Record(q).conn = link[q[1]].conn
       \/ \E i \in 1 .. Len(Inq(q)) : Inq(q)[i] = Msg(q, "CONNECTED", link[q[1]].conn)
    /\ \A i, j \in 1 .. Len(Out(q)) :
           /\ Out(q)[i].id = q /\ Out(q)[i].type = "CONNECT_TO"
           /\ Out(q)[j].id = q /\ Out(q)[j].type = "CONNECT_TO"
           => i = j /\ link[q[1]].entry = "none"
LabelInv == \A q \in Ids : LabelParts(q) /\ (q[2] = 0 => TurnParts(q))

\* A rule for the messages of q only.
OwnRule(R, q) == \A m : m.id # q => m \notin R[1] /\ m \notin R[2] /\ m \notin R[3]

\* The peer hears of a connection that is later than the one it has had; or it stays
\* with the one it has.
NewConn(n, p, r, r1, ts) ==
    /\ Took(n, p) /\ inq[n][1] \in ConnOf(p) /\ r.state # "CONNECTED" /\ r1 = Fresh(p, r, inq[n][1].conn)
    /\ ts = <<"VERSION">> /\ r.conn < inq[n][1].conn
SameConn(n, p, r, r1, ts) ==
    /\ r1.conn = r.conn /\ r1.state \in {r.state, "PENDING", "CLOSING", "CLOSED"}
    /\ r1.state = "PENDING" => r.conn = 0
    /\ r.conn = 0 => \A i \in 1 .. Len(ts) : ts[i] \notin PeerMsgs
    /\ Took(n, p) => /\ inq[n][1] \in ConnOf(p) => r.state = "CONNECTED"
                     /\ inq[n][1] \in CloseOf(p) => r1.state # "CONNECTED"
    /\ Known(p) \/ p[2] = 0
    /\ \A i \in 1 .. Len(ts) : ts[i] = "CONNECT_TO" => ~ Known(p) /\ Len(ts) = 1

-----------------------------------------------------------------------------
(* The order of the messages on a connection that is not mixed up.         *)

\* The side that is to send its state on connection k, and the one that is to get it.
Sends(p, k) ==
    /\ Asked(p) /\ ~ (Auth(p) /\ AskedAuth(p))
    /\ Wants(p) => \/ Auth(p)
                   \/ ~ AskedAuth(p) /\ IF OurTime(p, k) = TheirTime(p, k) THEN p[2] = 0
                                        ELSE OurTime(p, k) > TheirTime(p, k)
Gets(p, k) ==
    /\ Wants(p) /\ ~ (Auth(p) /\ AskedAuth(p))
    /\ Asked(p) => \/ AskedAuth(p)
                   \/ ~ Auth(p) /\ IF OurTime(p, k) = TheirTime(p, k) THEN p[2] # 0
                                   ELSE OurTime(p, k) < TheirTime(p, k)

\* VERSION comes first; it comes once; between two PHASE_DONE, the one of the handshake
\* and the one of the synchronization, there is the state; the state comes once, from
\* the side that is to send it; between VERSION and PHASE_DONE there is the request of a
\* side that wants the state.
Live(r, k) == r.conn = k /\ r.state = "CONNECTED"
HelloRule(k) == [a |-> {}, b |-> {"VERSION"}, z |-> PeerMsgs \ {"VERSION"}, k |-> {k}]
HelloHot(r, k) == r.conn < k \/ (Live(r, k) /\ r.phase = "SETUP")
HelloDue(r, k) == r.conn = k
OnceRule(k) == [a |-> {"VERSION"}, b |-> {}, z |-> {"VERSION"}, k |-> {k}]
OnceHot(r, k) == Live(r, k) /\ r.phase # "SETUP"
OnceDue(r, k) == r.conn < k
SyncRule(k) == [a |-> {"PHASE_DONE"}, b |-> {"SERIAL"}, z |-> {"PHASE_DONE"}, k |-> {k}]
SyncHot(r, k) == Live(r, k) /\ "PEER" \in r.handshake_done /\ (~ r.got \/ r.phase = "RUNNING")
SyncDue(r, k) == r.conn < k \/ (r.conn = k /\ r.phase = "SETUP")
StateRule(k) == [a |-> {"SERIAL"}, b |-> {}, z |-> {"SERIAL"}, k |-> {k}]
StateHot(b, r, k) == ~ b \/ (Live(r, k) /\ r.got)
StateDue(b, r, k) == b /\ (r.conn < k \/ (r.conn = k /\ r.phase \in {"SETUP", "HANDSHAKE"}))
AskRule(k) == [a |-> {"VERSION"}, b |-> Requests, z |-> {"PHASE_DONE"}, k |-> {k}]
AskHot(r, k) == r.conn = k /\ Lacks(r)
AskDue(r, k) == r.conn = k /\ Past(r)

\* A rule on the way from q to p.
OrderOK(g, q, p, k, hot, due) ==
    /\ OutOK(Out(q), Sets(g, q), due)
    /\ InOK(In(p), Sets(g, p), hot)
    /\ Joint(q[1], k) => CrossOK(In(p), Sets(g, p), hot, Out(q), Sets(g, q), due)
OrderAfter(g, q, p, k, hot, due) ==
    /\ OutOK(Out(q)', Sets(g, q), due)
    /\ InOK(In(p)', Sets(g, p), hot)
    /\ Joint(q[1], k)' => CrossOK(In(p)', Sets(g, p), hot, Out(q)', Sets(g, q), due)
Ordered(q, p, k) ==
    /\ OrderOK(HelloRule(k), q, p, k, HelloHot(Record(p), k), HelloDue(Record(q), k))
    /\ OrderOK(OnceRule(k), q, p, k, OnceHot(Record(p), k), OnceDue(Record(q), k))
    /\ OrderOK(SyncRule(k), q, p, k, SyncHot(Record(p), k), SyncDue(Record(q), k))
    /\ OrderOK(StateRule(k), q, p, k, StateHot(Gets(p, k), Record(p), k), StateDue(Sends(q, k), Record(q), k))
    /\ Wants(q) => OrderOK(AskRule(k), q, p, k, AskHot(Record(p), k), AskDue(Record(q), k))
OrderInv == \A q, p \in Ids, k \in 1 .. MaxConns : Mates(q, p, k) /\ <<p[1], k>> \notin upset => Ordered(q, p, k)

\* A peer whose connection is not mixed up is in no error, has the state only if it is
\* to get it, and runs only when it has it; if it is to send the state and waits for its
\* turn, it waits once, in the handshake.
Clean(p) == <<p[1], Record(p).conn>> \notin upset
CleanParts(p) ==
    LET r == Record(p)
    IN /\ ~ r.error
       /\ IsUp(r) /\ ~ Gets(p, r.conn) => ~ r.got
       /\ IsUp(r) /\ Gets(p, r.conn) /\ r.phase = "RUNNING" => r.got
Queue(p) == main[Owner(p)].sync_pending
WaitsOnce(p, r, w) ==
    IsUp(r) /\ Sends(p, r.conn) =>
        /\ \A i, j \in 1 .. Len(w) : w[i] = p /\ w[j] = p => i = j
        /\ \A i \in 1 .. Len(w) : w[i] = p => r.phase = "HANDSHAKE"
Through(p, r, w) ==
    IsUp(r) => \A i \in 1 .. Len(w) : w[i] = p => r.handshake_done = {"WE", "PEER"}
\* The same of a record and a list of those who wait.
CleanRecord(p, r, w) ==
    /\ PeerOK(p, r) /\ Through(p, r, w)
    /\ ~ r.error
    /\ IsUp(r) /\ ~ Gets(p, r.conn) => ~ r.got
    /\ IsUp(r) /\ Gets(p, r.conn) /\ r.phase = "RUNNING" => r.got
    /\ WaitsOnce(p, r, w)

CleanInv ==
    \A p \in Ids : Clean(p) => /\ PeerOK(p, Record(p)) /\ Through(p, Record(p), Queue(p))
                              /\ CleanParts(p) /\ WaitsOnce(p, Record(p), Queue(p))
SyncInv == SysInv /\ PollInv /\ LabelInv /\ WaitInv /\ OrderInv /\ CleanInv

-----------------------------------------------------------------------------
(* The steps of a peer whose connection is not mixed up.                   *)

\* Nothing that matters happens, or the peer is not connected any more.
Idles(n, r, r1, w, ts) ==
    /\ r1.conn = r.conn /\ r1.error = r.error /\ r1.phase \in {r.phase, "UNKNOWN"}
    /\ \A i \in 1 .. Len(ts) : ts[i] \notin PeerMsgs
    /\ IsUp(r1) => /\ IsUp(r) /\ r1.phase = r.phase /\ r1.handshake_done = r.handshake_done /\ r1.got = r.got
                   /\ w = main[n].sync_pending
                   /\ inq'[n] = inq[n] \/ inq[n][1].type \notin {"VERSION", "SERIAL", "PHASE_DONE"}

\* It is connected anew.
Begins(n, p, r, r1, w, ts) ==
    /\ Took(n, p) /\ inq[n][1].type = "CONNECTED" /\ r.conn < r1.conn /\ ~ IsUp(r) /\ IsUp(r1)
    /\ r1.phase = "SETUP" /\ r1.handshake_done = {} /\ ~ r1.got /\ ~ r1.error /\ ts = <<"VERSION">>
    /\ w = main[n].sync_pending /\ \A i \in 1 .. Len(w) : w[i] # p

\* It takes a message of its connection.
Hears(n, p, r, r1, type) ==
    /\ Took(n, p) /\ inq[n][1] \in Msgs /\ inq[n][1].id = p /\ inq[n][1].type = type /\ inq[n][1].conn = r.conn
    /\ IsUp(r) /\ r1.conn = r.conn /\ r1.error = r.error
Opens(n, p, r, r1, w, ts) ==
    /\ Hears(n, p, r, r1, "VERSION") /\ r.phase = "SETUP" /\ r1.phase = "HANDSHAKE" /\ r1.handshake_done = {"WE"}
    /\ r1.got = r.got /\ w = main[n].sync_pending /\ Len(ts) \in Nat
    /\ Wants(p) => Len(ts) >= 2 /\ ts[1] \in Requests
    /\ \A i \in 1 .. Len(ts) : ts[i] \notin {"VERSION", "SERIAL"} /\ (ts[i] = "PHASE_DONE" => i = Len(ts))
Gains(n, p, r, r1, w, ts) ==
    /\ Hears(n, p, r, r1, "SERIAL") /\ r.phase \notin {"SETUP", "RUNNING"} /\ r1.phase = r.phase /\ Gets(p, r.conn)
    /\ r1.got /\ r1.handshake_done = r.handshake_done /\ w = main[n].sync_pending /\ ts = << >>
Finishes(n, p, r, r1, w, ts) ==
    /\ Hears(n, p, r, r1, "PHASE_DONE") /\ r.phase = "SYNC" /\ r.got /\ r1.got /\ r1.phase = "RUNNING"
    /\ w = main[n].sync_pending /\ ts = << >>

\* HandshakeDone.
Decides(p, r, r1, ts) ==
    /\ r1.got = r.got /\ r1.phase \in {r.phase, "SYNC", "RUNNING"}
    /\ r1.phase = "RUNNING" => r.phase = "RUNNING" \/ ~ Gets(p, r.conn)
    /\ \/ ts \in {<< >>, <<"CLOSE">>}
       \/ ts = <<"SERIAL", "PHASE_DONE">> /\ Sends(p, r.conn) /\ r1.phase = "RUNNING" /\ r.phase = "HANDSHAKE"
Concludes(n, p, r, r1, w, ts) ==
    /\ Hears(n, p, r, r1, "PHASE_DONE") /\ r.phase = "HANDSHAKE" /\ (r.got \/ "PEER" \notin r.handshake_done)
    /\ Decides(p, r, r1, ts)
    /\ w = main[n].sync_pending \/ (More(w, main[n].sync_pending, p) /\ r1.phase = "HANDSHAKE")
Resumed(n, p, r, r1, w, ts) ==
    /\ inq'[n] = inq[n] /\ IsUp(r) /\ Past(r) /\ r1.conn = r.conn /\ r1.error = r.error
    /\ r1.handshake_done = r.handshake_done /\ Decides(p, r, r1, ts)
    /\ p = main[n].sync_pending[1] /\ Rest(w, main[n].sync_pending)
Kinds(n, p, r, r1, w, ts) ==
    \/ Idles(n, r, r1, w, ts) \/ Begins(n, p, r, r1, w, ts) \/ Opens(n, p, r, r1, w, ts) \/ Gains(n, p, r, r1, w, ts)
    \/ Finishes(n, p, r, r1, w, ts) \/ Concludes(n, p, r, r1, w, ts) \/ Resumed(n, p, r, r1, w, ts)

\* The same, with what the rules distinguish.
Quiet(ts) == \A i \in 1 .. Len(ts) : ts[i] \notin PeerMsgs
SendKinds(p, r, r1, ts) ==
    \/ r.conn < r1.conn /\ r1.phase = "SETUP" /\ Len(ts) = 1 /\ ts[1] = "VERSION"
    \/ r1.conn = r.conn /\ r1.phase \in {r.phase, "UNKNOWN", "SYNC", "RUNNING"} /\ Quiet(ts)
       /\ (Past(r1) => Past(r))
    \/ /\ r1.conn = r.conn /\ r.phase = "SETUP" /\ r1.phase = "HANDSHAKE"
       /\ Wants(p) => Len(ts) >= 2 /\ ts[1] \in Requests
       /\ \A i \in 1 .. Len(ts) : ts[i] \notin {"VERSION", "SERIAL"} /\ (ts[i] = "PHASE_DONE" => i = Len(ts))
    \/ /\ r1.conn = r.conn /\ Len(ts) = 2 /\ ts[1] = "SERIAL" /\ ts[2] = "PHASE_DONE"
       /\ Sends(p, r.conn) /\ r1.phase = "RUNNING" /\ r.phase = "HANDSHAKE"

\* How the receiver begins to wait on connection k.
Heads(n, p, k, types) ==
    Took(n, p) /\ inq[n][1] \in Msgs /\ inq[n][1].id = p /\ inq[n][1].type \in types /\ inq[n][1].conn = k

\* A step of a main process keeps the rules on a connection that is not mixed up.
Kept(n, p, r, r1, ts, k) ==
    /\ Follows(HelloRule(k), r1.conn, ts, HelloDue(r, k), HelloDue(r1, k))
    /\ Follows(OnceRule(k), r1.conn, ts, OnceDue(r, k), OnceDue(r1, k))
    /\ Follows(SyncRule(k), r1.conn, ts, SyncDue(r, k), SyncDue(r1, k))
    /\ Follows(StateRule(k), r1.conn, ts, StateDue(Sends(p, k), r, k), StateDue(Sends(p, k), r1, k))
    /\ Wants(p) => Follows(AskRule(k), r1.conn, ts, AskDue(r, k), AskDue(r1, k))
    /\ Warms(HelloRule(k), n, p, HelloHot(r, k), HelloHot(r1, k))
    /\ Warms(OnceRule(k), n, p, OnceHot(r, k), OnceHot(r1, k))
    /\ Warms(SyncRule(k), n, p, SyncHot(r, k), SyncHot(r1, k))
    /\ Warms(StateRule(k), n, p, StateHot(Gets(p, k), r, k), StateHot(Gets(p, k), r1, k))
    /\ Warms(AskRule(k), n, p, AskHot(r, k), AskHot(r1, k))
=============================================================================
