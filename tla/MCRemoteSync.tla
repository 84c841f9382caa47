---------------------------- MODULE MCRemoteSync ----------------------------
(***************************************************************************)
(* Instances of RemoteSync with two and three nodes.                       *)
(***************************************************************************)
EXTENDS RemoteSync

One == {<<1, 2>>}
Both == {<<1, 2>>, <<2, 1>>}

\* How long the nodes have been running: equally long, or one longer; and equally
\* long, but longer at each connection.
Numbers == (Nodes \X Nodes) \X (0 .. MaxConns)
Equal == [n \in Nodes |-> [c \in Numbers |-> 0]]
Older(m) == [n \in Nodes |-> [c \in Numbers |-> IF n = m THEN 1 ELSE 0]]
Growing == [n \in Nodes |-> [c \in Numbers |-> c[2]]]

\* A configuration with maxConns connections of a link.
Config(links, want, auth, runtime, retry, maxConns) ==
  [links |-> links, want |-> want, auth |-> auth, runtime |-> runtime, retry |-> retry,
   lossy |-> {}, late |-> FALSE, conns |-> maxConns, losses |-> 0, closes |-> 0]
Loses(c, lossy, late, n) == [c EXCEPT !.lossy = lossy, !.late = late, !.losses = n]
Closes(c, n) == [c EXCEPT !.closes = n]

\* One connection: every way to choose the sender; a call of disconnect or a
\* loss at any time.
Choices ==
  {Config(One, w, {}, Equal, TRUE, 1) : w \in SUBSET Both}
    \cup {Config(One, Both, a, r, TRUE, 1) : a \in SUBSET Both, r \in {Equal, Older(1), Older(2)}}
    \cup {Closes(Loses(Config(One, Both, {}, Equal, FALSE, 1), One, FALSE, 1), 1),
          Closes(Config(One, Both, {}, Equal, TRUE, 2), 1)}

\* A lost connection that is made again.
Lossy == Loses(Config(One, Both, {}, Growing, TRUE, 2), One, FALSE, 1)

\* Two nodes that connect to each other: as old as each other, and not.
Mutual == Config(Both, Both, {}, Equal, TRUE, 1)
MutualOlder == Config(Both, Both, {}, Older(2), TRUE, 1)

\* Three nodes in a row, where node 2 gets the state of one neighbour and sends
\* its own to the other, or sends its own to both.
Row == {Config({<<1, 2>>, <<2, 3>>}, w, {}, Equal, TRUE, 1) :
          w \in {{<<2, 1>>, <<3, 2>>}, {<<1, 2>>, <<3, 2>>}}}

\* A node that gets the state of two others, one of which is lost while it waits,
\* and connected again or not.
Collector == {Loses(Config({<<1, 2>>, <<2, 3>>}, {<<2, 1>>, <<2, 3>>}, {}, Equal, r, 2),
                    {<<2, 3>>}, TRUE, 1) : r \in BOOLEAN}

\* A node that gets the state of one other and is asked for its own by a third,
\* whose connection is lost while it waits, twice: two peers are in sync_pending.
Twice == Loses(Config({<<1, 2>>, <<3, 2>>}, {<<2, 1>>, <<3, 2>>}, {}, Equal, TRUE, 3),
               {<<3, 2>>}, TRUE, 2)

Passing == Choices \cup Row \cup Collector \cup {Lossy, Mutual, Twice}
MutualOnly == {MutualOlder}
=============================================================================
