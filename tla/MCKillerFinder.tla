--------------------------- MODULE MCKillerFinder ---------------------------
(* A small instance of KillerFinder: the packets a connection is made of.    *)
EXTENDS KillerFinder

Packet(syn, ack, fin, rst, dir, data) ==
    [syn |-> syn, ack |-> ack, fin |-> fin, rst |-> rst, dir |-> dir, data |-> data]

SYN == Packet(TRUE, FALSE, FALSE, FALSE, ToServer, FALSE)
ACK == Packet(FALSE, TRUE, FALSE, FALSE, ToServer, FALSE)
DATA == Packet(FALSE, TRUE, FALSE, FALSE, ToServer, TRUE)
RST == Packet(FALSE, TRUE, FALSE, TRUE, ToClient, FALSE)
FIN(dir) == Packet(FALSE, TRUE, TRUE, FALSE, dir, FALSE)

MCSeen == {SYN, ACK, DATA, FIN(ToClient), RST}
MCSeenFew == {SYN, ACK, RST}
=============================================================================
