-------------------------------- MODULE UdpEcho --------------------------------
(***************************************************************************)
(* socket/udp: server.c sends each datagram back; client.c sends a line and*)
(* waits for the answer, without a timeout.                                *)
(***************************************************************************)
EXTENDS Integers, FiniteSets

CONSTANTS
    UdpClients,   \* processes that run client.c
    MaxUdpSent    \* bound: datagrams that one client sends

(* What a line is to the program.  The server compares four characters with  *)
(* "quitall", so that "quit", by which a client ends, also ends the server.  *)
UdpLines == {"text", "quit", "empty"}

VARIABLES
    udpServer,    \* "down", "recv", "send" or "stopped"
    peer,         \* the datagram being answered
    udpClient,    \* what each client does, and how many datagrams it has sent
    net,          \* datagrams on their way
    udpLost       \* the clients of which a datagram was lost

udpVars == <<udpServer, peer, udpClient, net, udpLost>>
NoDatagram == [to |-> "nobody"]

UdpInit ==
    /\ udpServer = "down" /\ peer = NoDatagram /\ net = {} /\ udpLost = {}
    /\ udpClient = [c \in UdpClients |-> [at |-> "typing", line |-> "empty", sent |-> 0]]

(* A server that cannot bind stays down.                                     *)
UdpBind == udpServer = "down" /\ udpServer' = "recv" /\ UNCHANGED <<peer, udpClient, net, udpLost>>

RecvfromFaulty ==
    /\ udpServer = "recv"
    /\ \E d \in net :
         /\ d.to = "server" /\ net' = net \ {d} /\ peer' = d
         /\ udpServer' = IF d.line = "quit" THEN "stopped" ELSE IF d.line = "empty" THEN "recv" ELSE "send"
    /\ UNCHANGED <<udpClient, udpLost>>
Recvfrom ==
    /\ udpServer = "recv"
    /\ \E d \in net :
         /\ d.to = "server" /\ net' = net \ {d} /\ peer' = d
         /\ udpServer' = IF d.line = "quit" THEN "stopped" ELSE "send"
    /\ UNCHANGED <<udpClient, udpLost>>

(* An error of sendto, too, ends the server.                                 *)
Sendto ==
    /\ udpServer = "send"
    /\ \/ net' = net \cup {[to |-> "client", client |-> peer.client, line |-> peer.line]} /\ udpServer' = "recv"
       \/ udpServer' = "stopped" /\ UNCHANGED net
    /\ UNCHANGED <<peer, udpClient, udpLost>>

(* Datagrams to a port that nobody has bound are lost.                       *)
UdpType(c) ==
    /\ udpClient[c].at = "typing" /\ udpClient[c].sent < MaxUdpSent
    /\ \E line \in UdpLines :
         /\ IF udpServer \in {"down", "stopped"}
            THEN udpLost' = udpLost \cup {c} /\ UNCHANGED net
            ELSE net' = net \cup {[to |-> "server", client |-> c, line |-> line]} /\ UNCHANGED udpLost
         /\ udpClient' = [udpClient EXCEPT ![c] = [at |-> IF line = "quit" THEN "done" ELSE "waiting",
                                                   line |-> line, sent |-> @.sent + 1]]
    /\ UNCHANGED <<udpServer, peer>>

UdpReceive(c) ==
    /\ udpClient[c].at = "waiting"
    /\ \E d \in net :
         /\ d.to = "client" /\ d.client = c /\ net' = net \ {d}
         /\ udpClient' = [udpClient EXCEPT ![c].at = "typing", ![c].line = d.line]
    /\ UNCHANGED <<udpServer, peer, udpLost>>

(* An error of sendto or recvfrom ends the client.                           *)
UdpFails(c) ==
    /\ udpClient[c].at # "done" /\ udpClient' = [udpClient EXCEPT ![c].at = "done"]
    /\ UNCHANGED <<udpServer, peer, net, udpLost>>

Lose ==
    \E d \in net : net' = net \ {d} /\ udpLost' = udpLost \cup {d.client} /\ UNCHANGED <<udpServer, peer, udpClient>>

UdpNext ==
    \/ UdpBind \/ Recvfrom \/ Sendto \/ Lose
    \/ \E c \in UdpClients : UdpType(c) \/ UdpReceive(c) \/ UdpFails(c)

UdpSpec == UdpInit /\ [][UdpNext]_udpVars

-----------------------------------------------------------------------------
(* A client that waits has its line or the answer to it on the way, unless a *)
(* datagram of it was lost or the server has stopped, and it can get no      *)
(* other answer: what is on the way to it is its last line.  Empty lines are *)
(* answered like any others (udp/server.c:76).                               *)
WaitingIsAnswered ==
    \A c \in UdpClients :
       LET OnTheWay == {d \in net : d.client = c /\ d.line = udpClient[c].line}
       IN  /\ \A d \in net : d.client = c => d \in OnTheWay
           /\ udpClient[c].at = "waiting" =>
                 \/ OnTheWay # {} \/ c \in udpLost \/ udpServer = "stopped"
                 \/ udpServer = "send" /\ peer.client = c
=============================================================================
