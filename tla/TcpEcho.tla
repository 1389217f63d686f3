-------------------------------- MODULE TcpEcho --------------------------------
(***************************************************************************)
(* socket/tcp: server_blocked.c, which serves one connection after the     *)
(* other and sends back what it receives, and its client.c.  TCP may hand  *)
(* over a line in pieces.                                                  *)
(***************************************************************************)
EXTENDS Integers, Sequences, SequencesExt

CONSTANTS
    TcpClients,   \* processes that run client.c
    TcpLines,     \* the lines that users type, as sequences of characters
    QuitWord,     \* stands for the first four characters of "quit" and "exit"
    BUF_SIZE,     \* bytes of the server's buffer, more than in any line
    MaxTyped      \* bound: bytes that one client sends before its last line

ASSUME TcpAssumption == BUF_SIZE \in Nat /\ TcpLines \subseteq Seq(STRING)

VARIABLES
    tcpServer,    \* "down", "accept", "recv", "send" or, by SIGPIPE, "killed"
    serving,      \* the client of the connection that is served, or {}
    tcpBuf,       \* the server's buffer
    recvlen,      \* bytes of the last receive
    backlog,      \* connections that wait for accept
    client,       \* what each client does
    typed,        \* all bytes that each client has sent
    up, down,     \* bytes on their way to the server and to the client
    got           \* all bytes that each client has received

tcpVars == <<tcpServer, serving, tcpBuf, recvlen, backlog, client, typed, up, down, got>>
links == <<typed, up, down, got>>

TcpInit ==
    /\ tcpServer = "down" /\ serving = {} /\ recvlen = 0 /\ backlog = <<>>
    /\ tcpBuf = [i \in 1 .. BUF_SIZE |-> "0"]
    /\ client = [c \in TcpClients |-> [at |-> "start", line |-> <<>>, hungUp |-> FALSE]]
    /\ typed = [c \in TcpClients |-> <<>>] /\ up = typed /\ down = typed /\ got = typed

StartsWithQuit(text) == IsPrefix(QuitWord, text)

-----------------------------------------------------------------------------
(* The server; when it cannot bind or listen it stays down.                  *)
Listen == tcpServer = "down" /\ tcpServer' = "accept" /\ UNCHANGED <<serving, tcpBuf, recvlen, backlog, client, links>>

Accept ==
    /\ tcpServer = "accept" /\ backlog # <<>>
    /\ serving' = {Head(backlog)} /\ backlog' = Tail(backlog) /\ tcpServer' = "recv"
    /\ UNCHANGED <<tcpBuf, recvlen, client, links>>

CloseConnection ==
    /\ serving' = {} /\ tcpServer' = "accept"
    /\ client' = [c \in TcpClients |-> [client[c] EXCEPT !.hungUp = @ \/ c \in serving]]

(* Only the first bytes of the buffer are overwritten, but quit is compared  *)
(* with the whole of it.                                                     *)
Recv(c) ==
    /\ tcpServer = "recv" /\ c \in serving
    /\ \E n \in 1 .. BUF_SIZE :
         /\ n <= Len(up[c]) /\ recvlen' = n
         /\ tcpBuf' = [i \in 1 .. BUF_SIZE |-> IF i <= n THEN up[c][i] ELSE tcpBuf[i]]
         /\ up' = [up EXCEPT ![c] = SubSeq(@, n + 1, Len(@))]
    /\ IF StartsWithQuit(tcpBuf') THEN CloseConnection
       ELSE tcpServer' = "send" /\ UNCHANGED <<serving, client>>
    /\ UNCHANGED <<backlog, typed, down, got>>

RecvEnd(c) ==
    /\ tcpServer = "recv" /\ c \in serving /\ up[c] = <<>> /\ client[c].at = "done"
    /\ CloseConnection /\ UNCHANGED <<tcpBuf, recvlen, backlog, links>>

(* To a client that has closed, the first send is answered by a reset; the   *)
(* next one raises SIGPIPE, which the server does not handle.                *)
TcpSendFaulty(c) ==
    LET strlen == Len(SelectSeq(tcpBuf, LAMBDA b : b # "0"))
    IN  /\ tcpServer = "send" /\ c \in serving /\ client[c].at # "done"
        /\ down' = [down EXCEPT ![c] = @ \o SubSeq(tcpBuf, 1, strlen)]
        /\ tcpServer' = "recv" /\ UNCHANGED <<serving, tcpBuf, recvlen, backlog, client, typed, up, got>>
TcpSend(c) ==
    /\ tcpServer = "send" /\ c \in serving /\ client[c].at # "done"
    /\ down' = [down EXCEPT ![c] = @ \o SubSeq(tcpBuf, 1, recvlen)]
    /\ tcpServer' = "recv" /\ UNCHANGED <<serving, tcpBuf, recvlen, backlog, client, typed, up, got>>

SendToClosed(c) ==
    /\ tcpServer = "send" /\ c \in serving /\ client[c].at = "done"
    /\ \/ ~client[c].hungUp /\ tcpServer' = "recv"
          /\ client' = [client EXCEPT ![c].hungUp = TRUE] /\ UNCHANGED serving
       \/ CloseConnection
       \/ client[c].hungUp /\ tcpServer' = "killed" /\ UNCHANGED <<serving, client>>
    /\ UNCHANGED <<tcpBuf, recvlen, backlog, links>>

-----------------------------------------------------------------------------
(* The client.                                                               *)
Connect(c) ==
    /\ client[c].at = "start"
    /\ \/ tcpServer \notin {"down", "killed"}
          /\ client' = [client EXCEPT ![c].at = "typing"] /\ backlog' = Append(backlog, c)
       \/ tcpServer \in {"down", "killed"}
          /\ client' = [client EXCEPT ![c].at = "done"] /\ UNCHANGED backlog
    /\ UNCHANGED <<tcpServer, serving, tcpBuf, recvlen, links>>

(* At the end of its input fgets leaves the buffer alone: the last line is   *)
(* sent again, or nothing.  A send on a connection that the server closed    *)
(* may be lost or end the client.                                            *)
Type(c) ==
    /\ client[c].at = "typing" /\ Len(typed[c]) <= MaxTyped
    /\ \E line \in TcpLines \cup {client[c].line} :
         \/ /\ typed' = [typed EXCEPT ![c] = @ \o line]
            /\ up' = IF client[c].hungUp THEN up ELSE [up EXCEPT ![c] = @ \o line]
            /\ client' = [client EXCEPT ![c].line = line,
                                        ![c].at = IF StartsWithQuit(line) THEN "done" ELSE "waiting"]
         \/ client[c].hungUp /\ client' = [client EXCEPT ![c].at = "done"] /\ UNCHANGED <<typed, up>>
    /\ UNCHANGED <<tcpServer, serving, tcpBuf, recvlen, backlog, down, got>>

Receive(c) ==
    /\ client[c].at = "waiting"
    /\ \/ /\ down[c] # <<>>
          /\ \E n \in 1 .. Len(down[c]) :
               got' = [got EXCEPT ![c] = @ \o SubSeq(down[c], 1, n)]
               /\ down' = [down EXCEPT ![c] = SubSeq(@, n + 1, Len(@))]
          /\ client' = [client EXCEPT ![c].at = "typing"]
       \/ /\ down[c] = <<>> /\ (client[c].hungUp \/ tcpServer = "killed")
          /\ \E at \in {"typing", "done"} : client' = [client EXCEPT ![c].at = at]
          /\ UNCHANGED <<down, got>>
    /\ UNCHANGED <<tcpServer, serving, tcpBuf, recvlen, backlog, typed, up>>

TcpNext ==
    \/ Listen \/ Accept
    \/ \E c \in TcpClients :
          \/ Recv(c) \/ RecvEnd(c) \/ TcpSend(c) \/ SendToClosed(c)
          \/ Connect(c) \/ Type(c) \/ Receive(c)

TcpSpec == TcpInit /\ [][TcpNext]_tcpVars

-----------------------------------------------------------------------------
(* What a client receives is what it has sent so far, in order, and nothing  *)
(* of an older line or of another client, although the buffer is shared and  *)
(* never cleared (server_blocked.c:93 sends as many bytes as it received).   *)
EchoIsOwn == \A c \in TcpClients : IsPrefix(got[c] \o down[c], typed[c])
=============================================================================
