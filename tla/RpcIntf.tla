------------------------------ MODULE RpcIntf ------------------------------
(***************************************************************************)
(* rpc_intf: clients send the commands 0 .. 0xF over UDP, one at a time,   *)
(* and wait without a timeout for a datagram after each; the server answers*)
(* whatever it receives.  Both ignore what rpc_intf_sendto and             *)
(* rpc_intf_recvfrom return, so a bad datagram leaves the old message in   *)
(* place and the program goes on with it.                                  *)
(*                                                                         *)
(* All messages the clients build have data_len 0.  A datagram is its      *)
(* command, its direction, its client, whether its checksum is right and   *)
(* whether it carries data of a length nobody set ("wild"): that is what   *)
(* the server sends if it goes on with an rq it has never received.        *)
(*                                                                         *)
(* An operator whose name ends in Faulty is its neighbour with a plausible *)
(* slip in it; no behaviour uses it.                                       *)
(***************************************************************************)
EXTENDS Naturals, FiniteSets, Bags

CONSTANTS
    Clients,
    LastCmd,       \* 0xF in client.c
    Known,         \* the commands of rpc_cmd_list
    MaxLost, MaxDuplicated, MaxCorrupted  \* bounds: what the network does

ASSUME CmdAssumption == LastCmd \in Nat /\ Known \subseteq 0 .. LastCmd
ASSUME ClientsAssumption == IsFiniteSet(Clients)
ASSUME BoundAssumption == MaxLost \in Nat /\ MaxDuplicated \in Nat /\ MaxCorrupted \in Nat

Cmds == 0 .. LastCmd
Messages == [cmd : Cmds, wild : BOOLEAN]
Datagrams == [rqrs : {"request", "response"}, msg : Messages, client : Clients, good : BOOLEAN]

VARIABLES
    round,    \* each client's loop counter i
    cpc,      \* each client: about to send, in recv, out of the loop, or crashed
    got,      \* history: the message each client took in each round, as a set
    net,      \* the datagrams under way, a bag
    up,       \* the server runs
    rq,       \* the server's rq: its last good request
    addrlen,  \* clientaddr.len, uninitialised until a recvfrom has set it
    ran,      \* history: how often the function of each command was called
    faults    \* what the network has done so far

client == <<round, cpc, got>>
server == <<up, rq, addrlen, ran>>
vars == <<client, net, server, faults>>

TypeOK ==
    /\ round \in [Clients -> Cmds]
    /\ cpc \in [Clients -> {"send", "recv", "done", "crashed"}]
    /\ got \in [Clients -> [Cmds -> SUBSET Messages]]
    /\ IsABag(net) /\ DOMAIN net \subseteq Datagrams
    /\ up \in BOOLEAN
    /\ rq \in Messages
    /\ addrlen \in {"enough", "short", "invalid"}
    /\ ran \in [Known -> Nat]
    /\ faults \in [lost : 0 .. MaxLost, dup : 0 .. MaxDuplicated, bad : 0 .. MaxCorrupted]

(* rq and clientaddr are uninitialised locals of main in server.c. *)
Init ==
    /\ round = [c \in Clients |-> 0]
    /\ cpc = [c \in Clients |-> "send"]
    /\ got = [c \in Clients |-> [i \in Cmds |-> {}]]
    /\ net = EmptyBag
    /\ up = TRUE
    /\ rq \in Messages
    /\ addrlen \in {"enough", "short", "invalid"}
    /\ ran = [i \in Known |-> 0]
    /\ faults = [lost |-> 0, dup |-> 0, bad |-> 0]

-----------------------------------------------------------------------------
(* rpc_intf_sendto and rpc_intf_recvfrom on the network. *)
Send(d) == net' = net (+) SetToBag({d})
Take(d) == net' = net (-) SetToBag({d})
InFlight(kind) == {d \in BagToSet(net) : d.rqrs = kind}

(* One turn of the loop in client.c, up to the blocking recv. *)
ClientSend(c) ==
    /\ cpc[c] = "send"
    /\ Send([rqrs |-> "request", msg |-> [cmd |-> round[c], wild |-> FALSE],
             client |-> c, good |-> TRUE])
    /\ cpc' = [cpc EXCEPT ![c] = "recv"]
    /\ UNCHANGED <<round, got, server, faults>>

(* The loop goes on whatever arrives: an answer with a bad checksum leaves   *)
(* msg as it was.                                                            *)
NextRoundFaulty(c) ==
    /\ round' = [round EXCEPT ![c] = @ + 1]
    /\ cpc' = [cpc EXCEPT ![c] = IF round[c] = LastCmd + 1 THEN "done" ELSE "send"]
NextRound(c) ==
    /\ round' = [round EXCEPT ![c] = IF @ = LastCmd THEN @ ELSE @ + 1]
    /\ cpc' = [cpc EXCEPT ![c] = IF round[c] = LastCmd THEN "done" ELSE "send"]

(* Data of a wild length is copied to msg.data, which client.c never sets.   *)
ClientCrash(c) ==
    /\ cpc' = [cpc EXCEPT ![c] = "crashed"]
    /\ UNCHANGED round

ClientRecvFaulty(c) ==
    /\ cpc[c] = "recv"
    /\ \/ \E d \in InFlight("response") :
              /\ d.client = c
              /\ Take(d)
              /\ got' = [got EXCEPT ![c][round[c]] = {d.msg}]
              /\ NextRound(c) \/ (d.good /\ d.msg.wild /\ ClientCrash(c))
       \/ UNCHANGED <<net, got>> /\ NextRound(c)
    /\ UNCHANGED <<server, faults>>
ClientRecv(c) ==
    /\ cpc[c] = "recv"
    /\ \E d \in InFlight("response") :
        /\ d.client = c
        /\ Take(d)
        /\ got' = [got EXCEPT ![c][round[c]] = IF d.good THEN {d.msg} ELSE {}]
        /\ NextRound(c) \/ (d.good /\ d.msg.wild /\ ClientCrash(c))
    /\ UNCHANGED <<server, faults>>

-----------------------------------------------------------------------------
(* server.c *)

(* rpc_cmd_run: the entry of the list with this command. *)
rpc_cmd_runFaulty(i) == ran' = [n \in Known |-> IF n >= i THEN ran[n] + 1 ELSE ran[n]]
rpc_cmd_run(i) == ran' = [n \in Known |-> IF n = i THEN ran[n] + 1 ELSE ran[n]]

(* rq after rpc_intf_recvfrom of d: the new request, or what was there. *)
ReceivedFaulty(d) == IF d.good THEN rq ELSE d.msg
Received(d) == IF d.good /\ addrlen # "invalid" THEN d.msg ELSE rq

Reply(d) == [rqrs |-> "response", msg |-> Received(d), client |-> d.client, good |-> TRUE]

(* One turn of the loop, with the command run even if the receive failed.    *)
(* The answer goes to the address that recvfrom has stored: nowhere if its   *)
(* length was too small, and with a negative length both calls fail, though  *)
(* the datagram is gone.  Copying data of a wild length may crash.           *)
AnswerOrCrashFaulty(d) ==
    /\ net' = IF addrlen = "enough" /\ Received(d).cmd \in Known
              THEN (net (-) SetToBag({d})) (+) SetToBag({Reply(d)})
              ELSE net (-) SetToBag({d})
    /\ UNCHANGED up
AnswerOrCrash(d) ==
    \/ /\ net' = IF addrlen = "enough"
                 THEN (net (-) SetToBag({d})) (+) SetToBag({Reply(d)})
                 ELSE net (-) SetToBag({d})
       /\ UNCHANGED up
    \/ /\ Received(d).wild
       /\ up' = FALSE
       /\ Take(d)

ServerTurn(d) ==
    /\ up
    /\ rq' = Received(d)
    /\ rpc_cmd_run(Received(d).cmd)
    /\ AnswerOrCrash(d)
    /\ addrlen' = IF addrlen = "short" THEN "enough" ELSE addrlen
    /\ UNCHANGED <<client, faults>>

-----------------------------------------------------------------------------
(* UDP. *)
Lose(d) ==
    /\ faults.lost < MaxLost
    /\ Take(d)
    /\ faults' = [faults EXCEPT !.lost = @ + 1]
    /\ UNCHANGED <<client, server>>

Duplicate(d) ==
    /\ faults.dup < MaxDuplicated
    /\ Send(d)
    /\ faults' = [faults EXCEPT !.dup = @ + 1]
    /\ UNCHANGED <<client, server>>

Corrupt(d) ==
    /\ d.good /\ faults.bad < MaxCorrupted
    /\ net' = (net (-) SetToBag({d})) (+) SetToBag({[d EXCEPT !.good = FALSE]})
    /\ faults' = [faults EXCEPT !.bad = @ + 1]
    /\ UNCHANGED <<client, server>>

Server == \E d \in InFlight("request") : ServerTurn(d)
Network == \E d \in BagToSet(net) : Lose(d) \/ Duplicate(d) \/ Corrupt(d)
AllDone == \A c \in Clients : cpc[c] = "done"

Next ==
    \/ \E c \in Clients : ClientSend(c) \/ ClientRecv(c)
    \/ Server
    \/ Network

Spec == Init /\ [][Next]_vars

(* The programs run; the network has to do nothing wrong. *)
FairSpec == /\ Spec
            /\ \A c \in Clients : WF_vars(ClientSend(c)) /\ WF_vars(ClientRecv(c))
            /\ WF_vars(Server)

-----------------------------------------------------------------------------
(* Properties.                                                               *)

(* Nothing in the protocol relates an answer to its request.  The answers    *)
(* stay in step because the client waits for each: lost datagrams, other     *)
(* clients and reordering cannot put them out of step, only a duplicate or a *)
(* corrupted datagram can.                                                   *)
AnswersInStep ==
    faults.dup = 0 /\ faults.bad = 0 =>
        \A c \in Clients, i \in Cmds : got[c][i] \subseteq {[cmd |-> i, wild |-> FALSE]}

(* The server keeps clients apart ("need to distinguish the message from     *)
(* which client and to which client", rpc_intf.c:30): unless a datagram was  *)
(* corrupted, an answer on its way to a client is about a command that this  *)
(* client has sent.                                                          *)
HasSent(c, i) == i < round[c] \/ (i = round[c] /\ cpc[c] # "send")
RepliesToAsker ==
    faults.bad = 0 => \A d \in InFlight("response") : HasSent(d.client, d.msg.cmd)

(* The server runs a command once for each time it was sent, and once more   *)
(* at most for each duplicate and for each datagram that made it go on with  *)
(* an old or uninitialised request; with an unusable clientaddr.len that is  *)
(* every datagram.                                                           *)
RunsBounded ==
    addrlen # "invalid" =>
        \A i \in Known :
            ran[i] <= Cardinality({c \in Clients : HasSent(c, i)}) + faults.dup + faults.bad

(* The clients get through their loop unless a datagram was lost,            *)
(* clientaddr.len happened to start too small, or, after a corrupted         *)
(* datagram, a program crashed on uninitialised data: there is no timeout.   *)
Crashed == ~up \/ \E c \in Clients : cpc[c] = "crashed"
Finishes == addrlen = "enough" => <>(AllDone \/ faults.lost > 0 \/ (faults.bad > 0 /\ Crashed))
=============================================================================
