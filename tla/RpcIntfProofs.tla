---------------------------- MODULE RpcIntfProofs ----------------------------
(***************************************************************************)
(* Proofs about RpcIntf, for any number of clients and commands and any    *)
(* faults of the network.                                                  *)
(***************************************************************************)
EXTENDS RpcIntf, FiniteSetTheorems, TLAPS

-----------------------------------------------------------------------------
(* The copies in a bag, told apart by numbers, so that they can be counted   *)
(* as a set is.                                                              *)
Copies(B) == {t \in Datagrams \X Nat : t[1] \in DOMAIN B /\ t[2] \in 1 .. B[t[1]]}

(* The number that a further copy of d gets.                                 *)
NewCopy(B, d) == IF d \in DOMAIN B THEN B[d] + 1 ELSE 1

LEMMA CopiesMembers ==
    ASSUME NEW B
    PROVE  /\ Copies(B) \subseteq Datagrams \X Nat
           /\ \A e \in Datagrams, n \in Nat : <<e, n>> \in Copies(B) <=> e \in DOMAIN B /\ n \in 1 .. B[e]
BY DEF Copies

LEMMA PairsEqual ==
    ASSUME NEW S, NEW T, S \subseteq Datagrams \X Nat, T \subseteq Datagrams \X Nat,
           \A e \in Datagrams, n \in Nat : <<e, n>> \in S <=> <<e, n>> \in T
    PROVE  S = T
<1>1. ASSUME NEW t \in Datagrams \X Nat PROVE t \in S <=> t \in T
    <2>1. PICK e \in Datagrams, n \in Nat : t = <<e, n>>
        BY <1>1
    <2>2. QED
        BY <2>1
<1>2. QED
    BY <1>1

LEMMA BagAdd ==
    ASSUME NEW B, IsABag(B), DOMAIN B \subseteq Datagrams, NEW d \in Datagrams,
           NEW C, C = B (+) SetToBag({d})
    PROVE  /\ IsABag(C) /\ DOMAIN C = DOMAIN B \cup {d}
           /\ \A e \in DOMAIN C : C[e] = IF e = d THEN NewCopy(B, d) ELSE B[e]
           /\ Copies(C) = Copies(B) \cup {<<d, NewCopy(B, d)>>}
           /\ <<d, NewCopy(B, d)>> \notin Copies(B)
<1>1. B \in [DOMAIN B -> {n \in Nat : n > 0}]
    BY DEF IsABag
<1>2. C = [e \in DOMAIN B \cup {d} |-> (IF e \in DOMAIN B THEN B[e] ELSE 0) + (IF e \in {d} THEN 1 ELSE 0)]
    BY DEF (+), SetToBag
<1>3. DOMAIN C = DOMAIN B \cup {d} /\ \A e \in DOMAIN C : C[e] = IF e = d THEN NewCopy(B, d) ELSE B[e]
    <2>1. DOMAIN C = DOMAIN B \cup {d}
        BY <1>2
    <2>2. ASSUME NEW e \in DOMAIN C, e = d PROVE C[e] = NewCopy(B, d)
        <3>1. C[e] = (IF e \in DOMAIN B THEN B[e] ELSE 0) + 1
            BY <1>2, <2>1, <2>2
        <3>2. QED
            BY <3>1, <2>2 DEF NewCopy
    <2>3. ASSUME NEW e \in DOMAIN C, e # d PROVE C[e] = B[e]
        <3>1. e \in DOMAIN B /\ B[e] \in Nat
            BY <1>1, <2>1, <2>3
        <3>2. C[e] = B[e] + 0
            BY <1>2, <2>1, <2>3, <3>1
        <3>3. QED
            BY <3>1, <3>2
    <2>4. QED
        BY <2>1, <2>2, <2>3
<1>4. \A e \in DOMAIN C : C[e] \in {n \in Nat : n > 0}
    BY <1>1, <1>3 DEF NewCopy
<1>5. IsABag(C)
    BY <1>2, <1>3, <1>4 DEF IsABag
<1>6. <<d, NewCopy(B, d)>> \notin Copies(B)
    BY <1>1 DEF NewCopy, Copies
<1>7. Copies(C) = Copies(B) \cup {<<d, NewCopy(B, d)>>}
    <2> DEFINE m == NewCopy(B, d)
    <2>1. m \in Nat \ {0}
        BY <1>1 DEF NewCopy
    <2>2. ASSUME NEW e \in Datagrams, NEW n \in Nat
          PROVE  <<e, n>> \in Copies(C) <=> <<e, n>> \in Copies(B) \cup {<<d, m>>}
        <3>1. CASE e # d
            BY <1>3, <3>1, CopiesMembers
        <3>2. CASE e = d /\ d \in DOMAIN B
            <4>1. C[d] = B[d] + 1 /\ B[d] \in Nat /\ m = B[d] + 1
                BY <1>1, <1>3, <3>2 DEF NewCopy
            <4>2. QED
                BY <1>3, <3>2, <4>1, CopiesMembers
        <3>3. CASE e = d /\ d \notin DOMAIN B
            <4>1. C[d] = 1 /\ m = 1
                BY <1>3, <3>3 DEF NewCopy
            <4>2. QED
                BY <1>3, <3>3, <4>1, CopiesMembers
        <3>4. QED
            BY <3>1, <3>2, <3>3
    <2>3. Copies(C) \subseteq Datagrams \X Nat /\ Copies(B) \cup {<<d, m>>} \subseteq Datagrams \X Nat
        BY <2>1, CopiesMembers
    <2>4. QED
        BY <2>2, <2>3, PairsEqual
<1>8. QED
    BY <1>3, <1>5, <1>6, <1>7

LEMMA BagTake ==
    ASSUME NEW B, IsABag(B), DOMAIN B \subseteq Datagrams, NEW d \in DOMAIN B,
           NEW C, C = B (-) SetToBag({d})
    PROVE  /\ IsABag(C) /\ DOMAIN C = IF B[d] = 1 THEN DOMAIN B \ {d} ELSE DOMAIN B
           /\ \A e \in DOMAIN C : C[e] = IF e = d THEN B[e] - 1 ELSE B[e]
           /\ Copies(C) = Copies(B) \ {<<d, B[d]>>}
           /\ <<d, B[d]>> \in Copies(B)
<1>1. B \in [DOMAIN B -> {n \in Nat : n > 0}]
    BY DEF IsABag
<1> DEFINE D == [e \in DOMAIN B |-> IF e \in {d} THEN B[e] - 1 ELSE B[e]]
<1>2. C = [e \in {f \in DOMAIN D : D[f] > 0} |-> D[e]]
    BY DEF (-), SetToBag
<1>3. DOMAIN C = {e \in DOMAIN B : e # d \/ B[e] > 1}
    <2>1. \A e \in DOMAIN B : B[e] \in Nat /\ B[e] > 0 /\ D[e] = IF e = d THEN B[e] - 1 ELSE B[e]
        BY <1>1
    <2>2. \A e \in DOMAIN B : D[e] > 0 <=> e # d \/ B[e] > 1
        BY <2>1
    <2>3. QED
        BY <1>2, <2>2
<1>4. \A e \in DOMAIN C : C[e] = IF e = d THEN B[e] - 1 ELSE B[e]
    BY <1>1, <1>2
<1>5. IsABag(C)
    BY <1>1, <1>2, <1>3, <1>4 DEF IsABag
<1>6. DOMAIN C = IF B[d] = 1 THEN DOMAIN B \ {d} ELSE DOMAIN B
    BY <1>1, <1>3
<1>7. Copies(C) = Copies(B) \ {<<d, B[d]>>} /\ <<d, B[d]>> \in Copies(B)
    <2>1. ASSUME NEW e \in Datagrams, NEW n \in Nat
          PROVE  <<e, n>> \in Copies(C) <=> <<e, n>> \in Copies(B) \ {<<d, B[d]>>}
        <3>1. CASE e # d
            BY <1>3, <1>4, <3>1, CopiesMembers
        <3>2. CASE e = d
            <4>1. B[d] \in Nat /\ B[d] > 0 /\ (d \in DOMAIN C <=> B[d] > 1)
                BY <1>1, <1>3
            <4>2. d \in DOMAIN C => C[d] = B[d] - 1
                BY <1>4
            <4>3. <<d, n>> \in Copies(B) <=> n \in 1 .. B[d]
                BY CopiesMembers
            <4>4. <<d, n>> \in Copies(C) <=> d \in DOMAIN C /\ n \in 1 .. C[d]
                BY CopiesMembers
            <4>5. QED
                BY <3>2, <4>1, <4>2, <4>3, <4>4
        <3>3. QED
            BY <3>1, <3>2
    <2>2. Copies(C) \subseteq Datagrams \X Nat /\ Copies(B) \ {<<d, B[d]>>} \subseteq Datagrams \X Nat
        BY CopiesMembers
    <2>3. B[d] \in Nat /\ B[d] > 0
        BY <1>1
    <2>4. QED
        <3>1. <<d, B[d]>> \in Copies(B)
            BY <2>3, CopiesMembers
        <3> DEFINE S == Copies(C)
                   T == Copies(B) \ {<<d, B[d]>>}
        <3>2. S = T
            <4> HIDE DEF S, T
            <4>1. QED
                BY <2>1, <2>2, PairsEqual DEF S, T
        <3>3. QED
            BY <3>1, <3>2
<1>8. QED
    BY <1>4, <1>5, <1>6, <1>7

-----------------------------------------------------------------------------
(* The shape of the state.                                                   *)
LEMMA TypeInit == Init => TypeOK
<1> SUFFICES ASSUME Init PROVE TypeOK
    OBVIOUS
<1>1. IsABag(net) /\ DOMAIN net \subseteq Datagrams
    BY DEF Init, EmptyBag, SetToBag, IsABag
<1>2. faults \in [lost : 0 .. MaxLost, dup : 0 .. MaxDuplicated, bad : 0 .. MaxCorrupted]
    BY BoundAssumption DEF Init
<1>3. QED
    BY <1>1, <1>2, CmdAssumption DEF Init, TypeOK, Cmds

(* What the server is left with after a datagram is a message.               *)
LEMMA ReceivedType ==
    ASSUME TypeOK, NEW d \in Datagrams
    PROVE  Received(d) \in Messages /\ Reply(d) \in Datagrams
BY DEF TypeOK, Received, Reply, Datagrams

(* What becomes of the bag when one datagram is replaced by another.         *)
LEMMA Replaced ==
    ASSUME IsABag(net), DOMAIN net \subseteq Datagrams, NEW d \in DOMAIN net, NEW e \in Datagrams,
           net' = (net (-) SetToBag({d})) (+) SetToBag({e})
    PROVE  /\ IsABag(net') /\ DOMAIN net' \subseteq Datagrams
           /\ DOMAIN net' = (IF net[d] = 1 THEN DOMAIN net \ {d} ELSE DOMAIN net) \cup {e}
           /\ \A f \in DOMAIN net' : f \notin {d, e} => net'[f] = net[f]
           /\ net[d] = 1 /\ (e = d \/ e \notin DOMAIN net) => net'[e] = 1
           /\ \E k \in Nat : /\ Copies(net') = (Copies(net) \ {<<d, net[d]>>}) \cup {<<e, k>>}
                            /\ <<e, k>> \notin Copies(net) \ {<<d, net[d]>>}
           /\ <<d, net[d]>> \in Copies(net)
<1> DEFINE M == net (-) SetToBag({d})
<1>1. /\ IsABag(M) /\ DOMAIN M = IF net[d] = 1 THEN DOMAIN net \ {d} ELSE DOMAIN net
      /\ \A f \in DOMAIN M : M[f] = IF f = d THEN net[f] - 1 ELSE net[f]
      /\ Copies(M) = Copies(net) \ {<<d, net[d]>>}
      /\ <<d, net[d]>> \in Copies(net)
    BY BagTake
<1> HIDE DEF M
<1>2. net' = M (+) SetToBag({e})
    BY DEF M
<1>3. /\ IsABag(net') /\ DOMAIN net' = DOMAIN M \cup {e}
      /\ \A f \in DOMAIN net' : net'[f] = IF f = e THEN NewCopy(M, e) ELSE M[f]
      /\ Copies(net') = Copies(M) \cup {<<e, NewCopy(M, e)>>}
      /\ <<e, NewCopy(M, e)>> \notin Copies(M)
    BY <1>1, <1>2, BagAdd
<1>4. NewCopy(M, e) \in Nat
    BY <1>1 DEF NewCopy, IsABag
<1>5. net[d] = 1 /\ (e = d \/ e \notin DOMAIN net) => net'[e] = 1
    BY <1>1, <1>3 DEF NewCopy
<1>6. \A f \in DOMAIN net' : f \notin {d, e} => net'[f] = net[f]
    BY <1>1, <1>3
<1>7. QED
    BY <1>1, <1>3, <1>4, <1>5, <1>6

LEMMA ReplacedDomain ==
    ASSUME IsABag(net), DOMAIN net \subseteq Datagrams, NEW d \in DOMAIN net, NEW e \in Datagrams,
           net' = (net (-) SetToBag({d})) (+) SetToBag({e})
    PROVE  DOMAIN net' = (IF net[d] = 1 THEN DOMAIN net \ {d} ELSE DOMAIN net) \cup {e}
BY Replaced

(* The same when there was one copy of it and is none of the other.          *)
LEMMA ReplacedSingle ==
    ASSUME IsABag(net), DOMAIN net \subseteq Datagrams, NEW d \in DOMAIN net, NEW e \in Datagrams,
           net' = (net (-) SetToBag({d})) (+) SetToBag({e}), net[d] = 1, e = d \/ e \notin DOMAIN net
    PROVE  /\ DOMAIN net' = (DOMAIN net \ {d}) \cup {e} /\ net'[e] = 1
           /\ \A f \in DOMAIN net' : f \notin {d, e} => net'[f] = net[f]
BY Replaced

(* The same, as far as the copies go.                                        *)
LEMMA ReplacedCopies ==
    ASSUME IsABag(net), DOMAIN net \subseteq Datagrams, NEW d \in DOMAIN net, NEW e \in Datagrams,
           net' = (net (-) SetToBag({d})) (+) SetToBag({e})
    PROVE  /\ <<d, net[d]>> \in Copies(net)
           /\ \E k \in Nat : /\ Copies(net') = (Copies(net) \ {<<d, net[d]>>}) \cup {<<e, k>>}
                            /\ <<e, k>> \notin Copies(net) \ {<<d, net[d]>>}
BY Replaced

LEMMA Sent ==
    ASSUME IsABag(net), DOMAIN net \subseteq Datagrams, NEW d \in Datagrams, Send(d)
    PROVE  /\ IsABag(net') /\ DOMAIN net' = DOMAIN net \cup {d} /\ DOMAIN net' \subseteq Datagrams
           /\ \A e \in DOMAIN net' : e # d => net'[e] = net[e]
           /\ d \notin DOMAIN net => net'[d] = 1
           /\ \E k \in Nat : Copies(net') = Copies(net) \cup {<<d, k>>} /\ <<d, k>> \notin Copies(net)
<1> DEFINE C == net (+) SetToBag({d})
<1>1. /\ IsABag(C) /\ DOMAIN C = DOMAIN net \cup {d}
      /\ \A e \in DOMAIN C : C[e] = IF e = d THEN NewCopy(net, d) ELSE net[e]
      /\ Copies(C) = Copies(net) \cup {<<d, NewCopy(net, d)>>}
      /\ <<d, NewCopy(net, d)>> \notin Copies(net)
    BY BagAdd
<1>2. net' = C
    BY DEF Send
<1> HIDE DEF C
<1>3. NewCopy(net, d) \in Nat
    BY DEF NewCopy, IsABag
<1>4. d \notin DOMAIN net => NewCopy(net, d) = 1
    BY DEF NewCopy
<1>5. QED
    BY <1>1, <1>2, <1>3, <1>4

LEMMA Taken ==
    ASSUME IsABag(net), DOMAIN net \subseteq Datagrams, NEW d \in DOMAIN net, Take(d)
    PROVE  /\ IsABag(net') /\ DOMAIN net' = IF net[d] = 1 THEN DOMAIN net \ {d} ELSE DOMAIN net
           /\ DOMAIN net' \subseteq Datagrams
           /\ \A e \in DOMAIN net' : e # d => net'[e] = net[e]
           /\ Copies(net') = Copies(net) \ {<<d, net[d]>>} /\ <<d, net[d]>> \in Copies(net)
           /\ net[d] \in Nat
<1>1. net' = net (-) SetToBag({d})
    BY DEF Take
<1>2. /\ IsABag(net') /\ DOMAIN net' = IF net[d] = 1 THEN DOMAIN net \ {d} ELSE DOMAIN net
      /\ \A e \in DOMAIN net' : net'[e] = IF e = d THEN net[e] - 1 ELSE net[e]
      /\ Copies(net') = Copies(net) \ {<<d, net[d]>>} /\ <<d, net[d]>> \in Copies(net)
    BY <1>1, BagTake
<1>3. net[d] \in Nat
    BY DEF IsABag
<1>4. QED
    BY <1>2, <1>3

LEMMA TypeStep == TypeOK /\ [Next]_vars => TypeOK'
<1> SUFFICES ASSUME TypeOK, [Next]_vars PROVE TypeOK'
    OBVIOUS
<1> USE CmdAssumption, BoundAssumption DEF TypeOK
<1>1. CASE UNCHANGED vars
    BY <1>1 DEF vars, client, server
<1>2. ASSUME NEW c \in Clients, ClientSend(c) PROVE TypeOK'
    <2> DEFINE d == [rqrs |-> "request", msg |-> [cmd |-> round[c], wild |-> FALSE], client |-> c, good |-> TRUE]
    <2>1. d \in Datagrams /\ Send(d)
        BY <1>2 DEF ClientSend, Datagrams, Messages
    <2>2. IsABag(net') /\ DOMAIN net' \subseteq Datagrams
        <3> HIDE DEF d
        <3>1. QED
            BY <2>1, Sent
    <2>3. QED
        BY <1>2, <2>2 DEF ClientSend, server
<1>3. ASSUME NEW c \in Clients, ClientRecv(c) PROVE TypeOK'
    <2>1. PICK d \in DOMAIN net :
              /\ Take(d)
              /\ got' = [got EXCEPT ![c][round[c]] = IF d.good THEN {d.msg} ELSE {}]
              /\ NextRound(c) \/ ClientCrash(c)
        BY <1>3 DEF ClientRecv, InFlight, BagToSet
    <2>2. IsABag(net') /\ DOMAIN net' \subseteq Datagrams
        BY <2>1, Taken
    <2>3. d.msg \in Messages
        BY DEF Datagrams
    <2>4. got' \in [Clients -> [Cmds -> SUBSET Messages]]
        BY <2>1, <2>3
    <2>5. round' \in [Clients -> Cmds]
        <3>1. round[c] # LastCmd => round[c] + 1 \in Cmds
            BY DEF Cmds
        <3>2. QED
            BY <2>1, <3>1 DEF NextRound, ClientCrash
    <2>6. cpc' \in [Clients -> {"send", "recv", "done", "crashed"}]
        BY <2>1 DEF NextRound, ClientCrash
    <2>7. QED
        BY <1>3, <2>2, <2>4, <2>5, <2>6 DEF ClientRecv, server
<1>4. ASSUME NEW d \in InFlight("request"), ServerTurn(d) PROVE TypeOK'
    <2>1. d \in DOMAIN net
        BY DEF InFlight, BagToSet
    <2>2. Received(d) \in Messages /\ Reply(d) \in Datagrams
        BY <2>1, ReceivedType
    <2>3. IsABag(net') /\ DOMAIN net' \subseteq Datagrams
        <3>1. CASE Take(d)
            BY <2>1, <3>1, Taken
        <3>2. CASE net' = (net (-) SetToBag({d})) (+) SetToBag({Reply(d)})
            BY <2>1, <2>2, <3>2, Replaced
        <3>3. QED
            BY <1>4, <3>1, <3>2 DEF ServerTurn, AnswerOrCrash, Take
    <2>4. ran' \in [Known -> Nat]
        BY <1>4 DEF ServerTurn, rpc_cmd_run
    <2>5. up' \in BOOLEAN
        BY <1>4 DEF ServerTurn, AnswerOrCrash
    <2>6. QED
        BY <1>4, <2>2, <2>3, <2>4, <2>5 DEF ServerTurn, client
<1>5. ASSUME NEW d \in BagToSet(net), Lose(d) PROVE TypeOK'
    <2>1. IsABag(net') /\ DOMAIN net' \subseteq Datagrams
        BY <1>5, Taken DEF Lose, BagToSet
    <2>2. QED
        BY <1>5, <2>1 DEF Lose, client, server
<1>6. ASSUME NEW d \in BagToSet(net), Duplicate(d) PROVE TypeOK'
    <2>1. IsABag(net') /\ DOMAIN net' \subseteq Datagrams
        BY <1>6, Sent DEF Duplicate, BagToSet
    <2>2. QED
        BY <1>6, <2>1 DEF Duplicate, client, server
<1>7. ASSUME NEW d \in BagToSet(net), Corrupt(d) PROVE TypeOK'
    <2>1. [d EXCEPT !.good = FALSE] \in Datagrams
        BY DEF BagToSet, Datagrams
    <2>2. IsABag(net') /\ DOMAIN net' \subseteq Datagrams
        BY <1>7, <2>1, Replaced DEF Corrupt, BagToSet
    <2>3. QED
        <3>1. faults' \in [lost : 0 .. MaxLost, dup : 0 .. MaxDuplicated, bad : 0 .. MaxCorrupted]
            BY <1>7 DEF Corrupt
        <3>2. QED
            BY <1>7, <2>2, <3>1 DEF Corrupt, client, server
<1>8. QED
    BY <1>1, <1>2, <1>3, <1>4, <1>5, <1>6, <1>7 DEF Next, Server, Network

-----------------------------------------------------------------------------
(* What a client has sent it has sent for good, and counters of faults only  *)
(* grow.                                                                     *)
LEMMA SentForGood ==
    ASSUME TypeOK, [Next]_vars, NEW c \in Clients, NEW i \in Cmds, HasSent(c, i)
    PROVE  HasSent(c, i)'
<1>1. CASE UNCHANGED <<round, cpc>>
    BY <1>1 DEF HasSent
<1>2. ASSUME NEW k \in Clients, ClientSend(k) PROVE HasSent(c, i)'
    BY <1>2 DEF ClientSend, HasSent, TypeOK
<1>3. ASSUME NEW k \in Clients, ClientRecv(k) PROVE HasSent(c, i)'
    <2>1. cpc[k] = "recv" /\ (NextRound(k) \/ ClientCrash(k))
        BY <1>3 DEF ClientRecv
    <2>2. round[c] \in Nat /\ i \in Nat
        BY CmdAssumption DEF TypeOK, Cmds
    <2>3. round'[c] = round[c] \/ (c = k /\ round'[c] = round[c] + 1)
        BY <2>1 DEF NextRound, ClientCrash, TypeOK
    <2>4. round'[c] = round[c] => cpc'[c] = cpc[c] \/ cpc'[c] \in {"done", "crashed"}
        BY <2>1, <2>2 DEF NextRound, ClientCrash, TypeOK
    <2>5. QED
        BY <2>2, <2>3, <2>4 DEF HasSent
<1>4. CASE Server \/ Network
    BY <1>1, <1>4 DEF Server, Network, ServerTurn, Lose, Duplicate, Corrupt, client
<1>5. QED
    BY <1>1, <1>2, <1>3, <1>4 DEF Next, vars, client

LEMMA FaultsGrow ==
    ASSUME TypeOK, [Next]_vars
    PROVE  /\ faults.dup \in Nat /\ faults.bad \in Nat /\ faults'.dup \in Nat /\ faults'.bad \in Nat
           /\ faults'.dup >= faults.dup /\ faults'.bad >= faults.bad
<1>1. faults.dup \in Nat /\ faults.bad \in Nat
    BY DEF TypeOK
<1>2. CASE UNCHANGED faults
    BY <1>1, <1>2
<1>3. CASE Network
    BY <1>1, <1>3 DEF Network, Lose, Duplicate, Corrupt, TypeOK
<1>4. QED
    BY <1>2, <1>3 DEF Next, Server, ServerTurn, ClientSend, ClientRecv, vars

(* What a client sends, as a fixed datagram.                                 *)
LEMMA SendsOne ==
    ASSUME TypeOK, NEW c \in Clients, ClientSend(c)
    PROVE  \E d \in Datagrams :
              /\ Send(d) /\ d.rqrs = "request" /\ d.client = c /\ d.good
              /\ d.msg = [cmd |-> round[c], wild |-> FALSE]
<1> DEFINE d == [rqrs |-> "request", msg |-> [cmd |-> round[c], wild |-> FALSE], client |-> c, good |-> TRUE]
<1>1. d \in Datagrams /\ Send(d)
    BY DEF ClientSend, Datagrams, Messages, TypeOK
<1>2. QED
    BY <1>1

-----------------------------------------------------------------------------
(* While nothing is corrupted, whatever is on its way to or from a client is *)
(* about a command that this client has sent.                                *)
AboutOwn == faults.bad = 0 => \A d \in DOMAIN net : d.good /\ HasSent(d.client, d.msg.cmd)

LEMMA AboutOwnStep == TypeOK /\ AboutOwn /\ [Next]_vars => AboutOwn'
<1> SUFFICES ASSUME TypeOK, AboutOwn, [Next]_vars, faults'.bad = 0
             PROVE  \A d \in DOMAIN net' : d.good /\ HasSent(d.client, d.msg.cmd)'
    BY DEF AboutOwn
<1>1. faults.bad = 0
    BY FaultsGrow
<1>2. IsABag(net) /\ DOMAIN net \subseteq Datagrams
    BY DEF TypeOK
<1>3. \A d \in DOMAIN net : d \in Datagrams /\ d.good /\ HasSent(d.client, d.msg.cmd)'
    BY <1>1, <1>2, SentForGood DEF AboutOwn, Datagrams, Messages
<1>4. CASE DOMAIN net' \subseteq DOMAIN net
    BY <1>3, <1>4
<1>5. ASSUME NEW c \in Clients, ClientSend(c)
      PROVE  \A d \in DOMAIN net' : d.good /\ HasSent(d.client, d.msg.cmd)'
    <2>1. PICK d \in Datagrams :
              Send(d) /\ d.client = c /\ d.good /\ d.msg = [cmd |-> round[c], wild |-> FALSE]
        BY <1>5, SendsOne
    <2>2. HasSent(d.client, d.msg.cmd)'
        BY <1>5, <2>1 DEF ClientSend, HasSent, TypeOK
    <2>3. DOMAIN net' = DOMAIN net \cup {d}
        BY <1>2, <2>1, Sent
    <2>4. QED
        BY <1>3, <2>1, <2>2, <2>3
<1>6. ASSUME NEW d \in InFlight("request"), ServerTurn(d)
      PROVE  \A e \in DOMAIN net' : e.good /\ HasSent(e.client, e.msg.cmd)'
    <2>1. d \in DOMAIN net /\ d \in Datagrams
        BY <1>2 DEF InFlight, BagToSet
    <2>2. CASE Take(d)
        BY <1>2, <1>4, <2>1, <2>2, Taken
    <2>3. CASE addrlen = "enough" /\ net' = (net (-) SetToBag({d})) (+) SetToBag({Reply(d)})
        <3>1. Reply(d).good /\ Reply(d).client = d.client /\ Reply(d).msg = d.msg
            BY <1>3, <2>1, <2>3 DEF Reply, Received
        <3>2. Reply(d) \in Datagrams
            BY <2>1, ReceivedType
        <3>3. DOMAIN net' \subseteq DOMAIN net \cup {Reply(d)}
            BY <1>2, <2>1, <2>3, <3>2, Replaced
        <3>4. QED
            BY <1>3, <2>1, <3>1, <3>3
    <2>4. QED
        BY <1>6, <2>2, <2>3 DEF ServerTurn, AnswerOrCrash, Take
<1>7. ASSUME NEW c \in Clients, ClientRecv(c) PROVE DOMAIN net' \subseteq DOMAIN net
    <2>1. PICK d \in DOMAIN net : Take(d)
        BY <1>7 DEF ClientRecv, InFlight, BagToSet
    <2>2. QED
        BY <1>2, <2>1, Taken
<1>8. ASSUME NEW d \in BagToSet(net), Lose(d) \/ Duplicate(d) PROVE DOMAIN net' \subseteq DOMAIN net
    <2>1. d \in DOMAIN net /\ d \in Datagrams /\ (Take(d) \/ Send(d))
        BY <1>2, <1>8 DEF BagToSet, Lose, Duplicate
    <2>2. QED
        BY <1>2, <2>1, Taken, Sent
<1>9. ASSUME NEW d \in BagToSet(net), Corrupt(d) PROVE FALSE
    BY <1>1, <1>9 DEF Corrupt, TypeOK
<1>10. CASE UNCHANGED vars
    BY <1>4, <1>10 DEF vars
<1>11. QED
    BY <1>4, <1>5, <1>6, <1>7, <1>8, <1>9, <1>10 DEF Next, Server, Network

-----------------------------------------------------------------------------
(* While nothing is duplicated or corrupted, a client has one datagram under *)
(* way at most, while it waits: its own request or the answer to it.         *)
Quiet == faults.dup = 0 /\ faults.bad = 0
Due(c) == [cmd |-> round[c], wild |-> FALSE]

OneUnderWay ==
    /\ \A d \in DOMAIN net : net[d] = 1 /\ d.good /\ d.msg = Due(d.client) /\ cpc[d.client] = "recv"
    /\ \A d, e \in DOMAIN net : d.client = e.client => d = e

InStep == Quiet => OneUnderWay /\ AnswersInStep

LEMMA InStepStep == TypeOK /\ InStep /\ [Next]_vars => InStep'
<1> SUFFICES ASSUME TypeOK, InStep, [Next]_vars, Quiet' PROVE OneUnderWay' /\ AnswersInStep'
    BY DEF InStep
<1>1. Quiet /\ OneUnderWay /\ AnswersInStep
    BY FaultsGrow DEF InStep, Quiet
<1>2. IsABag(net) /\ DOMAIN net \subseteq Datagrams
    BY DEF TypeOK
<1>3. \A c \in Clients, i \in Cmds : got[c][i] \subseteq {[cmd |-> i, wild |-> FALSE]}
    BY <1>1 DEF AnswersInStep, Quiet
<1>4. ASSUME UNCHANGED got PROVE AnswersInStep'
    BY <1>3, <1>4 DEF AnswersInStep
<1>5. ASSUME UNCHANGED <<round, cpc>>, NEW d \in DOMAIN net, Take(d) PROVE OneUnderWay'
    <2>1. DOMAIN net' = DOMAIN net \ {d} /\ \A e \in DOMAIN net' : net'[e] = 1
        BY <1>1, <1>2, <1>5, Taken DEF OneUnderWay
    <2>2. QED
        BY <1>1, <1>5, <2>1 DEF OneUnderWay, Due
<1>6. CASE UNCHANGED vars
    BY <1>1, <1>3, <1>6 DEF OneUnderWay, AnswersInStep, Due, vars, client
<1>7. ASSUME NEW c \in Clients, ClientSend(c) PROVE OneUnderWay' /\ AnswersInStep'
    <2>1. PICK d \in Datagrams : Send(d) /\ d.client = c /\ d.good /\ d.msg = Due(c)
        BY <1>7, SendsOne DEF Due
    <2>2. cpc[c] = "send" /\ cpc' = [cpc EXCEPT ![c] = "recv"] /\ UNCHANGED <<round, got>>
        BY <1>7 DEF ClientSend
    <2>3. \A e \in DOMAIN net : e.client # c
        BY <1>1, <2>2 DEF OneUnderWay
    <2>4. DOMAIN net' = DOMAIN net \cup {d} /\ net'[d] = 1 /\ \A e \in DOMAIN net : net'[e] = net[e]
        BY <1>2, <2>1, <2>3, Sent
    <2>5. \A e \in DOMAIN net' : /\ net'[e] = 1 /\ e.good
                               /\ e.msg = Due(e.client)' /\ cpc'[e.client] = "recv"
        <3>1. \A e \in DOMAIN net : cpc'[e.client] = "recv"
            BY <1>1, <1>2, <2>2, <2>3 DEF OneUnderWay, TypeOK
        <3>2. cpc'[d.client] = "recv"
            BY <2>1, <2>2 DEF TypeOK
        <3>3. QED
            BY <1>1, <2>1, <2>2, <2>4, <3>1, <3>2 DEF OneUnderWay, Due
    <2>6. \A e, f \in DOMAIN net' : e.client = f.client => e = f
        BY <1>1, <2>1, <2>3, <2>4 DEF OneUnderWay
    <2>7. QED
        BY <1>4, <2>2, <2>5, <2>6 DEF OneUnderWay
<1>8. ASSUME NEW c \in Clients, ClientRecv(c) PROVE OneUnderWay' /\ AnswersInStep'
    <2>1. PICK d \in DOMAIN net :
              /\ d.client = c /\ Take(d)
              /\ got' = [got EXCEPT ![c][round[c]] = IF d.good THEN {d.msg} ELSE {}]
              /\ NextRound(c) \/ (d.good /\ d.msg.wild /\ ClientCrash(c))
        BY <1>8 DEF ClientRecv, InFlight, BagToSet
    <2>2. net[d] = 1 /\ d.good /\ d.msg = Due(c)
        BY <1>1, <2>1 DEF OneUnderWay
    <2>3. NextRound(c)
        BY <2>1, <2>2 DEF Due
    <2>4. DOMAIN net' = DOMAIN net \ {d} /\ \A e \in DOMAIN net' : net'[e] = net[e] /\ e.client # c
        BY <1>1, <1>2, <2>1, <2>2, Taken DEF OneUnderWay
    <2>5. \A k \in Clients : k # c => round'[k] = round[k] /\ cpc'[k] = cpc[k]
        BY <2>3 DEF NextRound, TypeOK
    <2>6. \A e \in DOMAIN net' : e.client \in Clients
        BY <1>2, <2>4 DEF Datagrams
    <2>7. OneUnderWay'
        BY <1>1, <2>4, <2>5, <2>6 DEF OneUnderWay, Due
    <2>8. \A k \in Clients, i \in Cmds : got'[k][i] = IF k = c /\ i = round[c] THEN {Due(c)} ELSE got[k][i]
        BY <2>1, <2>2 DEF TypeOK
    <2>9. AnswersInStep'
        BY <1>3, <2>8 DEF AnswersInStep, Due
    <2>10. QED
        BY <2>7, <2>9
<1>9. ASSUME NEW d \in InFlight("request"), ServerTurn(d) PROVE OneUnderWay' /\ AnswersInStep'
    <2>1. d \in DOMAIN net /\ d \in Datagrams /\ UNCHANGED <<round, cpc, got>>
        BY <1>2, <1>9 DEF InFlight, BagToSet, ServerTurn, client
    <2>2. CASE Take(d)
        BY <1>4, <1>5, <2>1, <2>2
    <2>3. CASE addrlen = "enough" /\ net' = (net (-) SetToBag({d})) (+) SetToBag({Reply(d)})
        <3>1. net[d] = 1 /\ d.good /\ d.msg = Due(d.client) /\ cpc[d.client] = "recv"
            BY <1>1, <2>1 DEF OneUnderWay
        <3>2. Reply(d) \in Datagrams /\ Reply(d).good /\ Reply(d).client = d.client /\ Reply(d).msg = d.msg
            BY <2>1, <2>3, <3>1, ReceivedType DEF Reply, Received
        <3>3. PICK r \in Datagrams : r = Reply(d)
            BY <3>2
        <3>4. r # d /\ r.client = d.client => r \notin DOMAIN net
            BY <1>1, <2>1 DEF OneUnderWay
        <3>5. /\ DOMAIN net' = (DOMAIN net \ {d}) \cup {r} /\ net'[r] = 1
              /\ \A e \in DOMAIN net' : e \notin {d, r} => net'[e] = net[e]
            <4>1. net' = (net (-) SetToBag({d})) (+) SetToBag({r})
                BY <2>3, <3>3
            <4>2. r = d \/ r \notin DOMAIN net
                BY <3>2, <3>3, <3>4
            <4>3. QED
                BY <1>2, <2>1, <3>1, <3>3, <4>1, <4>2, ReplacedSingle
        <3>6. \A e \in DOMAIN net' : /\ net'[e] = 1 /\ e.good
                                   /\ e.msg = Due(e.client)' /\ cpc'[e.client] = "recv"
            BY <1>1, <2>1, <3>1, <3>2, <3>3, <3>5 DEF OneUnderWay, Due
        <3>7. \A e, f \in DOMAIN net' : e.client = f.client => e = f
            BY <1>1, <2>1, <3>2, <3>3, <3>5 DEF OneUnderWay
        <3>8. QED
            BY <1>4, <2>1, <3>6, <3>7 DEF OneUnderWay
    <2>4. QED
        BY <1>9, <2>2, <2>3 DEF ServerTurn, AnswerOrCrash, Take
<1>10. ASSUME NEW d \in BagToSet(net), Lose(d) PROVE OneUnderWay' /\ AnswersInStep'
    BY <1>4, <1>5, <1>10 DEF Lose, BagToSet, client
<1>11. ASSUME NEW d \in BagToSet(net), Duplicate(d) \/ Corrupt(d) PROVE FALSE
    BY <1>1, <1>11 DEF Duplicate, Corrupt, Quiet, TypeOK
<1>12. QED
    BY <1>6, <1>7, <1>8, <1>9, <1>10, <1>11 DEF Next, Server, Network

-----------------------------------------------------------------------------
(* Each copy under way that can still make the server call the function of   *)
(* command i is accounted for: a good request with that command, or a bad one*)
(* with any.                                                                 *)
CanRun(d, i) == d.rqrs = "request" /\ (d.good => d.msg.cmd = i)
Running(S, i) == {t \in S : CanRun(t[1], i)}
Senders(i) == {c \in Clients : HasSent(c, i)}

Accounted ==
    /\ IsFiniteSet(Copies(net))
    /\ addrlen # "invalid" =>
          \A i \in Known :
              ran[i] + Cardinality(Running(Copies(net), i)) <= Cardinality(Senders(i)) + faults.dup + faults.bad

LEMMA RunningAdd ==
    ASSUME NEW S, IsFiniteSet(S), NEW i, NEW d, NEW k, <<d, k>> \notin S
    PROVE  /\ IsFiniteSet(S \cup {<<d, k>>})
           /\ Cardinality(Running(S, i)) \in Nat
           /\ Cardinality(Running(S \cup {<<d, k>>}, i))
                  = Cardinality(Running(S, i)) + (IF CanRun(d, i) THEN 1 ELSE 0)
<1>1. Running(S, i) \in SUBSET S
    BY DEF Running
<1>2. IsFiniteSet(Running(S, i)) /\ Cardinality(Running(S, i)) \in Nat
    BY <1>1, FS_Subset, FS_CardinalityType
<1>3. CASE CanRun(d, i)
    <2>1. Running(S \cup {<<d, k>>}, i) = Running(S, i) \cup {<<d, k>>} /\ <<d, k>> \notin Running(S, i)
        BY <1>3 DEF Running
    <2>2. QED
        BY <1>2, <1>3, <2>1, FS_AddElement
<1>4. CASE ~CanRun(d, i)
    <2>1. Running(S \cup {<<d, k>>}, i) = Running(S, i)
        BY <1>4 DEF Running
    <2>2. QED
        BY <1>2, <1>4, <2>1, FS_AddElement
<1>5. QED
    BY <1>3, <1>4

LEMMA RunningTake ==
    ASSUME NEW S, IsFiniteSet(S), NEW i, NEW d, NEW k, <<d, k>> \in S
    PROVE  /\ IsFiniteSet(S \ {<<d, k>>})
           /\ Cardinality(Running(S, i)) \in Nat /\ Cardinality(Running(S \ {<<d, k>>}, i)) \in Nat
           /\ Cardinality(Running(S \ {<<d, k>>}, i))
                  = Cardinality(Running(S, i)) - (IF CanRun(d, i) THEN 1 ELSE 0)
<1> DEFINE T == S \ {<<d, k>>}
<1>1. IsFiniteSet(T) /\ <<d, k>> \notin T /\ S = T \cup {<<d, k>>}
    BY FS_RemoveElement
<1> HIDE DEF T
<1>2. /\ Cardinality(Running(T, i)) \in Nat
      /\ Cardinality(Running(S, i)) = Cardinality(Running(T, i)) + (IF CanRun(d, i) THEN 1 ELSE 0)
    BY <1>1, RunningAdd
<1>3. QED
    BY <1>1, <1>2 DEF T

LEMMA SendersFinite ==
    \A i : IsFiniteSet(Senders(i)) /\ Cardinality(Senders(i)) \in Nat
<1> TAKE i
<1>1. Senders(i) \in SUBSET Clients
    BY DEF Senders
<1>2. QED
    BY <1>1, ClientsAssumption, FS_Subset, FS_CardinalityType

LEMMA SendersGrow ==
    ASSUME TypeOK, [Next]_vars, NEW i \in Cmds
    PROVE  Cardinality(Senders(i)') >= Cardinality(Senders(i))
<1>1. Senders(i) \in SUBSET Senders(i)'
    BY SentForGood DEF Senders
<1>2. Senders(i)' \in SUBSET Clients
    BY DEF Senders
<1>3. IsFiniteSet(Senders(i)')
    BY <1>2, ClientsAssumption, FS_Subset
<1>4. Cardinality(Senders(i)) <= Cardinality(Senders(i)')
    BY <1>1, <1>3, FS_Subset
<1>5. IsFiniteSet(Senders(i)) /\ Cardinality(Senders(i)) \in Nat /\ Cardinality(Senders(i)') \in Nat
    BY <1>3, SendersFinite, FS_CardinalityType
<1>6. QED
    BY <1>4, <1>5
LEMMA AccountedInit == Init => Accounted
<1> SUFFICES ASSUME Init PROVE Accounted
    OBVIOUS
<1>1. Copies(net) = {}
    BY DEF Init, EmptyBag, SetToBag, Copies
<1>2. \A i : Running({}, i) = {}
    BY DEF Running
<1>3. IsFiniteSet({}) /\ Cardinality({}) = 0
    BY FS_EmptySet
<1>4. \A i \in Known : ran[i] + Cardinality(Running({}, i)) <= Cardinality(Senders(i)) + faults.dup + faults.bad
    <2> TAKE i \in Known
    <2>1. ran[i] = 0 /\ faults.dup = 0 /\ faults.bad = 0
        BY DEF Init
    <2>2. Cardinality(Running({}, i)) = 0
        BY <1>2, <1>3
    <2>3. Cardinality(Senders(i)) \in Nat
        BY SendersFinite
    <2>4. QED
        BY <2>1, <2>2, <2>3
<1>5. QED
    BY <1>1, <1>3, <1>4 DEF Accounted

LEMMA AccountedStep == TypeOK /\ Accounted /\ [Next]_vars => Accounted'
<1> SUFFICES ASSUME TypeOK, Accounted, [Next]_vars PROVE Accounted'
    OBVIOUS
<1>1. IsABag(net) /\ DOMAIN net \subseteq Datagrams /\ IsFiniteSet(Copies(net))
    BY DEF TypeOK, Accounted
<1>2. /\ faults.dup \in Nat /\ faults.bad \in Nat /\ faults'.dup \in Nat /\ faults'.bad \in Nat
      /\ faults'.dup >= faults.dup /\ faults'.bad >= faults.bad
    BY FaultsGrow
<1>3. \A i \in Known : /\ ran[i] \in Nat
                      /\ Cardinality(Senders(i)) \in Nat /\ Cardinality(Senders(i)') \in Nat
                      /\ Cardinality(Senders(i)') >= Cardinality(Senders(i))
    <2>1. \A i \in Known : i \in Cmds /\ ran[i] \in Nat
        BY CmdAssumption DEF TypeOK, Cmds
    <2>2. \A i : Cardinality(Senders(i)') \in Nat
        <3> TAKE i
        <3>1. Senders(i)' \in SUBSET Clients
            BY DEF Senders
        <3>2. QED
            BY <3>1, ClientsAssumption, FS_Subset, FS_CardinalityType
    <2>3. QED
        BY <2>1, <2>2, SendersFinite, SendersGrow
<1>4. \A i : Cardinality(Running(Copies(net), i)) \in Nat
    <2> TAKE i
    <2>1. Running(Copies(net), i) \in SUBSET Copies(net)
        BY DEF Running
    <2>2. QED
        BY <1>1, <2>1, FS_Subset, FS_CardinalityType
<1>5. ASSUME NEW i \in Known, addrlen # "invalid"
      PROVE  ran[i] + Cardinality(Running(Copies(net), i)) <= Cardinality(Senders(i)) + faults.dup + faults.bad
    BY <1>5 DEF Accounted
<1>6. addrlen' # "invalid" => addrlen # "invalid"
    BY DEF Next, ClientSend, ClientRecv, Server, ServerTurn, Network, Lose, Duplicate, Corrupt, vars, server
(* A step that takes copies away and runs nothing.                           *)
<1>7. ASSUME UNCHANGED ran, NEW d \in DOMAIN net, Take(d) PROVE Accounted'
    <2>1. Copies(net') = Copies(net) \ {<<d, net[d]>>} /\ <<d, net[d]>> \in Copies(net)
        BY <1>1, <1>7, Taken
    <2>2. IsFiniteSet(Copies(net'))
        BY <1>1, <2>1, FS_RemoveElement
    <2>3. \A i : /\ Cardinality(Running(Copies(net'), i)) \in Nat
                 /\ Cardinality(Running(Copies(net'), i)) <= Cardinality(Running(Copies(net), i))
        BY <1>1, <1>4, <2>1, RunningTake
    <2>4. ASSUME NEW i \in Known, addrlen' # "invalid"
          PROVE  ran'[i] + Cardinality(Running(Copies(net'), i)) <= Cardinality(Senders(i)') + faults'.dup + faults'.bad
        BY <1>2, <1>3, <1>4, <1>5, <1>6, <1>7, <2>3, <2>4
    <2>5. QED
        BY <2>2, <2>4 DEF Accounted
<1>8. CASE UNCHANGED vars
    BY <1>8 DEF Accounted, Senders, HasSent, vars, client, server
<1>9. ASSUME NEW c \in Clients, ClientSend(c) PROVE Accounted'
    <2>1. PICK d \in Datagrams :
              /\ Send(d) /\ d.rqrs = "request" /\ d.client = c /\ d.good
              /\ d.msg = [cmd |-> round[c], wild |-> FALSE]
        BY <1>9, SendsOne
    <2>2. PICK k \in Nat : Copies(net') = Copies(net) \cup {<<d, k>>} /\ <<d, k>> \notin Copies(net)
        BY <1>1, <2>1, Sent
    <2>3. \A i : Cardinality(Running(Copies(net'), i))
                   = Cardinality(Running(Copies(net), i)) + (IF i = round[c] THEN 1 ELSE 0)
        <3>1. \A i : CanRun(d, i) <=> i = round[c]
            BY <2>1 DEF CanRun
        <3>2. QED
            BY <1>1, <2>2, <3>1, RunningAdd
    <2>4. IsFiniteSet(Copies(net'))
        BY <1>1, <2>2, FS_AddElement
    <2>5. Senders(round[c])' = Senders(round[c]) \cup {c} /\ c \notin Senders(round[c])
        BY <1>9, CmdAssumption DEF ClientSend, Senders, HasSent, TypeOK, Cmds
    <2>6. Cardinality(Senders(round[c])') = Cardinality(Senders(round[c])) + 1
        BY <2>5, SendersFinite, FS_AddElement
    <2>7. UNCHANGED <<ran, faults, round>>
        BY <1>9 DEF ClientSend, server
    <2>8. ASSUME NEW i \in Known, addrlen' # "invalid"
          PROVE  ran'[i] + Cardinality(Running(Copies(net'), i)) <= Cardinality(Senders(i)') + faults'.dup + faults'.bad
        <3>1. CASE i # round[c]
            BY <1>2, <1>3, <1>4, <1>5, <1>6, <2>3, <2>7, <2>8, <3>1
        <3>2. CASE i = round[c]
            <4>1. Cardinality(Senders(i)') = Cardinality(Senders(i)) + 1
                BY <2>6, <2>7, <3>2
            <4>2. QED
                BY <1>2, <1>3, <1>4, <1>5, <1>6, <2>3, <2>7, <2>8, <3>2, <4>1
        <3>3. QED
            BY <3>1, <3>2
    <2>9. QED
        BY <2>4, <2>8 DEF Accounted
<1>10. ASSUME NEW c \in Clients, ClientRecv(c) PROVE Accounted'
    BY <1>7, <1>10 DEF ClientRecv, InFlight, BagToSet, server
<1>11. ASSUME NEW d \in InFlight("request"), ServerTurn(d) PROVE Accounted'
    <2>1. d \in DOMAIN net /\ d \in Datagrams /\ d.rqrs = "request" /\ UNCHANGED faults
        BY <1>1, <1>11 DEF InFlight, BagToSet, ServerTurn
    <2>2. /\ IsFiniteSet(Copies(net'))
          /\ \A i : Cardinality(Running(Copies(net'), i))
                       = Cardinality(Running(Copies(net), i)) - (IF CanRun(d, i) THEN 1 ELSE 0)
        <3>1. CASE Take(d)
            <4>1. Copies(net') = Copies(net) \ {<<d, net[d]>>} /\ <<d, net[d]>> \in Copies(net)
                BY <1>1, <2>1, <3>1, Taken
            <4>2. QED
                BY <1>1, <4>1, RunningTake
        <3>2. CASE net' = (net (-) SetToBag({d})) (+) SetToBag({Reply(d)})
            <4>1. PICK r \in Datagrams : r = Reply(d)
                BY <2>1, ReceivedType
            <4>2. net' = (net (-) SetToBag({d})) (+) SetToBag({r})
                BY <3>2, <4>1
            <4>3. /\ <<d, net[d]>> \in Copies(net)
                  /\ \E k \in Nat : /\ Copies(net') = (Copies(net) \ {<<d, net[d]>>}) \cup {<<r, k>>}
                                   /\ <<r, k>> \notin Copies(net) \ {<<d, net[d]>>}
                BY <1>1, <2>1, <4>1, <4>2, ReplacedCopies
            <4>4. PICK k \in Nat : /\ Copies(net') = (Copies(net) \ {<<d, net[d]>>}) \cup {<<r, k>>}
                                  /\ <<r, k>> \notin Copies(net) \ {<<d, net[d]>>}
                BY <4>3
            <4> DEFINE S == Copies(net) \ {<<d, net[d]>>}
            <4>5. /\ IsFiniteSet(S)
                  /\ \A i : Cardinality(Running(S, i)) = Cardinality(Running(Copies(net), i)) - (IF CanRun(d, i) THEN 1 ELSE 0)
                BY <1>1, <4>3, RunningTake
            <4>6. \A i : ~CanRun(r, i)
                BY <4>1 DEF CanRun, Reply
            <4>7. Copies(net') = S \cup {<<r, k>>} /\ <<r, k>> \notin S
                BY <4>4
            <4> HIDE DEF S
            <4>8. /\ IsFiniteSet(Copies(net'))
                  /\ \A i : /\ Cardinality(Running(S, i)) \in Nat
                           /\ Cardinality(Running(Copies(net'), i)) = Cardinality(Running(S, i)) + 0
                BY <4>5, <4>6, <4>7, RunningAdd
            <4>9. QED
                BY <4>5, <4>8
        <3>3. QED
            BY <1>11, <3>1, <3>2 DEF ServerTurn, AnswerOrCrash, Take
    <2>3. ASSUME NEW i \in Known, addrlen # "invalid"
          PROVE  ran'[i] <= ran[i] + (IF CanRun(d, i) THEN 1 ELSE 0) /\ ran'[i] \in Nat
        <3>1. ran'[i] = IF i = Received(d).cmd THEN ran[i] + 1 ELSE ran[i]
            BY <1>11 DEF ServerTurn, rpc_cmd_run
        <3>2. i = Received(d).cmd => CanRun(d, i)
            BY <2>1, <2>3 DEF Received, CanRun
        <3>3. QED
            BY <1>3, <3>1, <3>2
    <2>4. ASSUME NEW i \in Known, addrlen' # "invalid"
          PROVE  ran'[i] + Cardinality(Running(Copies(net'), i)) <= Cardinality(Senders(i)') + faults'.dup + faults'.bad
        BY <1>2, <1>3, <1>4, <1>5, <1>6, <2>1, <2>2, <2>3, <2>4
    <2>5. QED
        BY <2>2, <2>4 DEF Accounted
<1>12. ASSUME NEW d \in BagToSet(net), Lose(d) PROVE Accounted'
    BY <1>7, <1>12 DEF Lose, BagToSet, server
<1>13. ASSUME NEW d \in BagToSet(net), Duplicate(d) PROVE Accounted'
    <2>1. d \in DOMAIN net /\ d \in Datagrams /\ Send(d) /\ UNCHANGED ran
        BY <1>1, <1>13 DEF BagToSet, Duplicate, server
    <2>2. PICK k \in Nat : Copies(net') = Copies(net) \cup {<<d, k>>} /\ <<d, k>> \notin Copies(net)
        BY <1>1, <2>1, Sent
    <2>3. IsFiniteSet(Copies(net'))
        BY <1>1, <2>2, FS_AddElement
    <2>4. \A i : Cardinality(Running(Copies(net'), i)) <= Cardinality(Running(Copies(net), i)) + 1
                 /\ Cardinality(Running(Copies(net'), i)) \in Nat
        BY <1>1, <1>4, <2>2, RunningAdd
    <2>5. faults'.dup = faults.dup + 1 /\ faults'.bad = faults.bad
        BY <1>13 DEF Duplicate, TypeOK
    <2>6. ASSUME NEW i \in Known, addrlen' # "invalid"
          PROVE  ran'[i] + Cardinality(Running(Copies(net'), i)) <= Cardinality(Senders(i)') + faults'.dup + faults'.bad
        BY <1>2, <1>3, <1>4, <1>5, <1>6, <2>1, <2>4, <2>5, <2>6
    <2>7. QED
        BY <2>3, <2>6 DEF Accounted
<1>14. ASSUME NEW d \in BagToSet(net), Corrupt(d) PROVE Accounted'
    <2>1. d \in DOMAIN net /\ d \in Datagrams /\ UNCHANGED ran
        BY <1>1, <1>14 DEF BagToSet, Corrupt, server
    <2>2. PICK r \in Datagrams : r = [d EXCEPT !.good = FALSE]
        BY <2>1 DEF Datagrams
    <2>3. net' = (net (-) SetToBag({d})) (+) SetToBag({r})
        BY <1>14, <2>2 DEF Corrupt
    <2>4. /\ <<d, net[d]>> \in Copies(net)
          /\ \E k \in Nat : /\ Copies(net') = (Copies(net) \ {<<d, net[d]>>}) \cup {<<r, k>>}
                           /\ <<r, k>> \notin Copies(net) \ {<<d, net[d]>>}
        BY <1>1, <2>1, <2>2, <2>3, ReplacedCopies
    <2>5. PICK k \in Nat : /\ Copies(net') = (Copies(net) \ {<<d, net[d]>>}) \cup {<<r, k>>}
                          /\ <<r, k>> \notin Copies(net) \ {<<d, net[d]>>}
        BY <2>4
    <2> DEFINE S == Copies(net) \ {<<d, net[d]>>}
    <2>6. /\ IsFiniteSet(S)
          /\ \A i : /\ Cardinality(Running(S, i)) \in Nat
                   /\ Cardinality(Running(S, i)) <= Cardinality(Running(Copies(net), i))
        BY <1>1, <1>4, <2>4, RunningTake
    <2>7. Copies(net') = S \cup {<<r, k>>} /\ <<r, k>> \notin S
        BY <2>5
    <2> HIDE DEF S
    <2>8. /\ IsFiniteSet(Copies(net'))
          /\ \A i : /\ Cardinality(Running(Copies(net'), i)) \in Nat
                   /\ Cardinality(Running(Copies(net'), i)) <= Cardinality(Running(Copies(net), i)) + 1
        <3>1. \A i : Cardinality(Running(Copies(net'), i)) = Cardinality(Running(S, i)) + (IF CanRun(r, i) THEN 1 ELSE 0)
            BY <2>6, <2>7, RunningAdd
        <3>2. IsFiniteSet(Copies(net'))
            BY <2>6, <2>7, FS_AddElement
        <3>3. QED
            BY <1>4, <2>6, <3>1, <3>2
    <2>9. faults'.dup = faults.dup /\ faults'.bad = faults.bad + 1
        BY <1>14 DEF Corrupt, TypeOK
    <2>10. ASSUME NEW i \in Known, addrlen' # "invalid"
          PROVE  ran'[i] + Cardinality(Running(Copies(net'), i)) <= Cardinality(Senders(i)') + faults'.dup + faults'.bad
        BY <1>2, <1>3, <1>4, <1>5, <1>6, <2>1, <2>8, <2>9, <2>10
    <2>11. QED
        BY <2>8, <2>10 DEF Accounted
<1>15. QED
    BY <1>8, <1>9, <1>10, <1>11, <1>12, <1>13, <1>14 DEF Next, Server, Network
-----------------------------------------------------------------------------
RpcInv == TypeOK /\ AboutOwn /\ InStep /\ Accounted

LEMMA RpcInvInit == Init => RpcInv
<1> SUFFICES ASSUME Init PROVE RpcInv
    OBVIOUS
<1>1. DOMAIN net = {}
    BY DEF Init, EmptyBag, SetToBag
<1>2. AboutOwn /\ OneUnderWay
    BY <1>1 DEF AboutOwn, OneUnderWay
<1>3. AnswersInStep
    BY DEF Init, AnswersInStep
<1>4. QED
    BY <1>2, <1>3, TypeInit, AccountedInit DEF RpcInv, InStep

LEMMA RpcInvStep == RpcInv /\ [Next]_vars => RpcInv'
BY TypeStep, AboutOwnStep, InStepStep, AccountedStep DEF RpcInv

LEMMA RpcInvariant == Spec => []RpcInv
BY RpcInvInit, RpcInvStep, PTL DEF Spec

(* The state keeps its shape whatever the network does.                      *)
THEOREM TypeCorrect == Spec => []TypeOK
<1>1. RpcInv => TypeOK
    BY DEF RpcInv
<1>2. QED
    BY <1>1, RpcInvariant, PTL

(* For any number of clients, and whatever is lost or overtaken: without a   *)
(* duplicate and a corrupted datagram, what a client takes in a round is the *)
(* answer to what it sent in that round, although no message says which      *)
(* request it answers.                                                       *)
THEOREM AnswersAreInStep == Spec => []AnswersInStep
<1>1. RpcInv => AnswersInStep
    BY DEF RpcInv, InStep, Quiet, AnswersInStep
<1>2. QED
    BY <1>1, RpcInvariant, PTL

(* Duplicates, losses and other clients notwithstanding, an answer on its    *)
(* way to a client is about a command that this client has sent.             *)
THEOREM RepliesGoToAsker == Spec => []RepliesToAsker
<1>1. RpcInv => RepliesToAsker
    BY DEF RpcInv, AboutOwn, RepliesToAsker, InFlight, BagToSet
<1>2. QED
    BY <1>1, RpcInvariant, PTL

(* The server calls the function of a command no more often than clients     *)
(* sent it, duplicates and corrupted datagrams added, as long as the address *)
(* length it started with is usable.                                         *)
THEOREM RunsAreBounded == Spec => []RunsBounded
<1>1. RpcInv => RunsBounded
    <2> SUFFICES ASSUME RpcInv, addrlen # "invalid", NEW i \in Known
                 PROVE  ran[i] <= Cardinality({c \in Clients : HasSent(c, i)}) + faults.dup + faults.bad
        BY DEF RunsBounded
    <2>1. ran[i] + Cardinality(Running(Copies(net), i)) <= Cardinality(Senders(i)) + faults.dup + faults.bad
        BY DEF RpcInv, Accounted
    <2>2. ran[i] \in Nat /\ faults.dup \in Nat /\ faults.bad \in Nat
        BY DEF RpcInv, TypeOK
    <2>3. Running(Copies(net), i) \in SUBSET Copies(net) /\ IsFiniteSet(Copies(net))
        BY DEF Running, RpcInv, Accounted
    <2>4. Cardinality(Running(Copies(net), i)) \in Nat /\ Cardinality(Senders(i)) \in Nat
        BY <2>3, SendersFinite, FS_Subset, FS_CardinalityType
    <2>5. QED
        BY <2>1, <2>2, <2>4 DEF Senders
<1>2. QED
    BY <1>1, RpcInvariant, PTL

-----------------------------------------------------------------------------
(* Once clientaddr.len is usable, nothing but the network takes a datagram   *)
(* away from a client that waits, and only a corrupted datagram lets anybody *)
(* go on with data that was never set.                                       *)
WaitingHasOne ==
    faults.lost = 0 /\ up => \A c \in Clients : cpc[c] = "recv" => \E d \in DOMAIN net : d.client = c
CrashNeedsCorruption == Crashed => faults.bad > 0
OnlySetData ==
    faults.bad = 0 => /\ ~Crashed
                      /\ \A d \in DOMAIN net : d.good /\ ~d.msg.wild
UsableInv == addrlen = "enough" /\ WaitingHasOne /\ OnlySetData

(* As long as the network lost nothing and no program crashed, whoever waits *)
(* has its request where the server can take it or an answer where it can.   *)
NobodyStuck ==
    faults.lost = 0 /\ ~Crashed =>
        \A c \in Clients : cpc[c] = "recv" =>
            \E d \in InFlight("request") \cup InFlight("response") : d.client = c

LEMMA UsableInit == Init /\ addrlen = "enough" => UsableInv
<1> SUFFICES ASSUME Init, addrlen = "enough" PROVE UsableInv
    OBVIOUS
<1>1. DOMAIN net = {}
    BY DEF Init, EmptyBag, SetToBag
<1>2. QED
    BY <1>1 DEF Init, UsableInv, WaitingHasOne, OnlySetData, Crashed

LEMMA UsableStep == TypeOK /\ UsableInv /\ [Next]_vars => UsableInv'
<1> SUFFICES ASSUME TypeOK, UsableInv, [Next]_vars PROVE UsableInv'
    OBVIOUS
<1>1. IsABag(net) /\ DOMAIN net \subseteq Datagrams /\ faults.lost \in Nat /\ faults.bad \in Nat
    BY DEF TypeOK
<1>2. addrlen' = "enough"
    BY DEF UsableInv, Next, ClientSend, ClientRecv, Server, ServerTurn, Network, Lose, Duplicate, Corrupt, vars, server
(* A step that the clients and the server have no part in.                   *)
<1>3. ASSUME UNCHANGED <<cpc, up>>, faults'.lost = 0 => faults.lost = 0, faults'.bad = 0 => faults.bad = 0,
             faults'.lost = 0 => \A d \in DOMAIN net : \E e \in DOMAIN net' : e.client = d.client,
             faults'.bad = 0 => DOMAIN net' \subseteq DOMAIN net
      PROVE  UsableInv'
    <2>1. WaitingHasOne'
        <3> SUFFICES ASSUME faults'.lost = 0, up, NEW c \in Clients, cpc[c] = "recv"
                     PROVE  \E e \in DOMAIN net' : e.client = c
            BY <1>3 DEF WaitingHasOne
        <3>1. \E d \in DOMAIN net : d.client = c
            BY <1>3 DEF UsableInv, WaitingHasOne
        <3>2. QED
            BY <1>3, <3>1
    <2>2. OnlySetData'
        BY <1>3 DEF UsableInv, OnlySetData, Crashed
    <2>3. QED
        BY <1>2, <2>1, <2>2 DEF UsableInv
<1>4. CASE UNCHANGED vars
    BY <1>3, <1>4 DEF vars, client, server
<1>5. ASSUME NEW c \in Clients, ClientSend(c) PROVE UsableInv'
    <2>1. PICK d \in Datagrams :
              Send(d) /\ d.client = c /\ d.good /\ d.msg = [cmd |-> round[c], wild |-> FALSE]
        BY <1>5, SendsOne
    <2>2. DOMAIN net' = DOMAIN net \cup {d}
        BY <1>1, <2>1, Sent
    <2>3. cpc' = [cpc EXCEPT ![c] = "recv"] /\ UNCHANGED <<up, faults>>
        BY <1>5 DEF ClientSend, server
    <2>4. WaitingHasOne'
        BY <2>1, <2>2, <2>3 DEF UsableInv, WaitingHasOne, TypeOK
    <2>5. OnlySetData'
        BY <2>1, <2>2, <2>3 DEF UsableInv, OnlySetData, Crashed, TypeOK
    <2>6. QED
        BY <1>2, <2>4, <2>5 DEF UsableInv
<1>6. ASSUME NEW c \in Clients, ClientRecv(c) PROVE UsableInv'
    <2>1. PICK d \in DOMAIN net :
              d.client = c /\ Take(d) /\ (NextRound(c) \/ (d.msg.wild /\ ClientCrash(c)))
        BY <1>6 DEF ClientRecv, InFlight, BagToSet
    <2>2. DOMAIN net \ {d} \subseteq DOMAIN net' /\ DOMAIN net' \subseteq DOMAIN net
        BY <1>1, <2>1, Taken
    <2>3. UNCHANGED <<up, faults>> /\ cpc \in [Clients -> {"send", "recv", "done", "crashed"}]
        BY <1>6 DEF ClientRecv, server, TypeOK
    <2>4. cpc'[c] # "recv" /\ \A k \in Clients : k # c => cpc'[k] = cpc[k]
        BY <2>1, <2>3 DEF NextRound, ClientCrash
    <2>5. cpc'[c] = "crashed" => d.msg.wild
        BY <2>1, <2>3 DEF NextRound
    <2>6. WaitingHasOne'
        BY <2>1, <2>2, <2>3, <2>4 DEF UsableInv, WaitingHasOne
    <2>7. OnlySetData'
        BY <2>2, <2>3, <2>4, <2>5 DEF UsableInv, OnlySetData, Crashed
    <2>8. QED
        BY <1>2, <2>6, <2>7 DEF UsableInv
<1>7. ASSUME NEW d \in InFlight("request"), ServerTurn(d) PROVE UsableInv'
    <2>1. d \in DOMAIN net /\ d \in Datagrams /\ addrlen = "enough" /\ UNCHANGED <<cpc, faults>>
        BY <1>1, <1>7 DEF InFlight, BagToSet, ServerTurn, UsableInv, client
    <2>2. PICK r \in Datagrams : r = Reply(d)
        BY <2>1, ReceivedType
    <2>3. faults.bad = 0 => Received(d) = d.msg /\ ~d.msg.wild
        BY <2>1 DEF UsableInv, OnlySetData, Received
    <2>4. CASE net' = (net (-) SetToBag({d})) (+) SetToBag({Reply(d)}) /\ up' = up
        <3>1. DOMAIN net \ {d} \subseteq DOMAIN net' /\ r \in DOMAIN net' /\ DOMAIN net' \subseteq DOMAIN net \cup {r}
            <4>1. net' = (net (-) SetToBag({d})) (+) SetToBag({r})
                BY <2>2, <2>4
            <4>2. DOMAIN net' = (IF net[d] = 1 THEN DOMAIN net \ {d} ELSE DOMAIN net) \cup {r}
                BY <1>1, <2>1, <4>1, ReplacedDomain
            <4>3. QED
                BY <4>2
        <3>2. r.client = d.client /\ r.good /\ r.msg = Received(d)
            BY <2>2 DEF Reply
        <3>3. WaitingHasOne'
            BY <2>1, <2>4, <3>1, <3>2 DEF UsableInv, WaitingHasOne
        <3>4. OnlySetData'
            BY <2>1, <2>3, <2>4, <3>1, <3>2 DEF UsableInv, OnlySetData, Crashed
        <3>5. QED
            BY <1>2, <3>3, <3>4 DEF UsableInv
    <2>5. CASE Received(d).wild /\ up' = FALSE
        BY <1>2, <2>1, <2>3, <2>5 DEF UsableInv, WaitingHasOne, OnlySetData
    <2>6. QED
        BY <1>7, <2>1, <2>4, <2>5 DEF ServerTurn, AnswerOrCrash
<1>8. ASSUME NEW d \in BagToSet(net), Lose(d) PROVE UsableInv'
    <2>1. Take(d) /\ d \in DOMAIN net /\ faults'.lost = faults.lost + 1 /\ faults'.bad = faults.bad /\ UNCHANGED <<cpc, up>>
        BY <1>8 DEF Lose, BagToSet, client, server, TypeOK
    <2>2. DOMAIN net' \subseteq DOMAIN net
        BY <1>1, <2>1, Taken
    <2>3. faults'.lost # 0
        BY <1>1, <2>1
    <2>4. QED
        BY <1>3, <2>1, <2>2, <2>3
<1>9. ASSUME NEW d \in BagToSet(net), Duplicate(d) PROVE UsableInv'
    <2>1. /\ Send(d) /\ d \in DOMAIN net /\ d \in Datagrams
          /\ faults'.lost = faults.lost /\ faults'.bad = faults.bad /\ UNCHANGED <<cpc, up>>
        BY <1>1, <1>9 DEF Duplicate, BagToSet, client, server, TypeOK
    <2>2. DOMAIN net' = DOMAIN net \cup {d}
        BY <1>1, <2>1, Sent
    <2>3. DOMAIN net' = DOMAIN net
        BY <2>1, <2>2
    <2>4. QED
        BY <1>3, <2>1, <2>3
<1>10. ASSUME NEW d \in BagToSet(net), Corrupt(d) PROVE UsableInv'
    <2>1. /\ d \in DOMAIN net /\ d \in Datagrams
          /\ faults'.lost = faults.lost /\ faults'.bad = faults.bad + 1 /\ UNCHANGED <<cpc, up>>
        BY <1>1, <1>10 DEF Corrupt, BagToSet, client, server, TypeOK
    <2>2. PICK r \in Datagrams : r = [d EXCEPT !.good = FALSE]
        BY <2>1 DEF Datagrams
    <2>3. r.client = d.client
        BY <2>1, <2>2 DEF Datagrams
    <2>4. net' = (net (-) SetToBag({d})) (+) SetToBag({r})
        BY <1>10, <2>2 DEF Corrupt
    <2>5. DOMAIN net' = (IF net[d] = 1 THEN DOMAIN net \ {d} ELSE DOMAIN net) \cup {r}
        BY <1>1, <2>1, <2>4, ReplacedDomain
    <2>6. \A e \in DOMAIN net : \E f \in DOMAIN net' : f.client = e.client
        BY <2>3, <2>5
    <2>7. faults'.bad # 0
        BY <1>1, <2>1
    <2>8. QED
        BY <1>3, <2>1, <2>6, <2>7
<1>11. QED
    BY <1>4, <1>5, <1>6, <1>7, <1>8, <1>9, <1>10 DEF Next, Server, Network

(* The safety half of Finishes.  With a usable clientaddr.len, for any number*)
(* of clients: as long as the network lost nothing and no program crashed,   *)
(* whoever waits in client.c has its request or an answer under way, and only*)
(* a corrupted datagram can make a program crash.                            *)
THEOREM NobodyWaitsForNothing == Spec /\ addrlen = "enough" => [](NobodyStuck /\ CrashNeedsCorruption)
<1>1. TypeOK /\ UsableInv => NobodyStuck /\ CrashNeedsCorruption
    <2> SUFFICES ASSUME TypeOK, UsableInv PROVE NobodyStuck /\ CrashNeedsCorruption
        OBVIOUS
    <2>1. \A d \in DOMAIN net : d.rqrs \in {"request", "response"}
        BY DEF TypeOK, Datagrams
    <2>2. NobodyStuck
        BY <2>1 DEF UsableInv, WaitingHasOne, NobodyStuck, Crashed, InFlight, BagToSet
    <2>3. CrashNeedsCorruption
        BY DEF TypeOK, UsableInv, OnlySetData, CrashNeedsCorruption
    <2>4. QED
        BY <2>2, <2>3
<1>2. Spec => []TypeOK
    BY TypeCorrect
<1>3. QED
    BY <1>1, <1>2, UsableInit, UsableStep, PTL DEF Spec
=============================================================================
