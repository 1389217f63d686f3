-------------------------- MODULE SmcHelperProofs --------------------------
(***************************************************************************)
(* Proofs about SmcHelper, for any clients, block size and number of calls.*)
(*                                                                         *)
(* The invariant follows each result through the one place it is in: held  *)
(* by the run that made the call, in the queue, or taken.  The queue has   *)
(* every result once, and behind the result of a run that is still clean   *)
(* there is nothing.                                                       *)
(***************************************************************************)
EXTENDS SmcHelper, TLAPS

InQueue(i) == \E k \in 1 .. Len(cmdb_head) : cmdb_head[k] = i
InTaken(i) == \E t \in taken : t[1] = i

RunsDiffer == \A c, d \in Clients : mine[c] = mine[d] /\ mine[c] # 0 => c = d
Old ==
    /\ \A c \in Clients : mine[c] <= calls
    /\ \A k \in 1 .. Len(cmdb_head) : cmdb_head[k] <= calls
    /\ \A t \in taken : t[1] <= calls
Busy == \A c \in Clients : pc[c] # "idle" => mine[c] # 0
Held == \A c \in Clients : pc[c] = "called" => ~InQueue(mine[c]) /\ ~InTaken(mine[c])
QueuedOnce == \A j, k \in 1 .. Len(cmdb_head) : cmdb_head[j] = cmdb_head[k] => j = k
NotTaken == \A k \in 1 .. Len(cmdb_head) : ~InTaken(cmdb_head[k])
LastIsOwn ==
    \A c \in Clients : pc[c] = "queued" /\ clean[c] /\ Len(cmdb_head) > 0 =>
        cmdb_head[Len(cmdb_head)] = mine[c]
NotLost ==
    \A c \in Clients : pc[c] = "queued" =>
        InQueue(mine[c]) \/ \E t \in taken : t[1] = mine[c] /\ t[2] # mine[c]

IInv ==
    /\ TypeOK
    /\ RunsDiffer /\ Old /\ Busy /\ Held /\ QueuedOnce /\ NotTaken /\ LastIsOwn /\ NotLost
    /\ TakenOnce /\ PrintsOwn /\ EmptyMeansTaken

-----------------------------------------------------------------------------
(* What one read takes is the front of the queue: 1 .. n.                    *)
LEMMA TakenByReadRange ==
    ASSUME TypeOK
    PROVE  /\ TakenByRead \in 0 .. Len(cmdb_head)
           /\ Len(cmdb_head) > 0 => TakenByRead > 0
           /\ Len(cmdb_head) <= Block => TakenByRead = Len(cmdb_head)
  BY BlockAssumption DEF TypeOK, TakenByRead

(* Dropping n elements moves the others n places to the front.               *)
LEMMA Dropped ==
    ASSUME NEW S, NEW q \in Seq(S), NEW n \in 0 .. Len(q)
    PROVE  /\ SubSeq(q, n + 1, Len(q)) \in Seq(S)
           /\ Len(SubSeq(q, n + 1, Len(q))) = Len(q) - n
           /\ \A k \in 1 .. Len(q) - n : SubSeq(q, n + 1, Len(q))[k] = q[n + k]
  OBVIOUS

(* Appending leaves the old elements in place and adds one behind them.      *)
LEMMA Appended ==
    ASSUME NEW S, NEW q \in Seq(S), NEW e \in S
    PROVE  /\ Append(q, e) \in Seq(S)
           /\ Len(Append(q, e)) = Len(q) + 1
           /\ \A k \in 1 .. Len(q) : Append(q, e)[k] = q[k]
           /\ Append(q, e)[Len(q) + 1] = e
  OBVIOUS

LEMMA InvInit == Init => IInv
  BY CallsAssumption
  DEF Init, IInv, TypeOK, RunsDiffer, Old, Busy, Held, QueuedOnce, NotTaken, LastIsOwn,
      NotLost, TakenOnce, PrintsOwn, EmptyMeansTaken, InQueue, InTaken, Calls

-----------------------------------------------------------------------------
(* The steps that change neither the queue nor what was taken.               *)
LEMMA InvAllocFails ==
    ASSUME IInv, NEW c \in Clients, AllocFails(c)
    PROVE  IInv'
<1>1. TypeOK'
  BY CallsAssumption DEF AllocFails, IInv, TypeOK
<1>2. RunsDiffer' /\ Old' /\ Busy' /\ Held'
  BY CallsAssumption
  DEF AllocFails, IInv, TypeOK, RunsDiffer, Old, Busy, Held, InQueue, InTaken
<1>3. QueuedOnce' /\ NotTaken' /\ TakenOnce'
  BY DEF AllocFails, IInv, QueuedOnce, NotTaken, TakenOnce, InTaken
<1>4. LastIsOwn' /\ NotLost'
  BY DEF AllocFails, IInv, TypeOK, LastIsOwn, NotLost, InQueue
<1>5. PrintsOwn' /\ EmptyMeansTaken'
  BY DEF AllocFails, IInv, TypeOK, PrintsOwn, EmptyMeansTaken
<1> QED
  BY <1>1, <1>2, <1>3, <1>4, <1>5 DEF IInv

LEMMA InvKilled ==
    ASSUME IInv, NEW c \in Clients, Killed(c)
    PROVE  IInv'
<1>1. TypeOK'
  BY CallsAssumption DEF Killed, IInv, TypeOK
<1>2. RunsDiffer' /\ Old' /\ Busy' /\ Held'
  BY CallsAssumption
  DEF Killed, IInv, TypeOK, RunsDiffer, Old, Busy, Held, InQueue, InTaken
<1>3. QueuedOnce' /\ NotTaken' /\ TakenOnce'
  BY DEF Killed, IInv, QueuedOnce, NotTaken, TakenOnce, InTaken
<1>4. LastIsOwn' /\ NotLost'
  BY DEF Killed, IInv, TypeOK, LastIsOwn, NotLost, InQueue
<1>5. PrintsOwn' /\ EmptyMeansTaken'
  BY DEF Killed, IInv, TypeOK, PrintsOwn, EmptyMeansTaken
<1> QED
  BY <1>1, <1>2, <1>3, <1>4, <1>5 DEF IInv

(* A new call has a number that is nowhere else.                             *)
LEMMA InvCall ==
    ASSUME IInv, NEW c \in Clients, Call(c)
    PROVE  IInv'
<1> USE CallsAssumption DEF Call
<1>1. /\ calls \in Nat /\ calls' = calls + 1 /\ calls' \in Calls
      /\ mine \in [Clients -> 0 .. MaxCalls]
      /\ mine' = [mine EXCEPT ![c] = calls'] /\ pc' = [pc EXCEPT ![c] = "called"]
      /\ UNCHANGED <<cmdb_head, clean, taken>>
  BY DEF IInv, TypeOK, Calls
<1>2. TypeOK'
  BY <1>1 DEF IInv, TypeOK, Calls
<1>3. cmdb_head \in Seq(Calls) /\ (\A t \in taken : t[1] \in Calls)
  BY DEF IInv, TypeOK
<1>4. \A d \in Clients : mine[d] # calls'
  BY <1>1 DEF IInv, Old
<1>5. RunsDiffer'
  BY <1>1, <1>4 DEF IInv, TypeOK, RunsDiffer
<1>6. ~InQueue(calls') /\ ~InTaken(calls')
  BY <1>1, <1>3 DEF IInv, Old, InQueue, InTaken, Calls
<1>7. Old'
  BY <1>1, <1>3 DEF IInv, Old, TypeOK, Calls
<1>8. Busy'
  BY <1>1 DEF IInv, Busy, TypeOK
<1>9. Held'
  BY <1>1, <1>6 DEF IInv, Held, TypeOK, InQueue, InTaken
<1>10. QueuedOnce' /\ NotTaken' /\ TakenOnce'
  BY <1>1 DEF IInv, QueuedOnce, NotTaken, TakenOnce, InTaken
<1>14. \A d \in Clients : pc'[d] = "queued" =>
            pc[d] = "queued" /\ mine'[d] = mine[d] /\ clean'[d] = clean[d]
  BY <1>1 DEF IInv, TypeOK
<1>15. LastIsOwn' /\ NotLost'
  BY <1>1, <1>14 DEF IInv, LastIsOwn, NotLost, InQueue
<1>11. \A d \in Clients : pc'[d] = "idle" =>
            /\ pc[d] = "idle" /\ mine'[d] = mine[d]
            /\ got'[d] = got[d] /\ clean'[d] = clean[d]
  BY <1>1 DEF IInv, TypeOK
<1>12. PrintsOwn'
  BY <1>11 DEF IInv, PrintsOwn
<1>13. EmptyMeansTaken'
  BY <1>1, <1>11 DEF IInv, EmptyMeansTaken
<1> QED
  BY <1>2, <1>5, <1>7, <1>8, <1>9, <1>10, <1>12, <1>13, <1>15 DEF IInv

(* The result of a call joins the queue, and every other run before its read *)
(* is no longer clean.                                                       *)
LEMMA InvEnqueue ==
    ASSUME IInv, NEW c \in Clients, Enqueue(c)
    PROVE  IInv'
<1> DEFINE n == Len(cmdb_head)
<1>1. /\ pc[c] = "called" /\ mine[c] \in Calls
      /\ cmdb_head \in Seq(Calls) /\ cmdb_head' = Append(cmdb_head, mine[c])
      /\ pc' = [pc EXCEPT ![c] = "queued"]
      /\ UNCHANGED <<calls, mine, got, taken>>
  BY CallsAssumption DEF Enqueue, list_add_tail, IInv, TypeOK, Busy, Calls
<1>2. /\ n \in Nat /\ n' = n + 1
      /\ cmdb_head' \in Seq(Calls)
      /\ \A k \in 1 .. n : cmdb_head'[k] = cmdb_head[k]
      /\ cmdb_head'[n + 1] = mine[c]
  BY <1>1, Appended
<1>3. \A d \in Clients : /\ clean'[d] \in BOOLEAN
                         /\ d # c /\ clean'[d] => clean[d] /\ pc[d] # "queued"
  BY DEF Enqueue, IInv, TypeOK
<1>4. TypeOK'
  BY <1>1, <1>2 DEF Enqueue, IInv, TypeOK
<1>5. /\ ~InQueue(mine[c]) /\ ~InTaken(mine[c])
      /\ mine[c] # 0 /\ \A d \in Clients : d # c => mine[d] # mine[c]
  BY <1>1 DEF IInv, Held, Busy, RunsDiffer
<1>6. RunsDiffer' /\ TakenOnce'
  BY <1>1 DEF IInv, RunsDiffer, TakenOnce
<1>7. Old'
  BY <1>1, <1>2 DEF IInv, Old
<1>8. Busy' /\ PrintsOwn' /\ EmptyMeansTaken'
  <2>1. \A d \in Clients : pc'[d] = "idle" => d # c /\ pc[d] = "idle"
    BY <1>1 DEF IInv, TypeOK
  <2>2. \A d \in Clients : pc'[d] # "idle" => pc[d] # "idle"
    BY <1>1 DEF IInv, TypeOK
  <2> QED
    BY <1>1, <1>3, <2>1, <2>2 DEF IInv, Busy, PrintsOwn, EmptyMeansTaken
<1>9. \A i : InQueue(i)' <=> InQueue(i) \/ i = mine[c]
  BY <1>2 DEF InQueue
<1>10. \A i : InTaken(i)' <=> InTaken(i)
  BY <1>1 DEF InTaken
<1>11. Held'
  <2>1. \A d \in Clients : pc'[d] = "called" => d # c /\ pc[d] = "called"
    BY <1>1 DEF IInv, TypeOK
  <2> QED
    BY <1>1, <1>5, <1>9, <1>10, <2>1 DEF IInv, Held
<1>12. QueuedOnce'
  BY <1>2, <1>5 DEF IInv, QueuedOnce, InQueue
<1>13. NotTaken'
  BY <1>2, <1>5, <1>10 DEF IInv, NotTaken
<1>14. LastIsOwn'
  BY <1>1, <1>2, <1>3 DEF IInv, TypeOK, LastIsOwn
<1>15. NotLost'
  BY <1>1, <1>9 DEF IInv, TypeOK, NotLost
<1> QED
  BY <1>4, <1>6, <1>7, <1>8, <1>11, <1>12, <1>13, <1>14, <1>15 DEF IInv

(* A read moves the front of the queue to taken.  If the queue fits in a     *)
(* block, the last result taken is the last of the queue.                    *)
LEMMA InvRead ==
    ASSUME IInv, NEW c \in Clients, Read(c)
    PROVE  IInv'
<1> DEFINE n == TakenByRead
           L == Len(cmdb_head)
<1>1. /\ cmdb_head \in Seq(Calls) /\ L \in Nat /\ n \in 0 .. L
      /\ L > 0 => n > 0
      /\ L <= Block => n = L
  BY TakenByReadRange DEF IInv, TypeOK
<1>2. /\ pc[c] = "queued" /\ pc' = [pc EXCEPT ![c] = "idle"]
      /\ cmdb_head' = SubSeq(cmdb_head, n + 1, L)
      /\ taken' = taken \cup {<<cmdb_head[k], mine[c]>> : k \in 1 .. n}
      /\ got' = [got EXCEPT ![c] = Copied(n)]
      /\ clean' = [clean EXCEPT ![c] = @ /\ L <= Block]
      /\ UNCHANGED <<calls, mine>>
  BY DEF Read, list_del
<1>3. /\ cmdb_head' \in Seq(Calls) /\ Len(cmdb_head)' = L - n
      /\ \A k \in 1 .. L - n : cmdb_head'[k] = cmdb_head[n + k]
  BY <1>1, <1>2, Dropped
<1>4. mine[c] \in Calls /\ mine[c] # 0
  BY <1>2, CallsAssumption DEF IInv, TypeOK, Busy, Calls
<1>5. \A k \in 1 .. L : cmdb_head[k] \in Calls
  BY <1>1
<1>6. TypeOK'
  <2>1. Copied(n) \subseteq Calls
    BY <1>1, <1>5 DEF Copied
  <2>2. taken' \subseteq Calls \X Calls
    BY <1>1, <1>2, <1>4, <1>5 DEF IInv, TypeOK
  <2>3. got' \in [Clients -> SUBSET Calls] /\ pc' \in [Clients -> {"idle", "called", "queued"}]
    BY <1>2, <2>1 DEF IInv, TypeOK
  <2>4. clean' \in [Clients -> BOOLEAN]
    BY <1>2 DEF IInv, TypeOK
  <2> QED
    BY <1>2, <1>3, <2>2, <2>3, <2>4 DEF IInv, TypeOK
<1>7. /\ \A t \in taken : t \in taken'
      /\ \A k \in 1 .. n : <<cmdb_head[k], mine[c]>> \in taken'
      /\ \A t \in taken' :
            \/ t \in taken
            \/ \E k \in 1 .. n : t = <<cmdb_head[k], mine[c]>>
  BY <1>2
<1>8. \A i : InTaken(i)' <=> InTaken(i) \/ \E k \in 1 .. n : cmdb_head[k] = i
  <2> TAKE i
  <2>1. InTaken(i) => InTaken(i)'
    BY <1>7 DEF InTaken
  <2>2. ASSUME NEW k \in 1 .. n, cmdb_head[k] = i
        PROVE  InTaken(i)'
    <3>1. <<i, mine[c]>> \in taken' /\ <<i, mine[c]>>[1] = i
      BY <1>7, <2>2
    <3> QED
      BY <3>1 DEF InTaken
  <2>3. InTaken(i)' => InTaken(i) \/ \E k \in 1 .. n : cmdb_head[k] = i
    BY <1>7 DEF InTaken
  <2> QED
    BY <2>1, <2>2, <2>3
<1>9. \A i : InQueue(i)' => InQueue(i)
  BY <1>1, <1>3 DEF InQueue
<1>10. \A i : InQueue(i) => InQueue(i)' \/ \E k \in 1 .. n : cmdb_head[k] = i
  <2> SUFFICES ASSUME NEW i, NEW k \in 1 .. L, cmdb_head[k] = i, ~(k \in 1 .. n)
               PROVE  InQueue(i)'
    BY DEF InQueue
  <2>1. k - n \in 1 .. L - n /\ n + (k - n) = k
    BY <1>1
  <2> QED
    BY <1>3, <2>1 DEF InQueue
<1>11. \A d \in Clients : /\ pc'[d] # "idle" => d # c /\ pc[d] = pc'[d] /\ clean'[d] = clean[d]
                          /\ d # c => pc'[d] = pc[d] /\ clean'[d] = clean[d] /\ got'[d] = got[d]
  BY <1>2 DEF IInv, TypeOK
<1>12. RunsDiffer' /\ Busy'
  BY <1>2, <1>11 DEF IInv, RunsDiffer, Busy
<1>13. Old'
  <2>1. ASSUME NEW t \in taken'
        PROVE  t[1] <= calls'
    <3>1. CASE t \in taken
      BY <1>2, <3>1 DEF IInv, Old
    <3>2. CASE \E k \in 1 .. n : t = <<cmdb_head[k], mine[c]>>
      <4>1. PICK k \in 1 .. n : t = <<cmdb_head[k], mine[c]>>
        BY <3>2
      <4>2. k \in 1 .. L /\ t[1] = cmdb_head[k]
        BY <1>1, <4>1
      <4> QED
        BY <1>2, <4>2 DEF IInv, Old
    <3> QED
      BY <1>7, <3>1, <3>2
  <2> QED
    BY <1>1, <1>2, <1>3, <2>1 DEF IInv, Old
<1>14. Held'
  <2> SUFFICES ASSUME NEW d \in Clients, NEW i, mine'[d] = i, pc'[d] = "called"
               PROVE  ~InQueue(i)' /\ ~InTaken(i)'
    BY DEF Held, InQueue, InTaken
  <2>1. ~InQueue(i) /\ ~InTaken(i)
    BY <1>2, <1>11 DEF IInv, Held
  <2>2. \A k \in 1 .. n : cmdb_head[k] # i
    BY <1>1, <2>1 DEF InQueue
  <2> QED
    BY <1>8, <1>9, <2>1, <2>2
<1>15. QueuedOnce'
  <2> SUFFICES ASSUME NEW j \in 1 .. L - n, NEW k \in 1 .. L - n, cmdb_head'[j] = cmdb_head'[k]
               PROVE  j = k
    BY <1>3 DEF QueuedOnce
  <2>1. n + j \in 1 .. L /\ n + k \in 1 .. L
    BY <1>1
  <2>2. n + j = n + k
    BY <1>3, <2>1 DEF IInv, QueuedOnce
  <2> QED
    BY <1>1, <2>2
<1>16. NotTaken'
  <2> SUFFICES ASSUME NEW k \in 1 .. L - n, NEW e, e = cmdb_head'[k], InTaken(e)'
               PROVE  FALSE
    BY <1>3 DEF NotTaken, InTaken
  <2>1. n + k \in 1 .. L /\ \A j \in 1 .. n : j \in 1 .. L /\ j # n + k
    BY <1>1
  <2>2. e = cmdb_head[n + k]
    BY <1>3
  <2>3. ~InTaken(cmdb_head[n + k])
    BY <2>1 DEF IInv, NotTaken
  <2>4. \A j \in 1 .. n : cmdb_head[j] # cmdb_head[n + k]
    BY <2>1 DEF IInv, QueuedOnce
  <2> QED
    BY <1>8, <2>2, <2>3, <2>4
<1>17. LastIsOwn'
  <2> SUFFICES ASSUME NEW d \in Clients, pc'[d] = "queued", clean'[d], L - n > 0
               PROVE  cmdb_head'[L - n] = mine'[d]
    BY <1>3 DEF LastIsOwn
  <2>1. L - n \in 1 .. L - n /\ n + (L - n) = L /\ L > 0
    BY <1>1
  <2> QED
    BY <1>2, <1>3, <1>11, <2>1 DEF IInv, LastIsOwn
<1>18. NotLost'
  <2> SUFFICES ASSUME NEW d \in Clients, pc'[d] = "queued"
               PROVE  \/ InQueue(mine[d])'
                      \/ \E t \in taken' : t[1] = mine[d] /\ t[2] # mine[d]
    BY <1>2 DEF NotLost, InQueue
  <2>1. d # c /\ pc[d] = "queued" /\ mine[d] # mine[c]
    BY <1>4, <1>11 DEF IInv, RunsDiffer
  <2>2. CASE InQueue(mine[d])
    <3>1. CASE \E k \in 1 .. n : cmdb_head[k] = mine[d]
      <4>1. PICK k \in 1 .. n : cmdb_head[k] = mine[d]
        BY <3>1
      <4>2. <<mine[d], mine[c]>> \in taken'
        BY <1>7, <4>1
      <4> QED
        BY <2>1, <4>2
    <3>2. CASE ~\E k \in 1 .. n : cmdb_head[k] = mine[d]
      BY <1>2, <1>10, <2>2, <3>2 DEF InQueue
    <3> QED
      BY <3>1, <3>2
  <2>3. CASE ~InQueue(mine[d])
    BY <1>7, <2>1, <2>3 DEF IInv, NotLost
  <2> QED
    BY <2>2, <2>3
<1>19. TakenOnce'
  <2> SUFFICES ASSUME NEW s \in taken', NEW t \in taken', s[1] = t[1]
               PROVE  s = t
    BY DEF TakenOnce
  <2>1. \A k \in 1 .. n : ~InTaken(cmdb_head[k])
    BY <1>1 DEF IInv, NotTaken
  <2>2. CASE s \in taken /\ t \in taken
    BY <2>2 DEF IInv, TakenOnce
  <2>3. CASE s \in taken /\ t \notin taken
    BY <1>7, <2>1, <2>3 DEF InTaken
  <2>4. CASE s \notin taken /\ t \in taken
    BY <1>7, <2>1, <2>4 DEF InTaken
  <2>5. CASE s \notin taken /\ t \notin taken
    BY <1>7, <2>5
  <2> QED
    BY <2>2, <2>3, <2>4, <2>5
<1>20. PrintsOwn'
  <2> SUFFICES ASSUME NEW d \in Clients, pc'[d] = "idle", clean'[d], mine[d] # 0
               PROVE  got'[d] \subseteq {mine[d]}
    BY <1>2 DEF PrintsOwn
  <2>1. CASE d # c
    BY <1>11, <2>1 DEF IInv, PrintsOwn
  <2>2. CASE d = c
    <3>1. clean[c] /\ L <= Block /\ got'[c] = Copied(n)
      BY <1>2, <2>2 DEF IInv, TypeOK
    <3>2. n # 0 => cmdb_head[n] = mine[c]
      BY <1>1, <1>2, <3>1 DEF IInv, LastIsOwn
    <3> QED
      BY <2>2, <3>1, <3>2 DEF Copied
  <2> QED
    BY <2>1, <2>2
<1>21. EmptyMeansTaken'
  <2> SUFFICES ASSUME NEW d \in Clients, pc'[d] = "idle", mine[d] # 0, got'[d] = {}
               PROVE  \E t \in taken' : t[1] = mine[d] /\ t[2] # mine[d]
    BY <1>2 DEF EmptyMeansTaken
  <2>1. CASE d # c
    BY <1>7, <1>11, <2>1 DEF IInv, EmptyMeansTaken
  <2>2. CASE d = c
    <3>1. got'[c] = Copied(n)
      BY <1>2 DEF IInv, TypeOK
    <3>2. n = 0
      BY <2>2, <3>1 DEF Copied
    <3>3. L = 0
      BY <1>1, <3>2
    <3>4. ~InQueue(mine[c])
      BY <3>3 DEF InQueue
    <3> QED
      BY <1>2, <1>7, <2>2, <3>4 DEF IInv, NotLost
  <2> QED
    BY <2>1, <2>2
<1> QED
  BY <1>6, <1>12, <1>13, <1>14, <1>15, <1>16, <1>17, <1>18, <1>19, <1>20, <1>21 DEF IInv

-----------------------------------------------------------------------------
LEMMA InvNext == IInv /\ [Next]_vars => IInv'
<1> SUFFICES ASSUME IInv, [Next]_vars PROVE IInv'
  OBVIOUS
<1>1. CASE UNCHANGED vars
  BY <1>1 DEF vars, IInv, TypeOK, RunsDiffer, Old, Busy, Held, QueuedOnce, NotTaken, LastIsOwn,
      NotLost, TakenOnce, PrintsOwn, EmptyMeansTaken, InQueue, InTaken
<1>2. CASE Next
  BY <1>2, InvAllocFails, InvCall, InvEnqueue, InvRead, InvKilled DEF Next
<1> QED
  BY <1>1, <1>2

LEMMA Invariant == Spec => []IInv
  BY InvInit, InvNext, PTL DEF Spec

(* Type correctness of the queue and of the clients' runs.                   *)
THEOREM TypeCorrect == Spec => []TypeOK
<1>1. IInv => TypeOK
  BY DEF IInv
<1> QED
  BY Invariant, <1>1, PTL

(* A run of smc prints its own result or none if no other run queued one     *)
(* before its read, although smc_read copies all results to one place.       *)
THEOREM OwnPrinted == Spec => []PrintsOwn
<1>1. IInv => PrintsOwn
  BY DEF IInv
<1> QED
  BY Invariant, <1>1, PTL

(* The queue gives each result to one read.                                  *)
THEOREM ResultTakenOnce == Spec => []TakenOnce
<1>1. IInv => TakenOnce
  BY DEF IInv
<1> QED
  BY Invariant, <1>1, PTL

(* A run that finds the queue empty lost its result to another run.          *)
THEOREM ResultNotLost == Spec => []EmptyMeansTaken
<1>1. IInv => EmptyMeansTaken
  BY DEF IInv
<1> QED
  BY Invariant, <1>1, PTL

=============================================================================
