------------------------ MODULE CompletionUafProofs ------------------------
(***************************************************************************)
(* Theorems about CompletionUaf for any set of readers, processes and heap *)
(* addresses: what use_fix protects, although a late reader may touch a    *)
(* work object that was freed or given to somebody else.                   *)
(***************************************************************************)
EXTENDS CompletionUaf, TLAPS

LEMMA TypeInit == Init => TypeOK
  BY DEF Init, TypeOK, Free

(* A thread that is between its first and its last step works on its own     *)
(* object; so does a reader until it waits.                                  *)
OwnInv ==
    \A r \in Readers :
        rpc[r] = "spawn" \/ tpc[r] \notin {"none", "exited"}
            => wd[r] \in Addrs /\ heap[wd[r]].owner = r

(* The reader's steps and its thread's steps come in order. *)
StageInv ==
    \A r \in Readers :
        /\ rpc[r] \in {"start", "spawn"} => tpc[r] = "none" /\ done[r] = 0
        /\ rpc[r] \in {"wait", "xchg", "wait_fix", "success", "interrupted"}
               => tpc[r] # "none" /\ wd[r] \in Addrs
        /\ comp[r] \in {r, "NULL"}
        /\ tpc[r] \in {"none", "delay", "xchg"} => comp[r] = "NULL"
        /\ done[r] = 1 => tpc[r] \in {"free", "exited"}

(* While the work object still points to the stack frame, or the thread is   *)
(* about to complete() on it, the reader has not returned.                   *)
FrameInv ==
    \A r \in Readers :
        /\ \A a \in Addrs :
               heap[a].complete # "NULL" => heap[a].complete = heap[a].owner
        /\ \A a \in Addrs :
               heap[a].complete = r => /\ rpc[r] \in {"spawn", "wait", "xchg"} /\ wd[r] = a
                                       /\ tpc[r] \in {"none", "delay", "xchg"}
        /\ use_fix /\ tpc[r] = "sleep" /\ comp[r] = r
               => /\ rpc[r] \in {"wait", "xchg", "wait_fix"}
                  /\ heap[wd[r]].complete = "NULL"
        /\ use_fix /\ rpc[r] = "success" => tpc[r] \in {"free", "exited"}

IInv == TypeOK /\ OwnInv /\ StageInv /\ FrameInv

LEMMA InvInit == Init => IInv
  BY TypeInit, NamesAssumption DEF Init, IInv, OwnInv, StageInv, FrameInv, Free

LEMMA InvNext == IInv /\ [Next]_vars => IInv'
  <1> SUFFICES ASSUME IInv, [Next]_vars PROVE IInv'
    OBVIOUS
  <1> USE DEF IInv
  <1>0. ASSUME UNCHANGED vars PROVE IInv'
    BY <1>0 DEF vars, TypeOK, OwnInv, StageInv, FrameInv
  <1>1. ASSUME NEW r \in Readers, Alloc(r) PROVE IInv'
    <2>1. PICK a \in Addrs : /\ heap[a].owner = "nobody"
                             /\ heap' = [heap EXCEPT ![a] = [owner |-> r, complete |-> r]]
                             /\ wd' = [wd EXCEPT ![r] = a]
      BY <1>1 DEF Alloc
    <2>2. rpc[r] = "start" /\ rpc' = [rpc EXCEPT ![r] = "spawn"]
          /\ UNCHANGED <<use_fix, done, tpc, comp, killed, stale>>
      BY <1>1 DEF Alloc
    <2>3. TypeOK'
      BY <2>1, <2>2 DEF TypeOK, Ended
    <2>4. OwnInv'
      BY <2>1, <2>2, NamesAssumption DEF TypeOK, OwnInv
    <2>5. StageInv'
      BY <2>1, <2>2 DEF TypeOK, StageInv
    <2>6. FrameInv'
      BY <2>1, <2>2, NamesAssumption DEF TypeOK, OwnInv, StageInv, FrameInv
    <2> QED
      BY <2>3, <2>4, <2>5, <2>6
  <1>2. ASSUME NEW r \in Readers, AllocFails(r) PROVE IInv'
    BY <1>2 DEF AllocFails, TypeOK, OwnInv, StageInv, FrameInv, Ended
  <1>3. ASSUME NEW r \in Readers, Spawn(r) PROVE IInv'
    BY <1>3 DEF Spawn, TypeOK, OwnInv, StageInv, FrameInv, Ended
  <1>4. ASSUME NEW r \in Readers, SpawnFails(r) PROVE IInv'
    <2>1. wd[r] \in Addrs /\ heap[wd[r]].owner = r /\ tpc[r] = "none"
      BY <1>4 DEF SpawnFails, OwnInv, StageInv
    <2>2. TypeOK'
      BY <1>4 DEF SpawnFails, TypeOK, Free, Ended
    <2>3. OwnInv'
      BY <1>4, <2>1 DEF SpawnFails, TypeOK, OwnInv
    <2>4. StageInv'
      BY <1>4, <2>1 DEF SpawnFails, TypeOK, StageInv
    <2>5. FrameInv'
      BY <1>4, <2>1, NamesAssumption DEF SpawnFails, TypeOK, FrameInv, Free
    <2> QED
      BY <2>2, <2>3, <2>4, <2>5
  <1>5. ASSUME NEW r \in Readers, WaitKillable(r) PROVE IInv'
    <2>1. TypeOK'
      BY <1>5 DEF WaitKillable, TypeOK, Ended
    <2>2. OwnInv' /\ StageInv'
      BY <1>5 DEF WaitKillable, TypeOK, OwnInv, StageInv
    <2>3. FrameInv'
      BY <1>5 DEF WaitKillable, TypeOK, StageInv, FrameInv
    <2> QED
      BY <2>1, <2>2, <2>3
  <1>6. ASSUME NEW r \in Readers, ReaderXchg(r) PROVE IInv'
    <2>1. /\ rpc[r] = "xchg" /\ wd[r] \in Addrs
          /\ heap' = [heap EXCEPT ![wd[r]].complete = "NULL"]
          /\ UNCHANGED <<use_fix, wd, done, tpc, comp, killed>>
          /\ stale' \subseteq Readers
      BY <1>6 DEF ReaderXchg, StageInv, TypeOK
    <2>2. PICK old \in Readers \cup {"NULL"} :
              /\ rpc' = [rpc EXCEPT ![r] = AfterXchg(r, old)]
              /\ heap[wd[r]].owner # "nobody" => old = heap[wd[r]].complete
      BY <1>6, <2>1 DEF ReaderXchg, TypeOK
    <2>3. /\ rpc'[r] \in {"interrupted", "wait_fix", "success"}
          /\ use_fix => rpc'[r] \in {"interrupted", "wait_fix"}
          /\ use_fix /\ old = "NULL" => rpc'[r] = "wait_fix"
      BY <2>1, <2>2 DEF AfterXchg, TypeOK
    <2>4. /\ heap' \in [Addrs -> [owner : Readers \cup {"nobody"}, complete : Readers \cup {"NULL"}]]
          /\ \A a \in Addrs : /\ heap'[a].owner = heap[a].owner
                              /\ heap'[a].complete = IF a = wd[r] THEN "NULL" ELSE heap[a].complete
      BY <2>1 DEF TypeOK
    <2>5. \A s \in Readers \ {r} : rpc'[s] = rpc[s]
      BY <2>2 DEF TypeOK
    <2>6. TypeOK'
      BY <2>1, <2>2, <2>3, <2>4, <2>5 DEF TypeOK, Ended
    <2>7. OwnInv'
      BY <2>1, <2>3, <2>4, <2>5 DEF OwnInv
    <2>8. StageInv'
      BY <2>1, <2>3, <2>5 DEF StageInv
    <2>9. ASSUME use_fix, tpc[r] = "sleep", comp[r] = r PROVE rpc'[r] = "wait_fix"
      <3>1. heap[wd[r]].complete = "NULL" /\ heap[wd[r]].owner = r
        BY <2>9 DEF OwnInv, FrameInv
      <3> QED
        BY <2>2, <2>3, <2>9, <3>1, NamesAssumption
    <2>10. FrameInv'
      BY <2>1, <2>3, <2>4, <2>5, <2>9, NamesAssumption DEF FrameInv
    <2> QED
      BY <2>6, <2>7, <2>8, <2>10
  <1>7. ASSUME NEW r \in Readers, WaitFix(r) PROVE IInv'
    <2>1. TypeOK'
      BY <1>7 DEF WaitFix, TypeOK, Ended
    <2>2. OwnInv' /\ StageInv'
      BY <1>7 DEF WaitFix, TypeOK, OwnInv, StageInv
    <2>3. FrameInv'
      BY <1>7 DEF WaitFix, TypeOK, StageInv, FrameInv
    <2> QED
      BY <2>1, <2>2, <2>3
  <1>8. ASSUME NEW r \in Readers, KillCaller(r) PROVE IInv'
    <2>1. TypeOK'
      BY <1>8, ProcAssumption DEF KillCaller, TypeOK
    <2>2. OwnInv' /\ StageInv'
      BY <1>8 DEF KillCaller, TypeOK, OwnInv, StageInv
    <2>3. FrameInv'
      BY <1>8 DEF KillCaller, TypeOK, FrameInv
    <2> QED
      BY <2>1, <2>2, <2>3
  <1>9. ASSUME NEW r \in Readers, ThreadXchg(r) PROVE IInv'
    <2>1. /\ tpc[r] = "xchg" /\ wd[r] \in Addrs /\ heap[wd[r]].owner = r
          /\ comp' = [comp EXCEPT ![r] = heap[wd[r]].complete]
          /\ heap' = [heap EXCEPT ![wd[r]].complete = "NULL"]
          /\ tpc' = [tpc EXCEPT ![r] = "sleep"]
          /\ UNCHANGED <<use_fix, wd, done, rpc, killed, stale>>
      BY <1>9 DEF ThreadXchg, OwnInv
    <2>2. heap[wd[r]].complete \in {r, "NULL"}
      BY <2>1 DEF FrameInv
    <2>3. /\ heap' \in [Addrs -> [owner : Readers \cup {"nobody"}, complete : Readers \cup {"NULL"}]]
          /\ \A a \in Addrs : /\ heap'[a].owner = heap[a].owner
                              /\ heap'[a].complete = IF a = wd[r] THEN "NULL" ELSE heap[a].complete
      BY <2>1 DEF TypeOK
    <2>4. /\ comp'[r] = heap[wd[r]].complete /\ tpc'[r] = "sleep"
          /\ \A s \in Readers \ {r} : comp'[s] = comp[s] /\ tpc'[s] = tpc[s]
      BY <2>1 DEF TypeOK
    <2>5. TypeOK'
      BY <2>1, <2>2, <2>3 DEF TypeOK
    <2>6. OwnInv'
      BY <2>1, <2>3, <2>4 DEF OwnInv
    <2>7. StageInv'
      BY <2>1, <2>2, <2>4 DEF StageInv
    <2>8. FrameInv'
      <3>1. ASSUME NEW s \in Readers, NEW a \in Addrs, heap'[a].complete = s
            PROVE  /\ rpc'[s] \in {"spawn", "wait", "xchg"} /\ wd'[s] = a
                   /\ tpc'[s] \in {"none", "delay", "xchg"}
        <4>1. heap[a].complete = s /\ a # wd[r]
          BY <2>3, <3>1, NamesAssumption
        <4>2. wd[s] = a /\ s # r
          BY <4>1 DEF FrameInv
        <4> QED
          BY <2>1, <2>4, <4>1, <4>2 DEF FrameInv
      <3>2. \A a \in Addrs : heap'[a].complete # "NULL" => heap'[a].complete = heap'[a].owner
        BY <2>3 DEF FrameInv
      <3>3. comp'[r] = r => heap[wd[r]].complete = r /\ rpc[r] \in {"wait", "xchg"}
        <4>1. ASSUME heap[wd[r]].complete = r PROVE rpc[r] \in {"spawn", "wait", "xchg"}
          BY <2>1, <4>1 DEF FrameInv
        <4>2. rpc[r] # "spawn"
          BY <2>1 DEF StageInv
        <4> QED
          BY <2>4, <4>1, <4>2
      <3>4. ASSUME NEW s \in Readers, use_fix', tpc'[s] = "sleep", comp'[s] = s
            PROVE  rpc'[s] \in {"wait", "xchg", "wait_fix"} /\ heap'[wd'[s]].complete = "NULL"
        <4>1. CASE s = r
          BY <2>1, <2>3, <3>3, <3>4, <4>1
        <4>2. CASE s # r
          <5>1. use_fix /\ tpc[s] = "sleep" /\ comp[s] = s
            BY <2>1, <2>4, <3>4, <4>2
          <5>2. wd[s] \in Addrs
            BY <5>1 DEF OwnInv
          <5>3. rpc[s] \in {"wait", "xchg", "wait_fix"} /\ heap[wd[s]].complete = "NULL"
            BY <5>1 DEF FrameInv
          <5> QED
            BY <2>1, <2>3, <5>2, <5>3
        <4> QED
          BY <4>1, <4>2
      <3>5. ASSUME NEW s \in Readers, use_fix', rpc'[s] = "success" PROVE tpc'[s] \in {"free", "exited"}
        BY <2>1, <2>4, <3>5 DEF FrameInv
      <3> QED
        BY <3>1, <3>2, <3>4, <3>5 DEF FrameInv
    <2> QED
      BY <2>5, <2>6, <2>7, <2>8
  <1>10. ASSUME NEW r \in Readers, Complete(r) PROVE IInv'
    <2>1. comp[r] \in {r, "NULL"}
      BY DEF StageInv
    <2>2. TypeOK'
      BY <1>10, <2>1 DEF Complete, TypeOK
    <2>3. OwnInv'
      BY <1>10 DEF Complete, TypeOK, OwnInv
    <2>4. StageInv'
      BY <1>10, <2>1 DEF Complete, TypeOK, StageInv
    <2>5. FrameInv'
      BY <1>10 DEF Complete, TypeOK, FrameInv
    <2> QED
      BY <2>2, <2>3, <2>4, <2>5
  <1>11. ASSUME NEW r \in Readers, FreeWork(r) PROVE IInv'
    <2>1. wd[r] \in Addrs /\ heap[wd[r]].owner = r
      BY <1>11 DEF FreeWork, OwnInv
    <2>2. TypeOK'
      BY <1>11 DEF FreeWork, TypeOK, Free
    <2>3. OwnInv'
      BY <1>11, <2>1 DEF FreeWork, TypeOK, OwnInv, StageInv
    <2>4. StageInv'
      BY <1>11 DEF FreeWork, TypeOK, StageInv
    <2>5. FrameInv'
      BY <1>11, <2>1, NamesAssumption DEF FreeWork, TypeOK, FrameInv, Free
    <2> QED
      BY <2>2, <2>3, <2>4, <2>5
  <1>12. ASSUME NEW p \in Procs, Kill(p) PROVE IInv'
    BY <1>12 DEF Kill, TypeOK, OwnInv, StageInv, FrameInv
  <1> QED
    BY <1>0, <1>1, <1>2, <1>3, <1>4, <1>5, <1>6, <1>7, <1>8, <1>9, <1>10, <1>11, <1>12
    DEF Next, Reader, CompletionThread

-----------------------------------------------------------------------------
(* Pointers, program counters and the completion count keep their types. *)
THEOREM TypeCorrect == Spec => []TypeOK
  BY InvInit, InvNext, PTL DEF Spec, IInv

(* use_fix does what it is for: complete() never writes into the frame of a  *)
(* reader that has returned.                                                 *)
THEOREM FrameAlive == Spec => []NoDeadFrame
  <1>1. IInv => NoDeadFrame
    BY DEF IInv, StageInv, FrameInv, NoDeadFrame, InCall, Ended
  <1> QED
    BY <1>1, InvInit, InvNext, PTL DEF Spec

(* kfree in test_work_complete frees what kzalloc gave this reader, once.    *)
THEOREM WorkOwned == Spec => []ThreadOwnsWork
  <1>1. IInv => ThreadOwnsWork
    BY DEF IInv, OwnInv, ThreadOwnsWork
  <1> QED
    BY <1>1, InvInit, InvNext, PTL DEF Spec

(* With use_fix a reported success means that complete() has run.            *)
THEOREM SuccessTrue == Spec => []SuccessMeansCompleted
  <1>1. IInv => SuccessMeansCompleted
    BY DEF IInv, FrameInv, SuccessMeansCompleted
  <1> QED
    BY <1>1, InvInit, InvNext, PTL DEF Spec

-----------------------------------------------------------------------------
(* What a reader waits for is on its way as long as no reader has exchanged  *)
(* in memory that is not its own: the pointer to its frame goes from the     *)
(* object to the thread, and from there to complete().                       *)
ServedInv ==
    stale = {} => \A r \in Readers :
        /\ rpc[r] \in {"spawn", "wait", "xchg"} =>
              /\ tpc[r] \in {"none", "delay", "xchg"} => heap[wd[r]].complete = r
              /\ tpc[r] = "sleep" => comp[r] = r
              /\ tpc[r] \in {"free", "exited"} => done[r] = 1
        /\ rpc[r] = "wait_fix" => done[r] = 1 \/ (tpc[r] = "sleep" /\ comp[r] = r)
        /\ tpc[r] \notin {"none", "delay"} => ProcOf[r] \in killed

(* A reader in its killable wait has its completion, or the signal, or a     *)
(* thread that has yet to send the signal; one in the wait of use_fix has its*)
(* completion or a thread that is about to complete it.                      *)
WaitIsServed ==
    stale = {} => \A r \in Readers :
        /\ rpc[r] = "wait" => done[r] = 1 \/ ProcOf[r] \in killed \/ tpc[r] = "delay"
        /\ rpc[r] = "wait_fix" => done[r] = 1 \/ (tpc[r] = "sleep" /\ comp[r] = r)

LEMMA ServedInit == Init => ServedInv
  BY DEF Init, ServedInv

LEMMA ServedNext == IInv /\ ServedInv /\ [Next]_vars => ServedInv'
  <1> SUFFICES ASSUME IInv, ServedInv, [Next]_vars, stale' = {}
               PROVE  ServedInv'
    BY DEF ServedInv
  <1> USE DEF IInv
  <1>0. ASSUME UNCHANGED vars PROVE ServedInv'
    BY <1>0 DEF vars, ServedInv
  <1>1. ASSUME NEW r \in Readers, Alloc(r) PROVE ServedInv'
    <2>1. PICK a \in Addrs : /\ heap[a].owner = "nobody"
                             /\ heap' = [heap EXCEPT ![a] = [owner |-> r, complete |-> r]]
                             /\ wd' = [wd EXCEPT ![r] = a]
      BY <1>1 DEF Alloc
    <2>2. rpc[r] = "start" /\ rpc' = [rpc EXCEPT ![r] = "spawn"]
          /\ UNCHANGED <<use_fix, done, tpc, comp, killed, stale>>
      BY <1>1 DEF Alloc
    <2>3. tpc[r] = "none" /\ heap'[a].complete = r /\ wd'[r] = a /\ rpc'[r] = "spawn"
      BY <2>1, <2>2 DEF StageInv, TypeOK
    <2>4. ASSUME NEW s \in Readers, s # r PROVE rpc'[s] = rpc[s] /\ wd'[s] = wd[s]
      BY <2>1, <2>2, <2>4 DEF TypeOK
    <2>5. ASSUME NEW s \in Readers, s # r, heap[wd[s]].complete = s, rpc[s] \in {"spawn", "wait", "xchg"},
                 tpc[s] \in {"none", "delay", "xchg"}
          PROVE  heap'[wd[s]].complete = s
      <3>1. wd[s] \in Addrs /\ heap[wd[s]].owner = s
        BY <2>5 DEF OwnInv, StageInv
      <3>2. wd[s] # a
        BY <2>1, <3>1, NamesAssumption
      <3> QED
        BY <2>1, <2>5, <3>2
    <2> QED
      BY <2>2, <2>3, <2>4, <2>5 DEF ServedInv
  <1>2. ASSUME NEW r \in Readers, AllocFails(r) PROVE ServedInv'
    BY <1>2 DEF AllocFails, ServedInv, TypeOK
  <1>3. ASSUME NEW r \in Readers, Spawn(r) PROVE ServedInv'
    BY <1>3 DEF Spawn, ServedInv, StageInv, TypeOK
  <1>4. ASSUME NEW r \in Readers, SpawnFails(r) PROVE ServedInv'
    <2>1. wd[r] \in Addrs /\ heap[wd[r]].owner = r /\ tpc[r] = "none"
      BY <1>4 DEF SpawnFails, OwnInv, StageInv
    <2>2. \A s \in Readers : s # r /\ rpc[s] \in {"spawn", "wait", "xchg"} /\ heap[wd[s]].complete = s
              => wd[s] # wd[r]
      BY <2>1, NamesAssumption DEF FrameInv
    <2> QED
      BY <1>4, <2>1, <2>2 DEF SpawnFails, ServedInv, TypeOK
  <1>5. ASSUME NEW r \in Readers, WaitKillable(r) PROVE ServedInv'
    BY <1>5 DEF WaitKillable, ServedInv, TypeOK
  <1>6. ASSUME NEW r \in Readers, ReaderXchg(r) PROVE ServedInv'
    <2>1. /\ rpc[r] = "xchg" /\ wd[r] \in Addrs
          /\ heap' = [heap EXCEPT ![wd[r]].complete = "NULL"]
          /\ UNCHANGED <<use_fix, wd, done, tpc, comp, killed>>
      BY <1>6 DEF ReaderXchg, StageInv, TypeOK
    <2>2. stale = {} /\ heap[wd[r]].owner = r
      BY <1>6 DEF ReaderXchg
    <2>3. rpc' = [rpc EXCEPT ![r] = AfterXchg(r, heap[wd[r]].complete)]
      BY <1>6, <2>2, NamesAssumption DEF ReaderXchg
    <2>4. rpc'[r] \in {"interrupted", "wait_fix", "success"}
          /\ (rpc'[r] = "wait_fix" => heap[wd[r]].complete = "NULL")
      BY <2>1, <2>3 DEF AfterXchg, TypeOK
    <2>5. \A s \in Readers : s # r => rpc'[s] = rpc[s]
      BY <2>3 DEF TypeOK
    <2>6. ASSUME rpc'[r] = "wait_fix" PROVE done[r] = 1 \/ (tpc[r] = "sleep" /\ comp[r] = r)
      <3>1. heap[wd[r]].complete # r
        BY <2>4, <2>6, NamesAssumption
      <3>2. tpc[r] \in {"sleep", "free", "exited"}
        BY <2>1, <2>2, <3>1 DEF ServedInv, TypeOK
      <3> QED
        BY <2>1, <2>2, <3>2 DEF ServedInv
    <2>7. ASSUME NEW s \in Readers, s # r, heap[wd[s]].complete = s, wd[s] \in Addrs
          PROVE  heap'[wd[s]].complete = s
      <3>1. wd[s] # wd[r]
        BY <2>2, <2>7, NamesAssumption DEF FrameInv
      <3> QED
        BY <2>1, <2>7, <3>1 DEF TypeOK
    <2>8. \A s \in Readers : rpc[s] \in {"spawn", "wait", "xchg"} => wd[s] \in Addrs
      BY DEF OwnInv, StageInv
    <2> QED
      BY <2>1, <2>2, <2>4, <2>5, <2>6, <2>7, <2>8 DEF ServedInv
  <1>7. ASSUME NEW r \in Readers, WaitFix(r) PROVE ServedInv'
    BY <1>7 DEF WaitFix, ServedInv, TypeOK
  <1>8. ASSUME NEW r \in Readers, KillCaller(r) PROVE ServedInv'
    BY <1>8 DEF KillCaller, ServedInv, TypeOK
  <1>9. ASSUME NEW r \in Readers, ThreadXchg(r) PROVE ServedInv'
    <2>1. /\ tpc[r] = "xchg" /\ wd[r] \in Addrs /\ heap[wd[r]].owner = r
          /\ comp' = [comp EXCEPT ![r] = heap[wd[r]].complete]
          /\ heap' = [heap EXCEPT ![wd[r]].complete = "NULL"]
          /\ tpc' = [tpc EXCEPT ![r] = "sleep"]
          /\ UNCHANGED <<use_fix, wd, done, rpc, killed, stale>>
      BY <1>9 DEF ThreadXchg, OwnInv
    <2>2. rpc[r] # "spawn" /\ done[r] # 1
      BY <2>1 DEF StageInv
    <2>3. rpc[r] \in {"wait", "xchg"} => comp'[r] = r
      BY <2>1 DEF ServedInv, TypeOK
    <2>4. \A s \in Readers : s # r => comp'[s] = comp[s] /\ tpc'[s] = tpc[s]
      BY <2>1 DEF TypeOK
    <2>5. rpc[r] # "wait_fix"
      BY <2>1, <2>2 DEF ServedInv
    <2>6. ASSUME NEW s \in Readers, s # r, heap[wd[s]].complete = s, wd[s] \in Addrs
          PROVE  heap'[wd[s]].complete = s
      <3>1. wd[s] # wd[r]
        BY <2>1, <2>6, NamesAssumption DEF FrameInv
      <3> QED
        BY <2>1, <2>6, <3>1 DEF TypeOK
    <2>7. \A s \in Readers : rpc[s] \in {"spawn", "wait", "xchg"} => wd[s] \in Addrs
      BY DEF OwnInv, StageInv
    <2>8. tpc'[r] = "sleep" /\ ProcOf[r] \in killed
      BY <2>1 DEF ServedInv, TypeOK
    <2> QED
      BY <2>1, <2>2, <2>3, <2>4, <2>5, <2>6, <2>7, <2>8 DEF ServedInv
  <1>10. ASSUME NEW r \in Readers, Complete(r) PROVE ServedInv'
    <2>1. tpc[r] = "sleep" /\ comp[r] \in {r, "NULL"} /\ tpc' = [tpc EXCEPT ![r] = "free"]
          /\ UNCHANGED <<use_fix, heap, wd, rpc, comp, killed, stale>>
      BY <1>10 DEF Complete, StageInv
    <2>2. done' = IF comp[r] = r /\ InCall(r) THEN [done EXCEPT ![r] = 1] ELSE done
      BY <1>10, <2>1, NamesAssumption DEF Complete
    <2>3. \A s \in Readers : s # r => done'[s] = done[s] /\ tpc'[s] = tpc[s]
      BY <2>1, <2>2 DEF TypeOK
    <2>4. rpc[r] \in {"spawn", "wait", "xchg", "wait_fix"} => done'[r] = 1
      BY <2>1, <2>2 DEF ServedInv, TypeOK, InCall, Ended, StageInv
    <2> QED
      BY <2>1, <2>3, <2>4 DEF ServedInv, TypeOK
  <1>11. ASSUME NEW r \in Readers, FreeWork(r) PROVE ServedInv'
    <2>1. wd[r] \in Addrs /\ heap[wd[r]].owner = r /\ tpc[r] = "free"
      BY <1>11 DEF FreeWork, OwnInv
    <2>2. \A s \in Readers : s # r /\ wd[s] \in Addrs /\ heap[wd[s]].complete = s => wd[s] # wd[r]
      BY <2>1, NamesAssumption DEF FrameInv
    <2>3. \A s \in Readers : rpc[s] \in {"spawn", "wait", "xchg"} => wd[s] \in Addrs
      BY DEF OwnInv, StageInv
    <2> QED
      BY <1>11, <2>1, <2>2, <2>3 DEF FreeWork, ServedInv, TypeOK
  <1>12. ASSUME NEW p \in Procs, Kill(p) PROVE ServedInv'
    BY <1>12 DEF Kill, ServedInv, TypeOK
  <1> QED
    BY <1>0, <1>1, <1>2, <1>3, <1>4, <1>5, <1>6, <1>7, <1>8, <1>9, <1>10, <1>11, <1>12
    DEF Next, Reader, CompletionThread

(* The safety half of ReadReturns: until a late reader's exchange has robbed *)
(* somebody, nobody waits in complete_uaf_test_proc_show for a completion    *)
(* that will not come.                                                       *)
THEOREM WaitsAreServed == Spec => []WaitIsServed
  <1>1. IInv /\ ServedInv => WaitIsServed
    BY DEF IInv, TypeOK, StageInv, ServedInv, WaitIsServed
  <1> QED
    BY <1>1, InvInit, InvNext, ServedInit, ServedNext, PTL DEF Spec
=============================================================================
