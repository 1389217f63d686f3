--------------------------- MODULE CompletionUaf ---------------------------
(***************************************************************************)
(* kernel_module/completion/complete-uaf.c: reading /proc/complete_uaf_test*)
(* puts a completion on the reader's stack, hands a heap object that points*)
(* to it to a new kernel thread, and waits; the thread kills the reader's  *)
(* process and then completes.  Whoever exchanges the pointer to NULL first*)
(* decides who may leave, and the module parameter use_fix adds a second   *)
(* wait for the reader that comes second.                                  *)
(*                                                                         *)
(* A reader is one call of complete_uaf_test_proc_show; it and its kernel  *)
(* thread have the same index.  Heap addresses are reused, so what a       *)
(* pointer to freed memory finds there is part of the model.               *)
(*                                                                         *)
(* An operator whose name ends in Faulty is its neighbour with a plausible *)
(* slip in it; no behaviour uses it.                                       *)
(***************************************************************************)
EXTENDS Naturals

CONSTANTS
    Readers,  \* calls of complete_uaf_test_proc_show
    Procs,    \* processes; a fatal signal goes to all the threads of one
    ProcOf,   \* the process a reader belongs to
    Addrs     \* where kzalloc may place a struct test_work

ASSUME ProcAssumption == ProcOf \in [Readers -> Procs]
ASSUME NamesAssumption == {"NULL", "nobody"} \cap Readers = {} /\ "nowhere" \notin Addrs

VARIABLES
    use_fix,  \* the module parameter, fixed while the module is loaded
    heap,     \* each address: who allocated it, and the field complete
    wd,       \* each reader's local pointer workdata
    done,     \* each reader's on-stack completion: how often it is complete
    rpc,      \* where the reader is, or how its call ended
    tpc,      \* where its completion_thread is
    comp,     \* the thread's local pointer comp
    killed,   \* processes with a fatal signal pending
    stale     \* history: readers that exchanged in memory not theirs any more

vars == <<use_fix, heap, wd, done, rpc, tpc, comp, killed, stale>>

Free    == [owner |-> "nobody", complete |-> "NULL"]
Ended   == {"success", "interrupted", "failed"}
InCall(r) == rpc[r] \notin Ended \cup {"start"}  \* its stack frame exists

TypeOK ==
    /\ use_fix \in BOOLEAN
    /\ heap \in [Addrs -> [owner : Readers \cup {"nobody"}, complete : Readers \cup {"NULL"}]]
    /\ wd \in [Readers -> Addrs \cup {"nowhere"}]
    /\ done \in [Readers -> {0, 1}]
    /\ rpc \in [Readers -> {"start", "spawn", "wait", "xchg", "wait_fix"} \cup Ended]
    /\ tpc \in [Readers -> {"none", "delay", "xchg", "sleep", "free", "exited"}]
    /\ comp \in [Readers -> Readers \cup {"NULL"}]
    /\ killed \subseteq Procs
    /\ stale \subseteq Readers

Init ==
    /\ use_fix \in BOOLEAN
    /\ heap = [a \in Addrs |-> Free]
    /\ wd = [r \in Readers |-> "nowhere"]
    /\ done = [r \in Readers |-> 0]
    /\ rpc = [r \in Readers |-> "start"]
    /\ tpc = [r \in Readers |-> "none"]
    /\ comp = [r \in Readers |-> "NULL"]
    /\ killed = {}
    /\ stale = {}

-----------------------------------------------------------------------------
(* The reader.                                                               *)

(* kzalloc and the fields of the new object; or -ENOMEM. *)
Alloc(r) ==
    /\ rpc[r] = "start"
    /\ \E a \in Addrs :
        /\ heap[a].owner = "nobody"
        /\ heap' = [heap EXCEPT ![a] = [owner |-> r, complete |-> r]]
        /\ wd' = [wd EXCEPT ![r] = a]
    /\ rpc' = [rpc EXCEPT ![r] = "spawn"]
    /\ UNCHANGED <<use_fix, done, tpc, comp, killed, stale>>

AllocFails(r) ==
    /\ rpc[r] = "start"
    /\ rpc' = [rpc EXCEPT ![r] = "failed"]
    /\ UNCHANGED <<use_fix, heap, wd, done, tpc, comp, killed, stale>>

Spawn(r) ==
    /\ rpc[r] = "spawn"
    /\ tpc' = [tpc EXCEPT ![r] = "delay"]
    /\ rpc' = [rpc EXCEPT ![r] = "wait"]
    /\ UNCHANGED <<use_fix, heap, wd, done, comp, killed, stale>>

(* kthread_run fails: the reader frees the object itself. *)
SpawnFails(r) ==
    /\ rpc[r] = "spawn"
    /\ heap' = [heap EXCEPT ![wd[r]] = Free]
    /\ rpc' = [rpc EXCEPT ![r] = "failed"]
    /\ UNCHANGED <<use_fix, wd, done, tpc, comp, killed, stale>>

(* wait_for_completion_killable: a completion that is there wins over a      *)
(* pending fatal signal.                                                     *)
WaitKillableFaulty(r) ==
    /\ rpc[r] = "wait"
    /\ \/ /\ done[r] = 1
          /\ done' = [done EXCEPT ![r] = 0]
          /\ rpc' = [rpc EXCEPT ![r] = "success"]
       \/ /\ done[r] = 0 /\ ProcOf[r] \in killed
          /\ rpc' = [rpc EXCEPT ![r] = "success"]
          /\ done' = done
    /\ UNCHANGED <<use_fix, heap, wd, tpc, comp, killed, stale>>
WaitKillable(r) ==
    /\ rpc[r] = "wait"
    /\ \/ /\ done[r] = 1
          /\ done' = [done EXCEPT ![r] = 0]
          /\ rpc' = [rpc EXCEPT ![r] = "success"]
       \/ /\ done[r] = 0 /\ ProcOf[r] \in killed
          /\ rpc' = [rpc EXCEPT ![r] = "xchg"]
          /\ done' = done
    /\ UNCHANGED <<use_fix, heap, wd, tpc, comp, killed, stale>>

(* What the reader does with the old value of workdata->complete: it got     *)
(* there first and leaves, or the thread did, and use_fix waits for it.      *)
AfterXchgFaulty(r, old) == IF old # "NULL" THEN "interrupted" ELSE "success"
AfterXchg(r, old) ==
    IF old # "NULL" THEN "interrupted" ELSE IF use_fix THEN "wait_fix" ELSE "success"

(* xchg(&workdata->complete, NULL) after the interrupted wait.  The thread   *)
(* may have freed the object by now: the value is then that of the new owner,*)
(* whose pointer is overwritten, or anything if the memory is not in use.    *)
ReaderXchgFaulty(r) ==
    LET cell == heap[wd[r]] IN
    /\ rpc[r] = "xchg"
    /\ rpc' = [rpc EXCEPT ![r] = AfterXchg(r, cell.complete)]
    /\ heap' = [heap EXCEPT ![wd[r]] = Free]
    /\ stale' = IF cell.owner = r THEN stale ELSE stale \cup {r}
    /\ UNCHANGED <<use_fix, wd, done, tpc, comp, killed>>
ReaderXchg(r) ==
    LET cell == heap[wd[r]] IN
    /\ rpc[r] = "xchg"
    /\ \E old \in IF cell.owner = "nobody" THEN {"NULL", r} ELSE {cell.complete} :
        rpc' = [rpc EXCEPT ![r] = AfterXchg(r, old)]
    /\ heap' = [heap EXCEPT ![wd[r]].complete = "NULL"]
    /\ stale' = IF cell.owner = r THEN stale ELSE stale \cup {r}
    /\ UNCHANGED <<use_fix, wd, done, tpc, comp, killed>>

(* wait_for_completion, under use_fix only. *)
WaitFixFaulty(r) ==
    /\ rpc[r] = "wait_fix"
    /\ done' = [done EXCEPT ![r] = @ - 1]
    /\ rpc' = [rpc EXCEPT ![r] = "success"]
    /\ UNCHANGED <<use_fix, heap, wd, tpc, comp, killed, stale>>
WaitFix(r) ==
    /\ rpc[r] = "wait_fix" /\ done[r] = 1
    /\ done' = [done EXCEPT ![r] = 0]
    /\ rpc' = [rpc EXCEPT ![r] = "success"]
    /\ UNCHANGED <<use_fix, heap, wd, tpc, comp, killed, stale>>

-----------------------------------------------------------------------------
(* completion_thread and test_work_complete.                                 *)

(* mdelay_with_yield, then kill_pid(caller_pid, SIGKILL). *)
KillCaller(r) ==
    /\ tpc[r] = "delay"
    /\ killed' = killed \cup {ProcOf[r]}
    /\ tpc' = [tpc EXCEPT ![r] = "xchg"]
    /\ UNCHANGED <<use_fix, heap, wd, done, rpc, comp, stale>>

ThreadXchg(r) ==
    /\ tpc[r] = "xchg"
    /\ comp' = [comp EXCEPT ![r] = heap[wd[r]].complete]
    /\ heap' = [heap EXCEPT ![wd[r]].complete = "NULL"]
    /\ tpc' = [tpc EXCEPT ![r] = "sleep"]
    /\ UNCHANGED <<use_fix, wd, done, rpc, killed, stale>>

(* msleep(100), then complete(comp).  On a frame that is gone the write hits *)
(* memory that is no completion any more.                                    *)
CompleteFaulty(r) ==
    /\ tpc[r] = "sleep"
    /\ done' = done
    /\ tpc' = [tpc EXCEPT ![r] = "free"]
    /\ UNCHANGED <<use_fix, heap, wd, rpc, comp, killed, stale>>
Complete(r) ==
    /\ tpc[r] = "sleep"
    /\ done' = IF comp[r] # "NULL" /\ InCall(comp[r])
               THEN [done EXCEPT ![comp[r]] = 1] ELSE done
    /\ tpc' = [tpc EXCEPT ![r] = "free"]
    /\ UNCHANGED <<use_fix, heap, wd, rpc, comp, killed, stale>>

FreeWork(r) ==
    /\ tpc[r] = "free"
    /\ heap' = [heap EXCEPT ![wd[r]] = Free]
    /\ tpc' = [tpc EXCEPT ![r] = "exited"]
    /\ UNCHANGED <<use_fix, wd, done, rpc, comp, killed, stale>>

-----------------------------------------------------------------------------
(* Anybody may kill a process. *)
Kill(p) ==
    /\ p \notin killed
    /\ killed' = killed \cup {p}
    /\ UNCHANGED <<use_fix, heap, wd, done, rpc, tpc, comp, stale>>

Reader(r) == \/ Alloc(r) \/ AllocFails(r) \/ Spawn(r) \/ SpawnFails(r)
             \/ WaitKillable(r) \/ ReaderXchg(r) \/ WaitFix(r)

CompletionThread(r) == KillCaller(r) \/ ThreadXchg(r) \/ Complete(r) \/ FreeWork(r)

Next == \/ \E r \in Readers : Reader(r) \/ CompletionThread(r)
        \/ \E p \in Procs : Kill(p)

Spec == Init /\ [][Next]_vars

(* A call that has begun and a thread that runs go on. *)
FairSpec == /\ Spec
            /\ \A r \in Readers : /\ WF_vars(rpc[r] # "start" /\ Reader(r))
                                  /\ WF_vars(CompletionThread(r))

-----------------------------------------------------------------------------
(* Properties.                                                               *)

(* With use_fix, the stack frame that test_work_complete is about to write   *)
(* into still exists: the reader cannot return between xchg and complete().  *)
NoDeadFrame ==
    use_fix => \A r \in Readers :
        tpc[r] = "sleep" /\ comp[r] # "NULL" => InCall(comp[r])

(* From kthread_run to kfree, completion_thread works on the object it was   *)
(* given: nobody else has freed it or allocated it again.                    *)
ThreadOwnsWork ==
    \A r \in Readers :
        tpc[r] \notin {"none", "exited"} => wd[r] \in Addrs /\ heap[wd[r]].owner = r

(* With use_fix, "test %d success" is printed only after complete().         *)
SuccessMeansCompleted ==
    use_fix => \A r \in Readers : rpc[r] = "success" => tpc[r] \in {"free", "exited"}

(* Every read that waits returns, as long as no reader has exchanged the     *)
(* pointer in an object that was freed (its NULL would rob the new owner of  *)
(* its complete()).                                                          *)
ReadReturns ==
    \A r \in Readers : rpc[r] = "wait" ~> rpc[r] \in Ended \/ stale # {}

(* "Test good case ... use_fix=1 ... There is no error." (README.org:143-151):*)
(* with use_fix, no reader touches its work object after kfree.              *)
NoUseAfterFree == use_fix => stale = {}
=============================================================================
