------------------------------ MODULE WorkTest ------------------------------
(***************************************************************************)
(* kernel_module/workqueue_test/work-test.c: num_work entries, each with a *)
(* periodic timer that queues its work item and a thread; a CPU that comes *)
(* up restarts the timers of its entries; unload takes all of them down    *)
(* and frees them, entry by entry.                                         *)
(***************************************************************************)
EXTENDS Naturals

CONSTANTS
    num_work,      \* entries 0 .. num_work - 1
    WorkCpus,      \* num_possible_cpus()
    MaxCpuUps      \* bound: CPUs that come up while the module is there

ASSUME WorkAssumption == num_work \in Nat /\ WorkCpus \in Nat \ {0} /\ MaxCpuUps \in Nat

VARIABLES
    wtAt,     \* alloc, start, thread, setup, in, remove, stop, cancel, sync, free, out, leaked, crashed
    wtEntry,  \* the entry that the load or the unload has reached
    wtTimer,  \* for each entry: none, armed, firing
    wtWork,   \* for each entry: its work item is pending, running, or both
    wtThread, \* for each entry: none, alive, error
    wtFreed,  \* the entries freed
    slot,     \* the hotplug callbacks: none, ours, error
    rebind,   \* the entries a CPU that is coming up has still to rebind
    cpuUps    \* CPUs that came up

wtVars == <<wtAt, wtEntry, wtTimer, wtWork, wtThread, wtFreed, slot, rebind, cpuUps>>
Works == 0 .. num_work - 1

WorkTypeOK ==
    /\ wtAt \in {"alloc", "start", "thread", "setup", "in", "remove", "stop", "cancel",
                 "sync", "free", "out", "leaked", "crashed"}
    /\ wtEntry \in 0 .. num_work
    /\ wtTimer \in [Works -> {"none", "armed", "firing"}]
    /\ wtWork \in [Works -> SUBSET {"pending", "running"}]
    /\ wtThread \in [Works -> {"none", "alive", "error"}]
    /\ wtFreed \subseteq Works /\ rebind \subseteq Works
    /\ slot \in {"none", "ours", "error"}
    /\ cpuUps \in 0 .. MaxCpuUps

WorkInit ==
    /\ wtAt = "alloc" /\ wtEntry = 0
    /\ wtTimer = [i \in Works |-> "none"] /\ wtWork = [i \in Works |-> {}]
    /\ wtThread = [i \in Works |-> "none"]
    /\ wtFreed = {} /\ rebind = {} /\ slot = "none" /\ cpuUps = 0

-----------------------------------------------------------------------------
(* proc_workqueue_unbound_test_init.  Without an id the load fails and leaves*)
(* what it started; the result of kzalloc is not looked at.                  *)
idr_alloc ==
    /\ wtAt = "alloc"
    /\ wtAt' \in IF wtEntry = num_work THEN {"setup"} ELSE {"start", "leaked", "crashed"}
    /\ UNCHANGED <<wtEntry, wtTimer, wtWork, wtThread, wtFreed, slot, rebind, cpuUps>>

wt_hrtimer_start ==
    /\ wtAt = "start" /\ wtAt' = "thread"
    /\ wtTimer' = [wtTimer EXCEPT ![wtEntry] = "armed"]
    /\ UNCHANGED <<wtEntry, wtWork, wtThread, wtFreed, slot, rebind, cpuUps>>

wt_kthread_run ==
    /\ wtAt = "thread" /\ wtAt' = "alloc"
    /\ \E result \in {"alive", "error"} : wtThread' = [wtThread EXCEPT ![wtEntry] = result]
    /\ wtEntry' = wtEntry + 1
    /\ UNCHANGED <<wtTimer, wtWork, wtFreed, slot, rebind, cpuUps>>

(* cpuhp_setup_state calls wq_test_cpu_online for the CPUs that are online.  *)
EntriesOf(online) == {i \in Works : i % WorkCpus \in online}

cpuhp_setup_state ==
    /\ wtAt = "setup" /\ wtAt' = "in"
    /\ \/ slot' = "ours" /\ \E online \in SUBSET (0 .. WorkCpus - 1) : rebind' = EntriesOf(online)
       \/ slot' = "error" /\ UNCHANGED rebind
    /\ UNCHANGED <<wtEntry, wtTimer, wtWork, wtThread, wtFreed, cpuUps>>

CpuUp ==
    /\ slot = "ours" /\ rebind = {} /\ cpuUps < MaxCpuUps
    /\ \E cpu \in 0 .. WorkCpus - 1 : rebind' = EntriesOf({cpu})
    /\ cpuUps' = cpuUps + 1
    /\ UNCHANGED <<wtAt, wtEntry, wtTimer, wtWork, wtThread, wtFreed, slot>>

(* wq_test_cpu_online for one entry: hrtimer_cancel waits for its function.  *)
wq_test_cpu_online(i) ==
    /\ i \in rebind /\ wtTimer[i] # "firing"
    /\ rebind' = rebind \ {i}
    /\ wtTimer' = [wtTimer EXCEPT ![i] = "armed"]
    /\ UNCHANGED <<wtAt, wtEntry, wtWork, wtThread, wtFreed, slot, cpuUps>>

-----------------------------------------------------------------------------
(* The timer fires; hrtimer_func queues the work item and restarts it.       *)
wt_expire(i) ==
    /\ wtTimer[i] = "armed"
    /\ wtTimer' = [wtTimer EXCEPT ![i] = "firing"]
    /\ UNCHANGED <<wtAt, wtEntry, wtWork, wtThread, wtFreed, slot, rebind, cpuUps>>

hrtimer_func(i) ==
    /\ wtTimer[i] = "firing"
    /\ wtTimer' = [wtTimer EXCEPT ![i] = "armed"]
    /\ wtWork' = [wtWork EXCEPT ![i] = @ \cup {"pending"}]
    /\ UNCHANGED <<wtAt, wtEntry, wtThread, wtFreed, slot, rebind, cpuUps>>

test_work_func(i) ==
    /\ \/ wtWork[i] = {"pending"} /\ wtWork' = [wtWork EXCEPT ![i] = {"running"}]
       \/ "running" \in wtWork[i] /\ wtWork' = [wtWork EXCEPT ![i] = @ \ {"running"}]
    /\ UNCHANGED <<wtAt, wtEntry, wtTimer, wtThread, wtFreed, slot, rebind, cpuUps>>

-----------------------------------------------------------------------------
(* proc_workqueue_unbound_test_remove, and item_idr_free for each entry: the *)
(* hotplug callbacks go with the first one, which waits for a CPU that is    *)
(* coming up; a negative state other than -1 is a BUG, and so is stopping    *)
(* the thread that was never made.                                           *)
StartRemove ==
    /\ wtAt = "in" /\ rebind = {}
    /\ wtAt' = "remove" /\ wtEntry' = 0
    /\ UNCHANGED <<wtTimer, wtWork, wtThread, wtFreed, slot, rebind, cpuUps>>

cpuhp_remove_stateFaulty ==
    /\ wtAt = "remove" /\ wtEntry < num_work /\ rebind = {}
    /\ wtAt' = IF slot = "error" THEN "crashed" ELSE "stop"
    /\ UNCHANGED <<wtEntry, wtTimer, wtWork, wtThread, wtFreed, slot, rebind, cpuUps>>
cpuhp_remove_state ==
    /\ wtAt = "remove" /\ wtEntry < num_work /\ rebind = {}
    /\ wtAt' = IF slot = "error" THEN "crashed" ELSE "stop"
    /\ slot' = IF slot = "error" THEN slot ELSE "none"
    /\ UNCHANGED <<wtEntry, wtTimer, wtWork, wtThread, wtFreed, rebind, cpuUps>>

wt_kthread_stop ==
    /\ wtAt = "stop"
    /\ IF wtThread[wtEntry] = "error"
       THEN wtAt' = "crashed" /\ UNCHANGED wtThread
       ELSE wtAt' = "cancel" /\ wtThread' = [wtThread EXCEPT ![wtEntry] = "none"]
    /\ UNCHANGED <<wtEntry, wtTimer, wtWork, wtFreed, slot, rebind, cpuUps>>

wt_hrtimer_cancel ==
    /\ wtAt = "cancel" /\ wtTimer[wtEntry] # "firing"
    /\ wtAt' = "sync"
    /\ wtTimer' = [wtTimer EXCEPT ![wtEntry] = "none"]
    /\ UNCHANGED <<wtEntry, wtWork, wtThread, wtFreed, slot, rebind, cpuUps>>

wt_cancel_work_sync ==
    /\ wtAt = "sync" /\ "running" \notin wtWork[wtEntry]
    /\ wtAt' = "free"
    /\ wtWork' = [wtWork EXCEPT ![wtEntry] = {}]
    /\ UNCHANGED <<wtEntry, wtTimer, wtThread, wtFreed, slot, rebind, cpuUps>>

wt_kfree ==
    /\ wtAt = "free" /\ wtAt' = "remove"
    /\ wtFreed' = wtFreed \cup {wtEntry}
    /\ wtEntry' = wtEntry + 1
    /\ UNCHANGED <<wtTimer, wtWork, wtThread, slot, rebind, cpuUps>>

item_idr_free ==
    cpuhp_remove_state \/ wt_kthread_stop \/ wt_hrtimer_cancel \/ wt_cancel_work_sync \/ wt_kfree

(* wq_test_cpu_offline does nothing; with no entry the callbacks are left.   *)
FinishRemove ==
    /\ wtAt = "remove" /\ wtEntry = num_work
    /\ wtAt' = "out"
    /\ UNCHANGED <<wtEntry, wtTimer, wtWork, wtThread, wtFreed, slot, rebind, cpuUps>>

(* The proc entry is PROC_ENTRY_PERMANENT: proc_remove refuses to remove it, *)
(* and opening the file after the unload enters code that is gone.           *)
work_test_open ==
    /\ wtAt = "out" /\ wtAt' = "crashed"
    /\ UNCHANGED <<wtEntry, wtTimer, wtWork, wtThread, wtFreed, slot, rebind, cpuUps>>

WorkNext ==
    \/ idr_alloc \/ wt_hrtimer_start \/ wt_kthread_run \/ cpuhp_setup_state
    \/ StartRemove \/ item_idr_free \/ FinishRemove \/ work_test_open
    \/ /\ wtAt \notin {"leaked", "crashed"}
       /\ \/ CpuUp
          \/ \E i \in Works : wq_test_cpu_online(i) \/ wt_expire(i) \/ hrtimer_func(i) \/ test_work_func(i)

WorkSpec == WorkInit /\ [][WorkNext]_wtVars

-----------------------------------------------------------------------------
(* Whatever CPUs come up while the unload works through the entries, nothing *)
(* uses an entry that it has freed: no timer, work item or thread of it is   *)
(* left, nor a callback that would start its timer again; and the callbacks  *)
(* of a module that had entries do not outlive it.                           *)
FreedEntryIsQuiet ==
    /\ \A i \in wtFreed :
          wtTimer[i] = "none" /\ wtWork[i] = {} /\ wtThread[i] = "none" /\ i \notin rebind
    /\ wtAt = "out" /\ num_work > 0 => slot = "none" /\ wtFreed = Works
=============================================================================
