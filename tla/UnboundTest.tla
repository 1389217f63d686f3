----------------------------- MODULE UnboundTest -----------------------------
(***************************************************************************)
(* kernel_module/workqueue_test/unbond_test.c: for each CPU a pinned timer,*)
(* a thread and a return probe on workqueue_offline_cpu, all of which      *)
(* queue work items, under CPU hotplug.  The two items of kworks, and the  *)
(* two of koworks, are one here.                                           *)
(***************************************************************************)
EXTENDS Naturals

CONSTANTS
    UbCpus,        \* the possible CPUs
    MaxCpuOps      \* bound: CPUs taken offline or online

ASSUME UnboundAssumption == MaxCpuOps \in Nat

VARIABLES
    ubAt,      \* the step of load or unload that comes next
    probe,     \* my_wq_offline_kretprobe is registered
    online,    \* the online CPUs
    ready,     \* the CPUs with entry->cpu # -1: sched_test_work has run there
    ubTimer,   \* for each CPU: none, armed, firing
    ubThread,  \* for each CPU: none, alive, error
    item,      \* for each work item: pending, running, or both
    hotplug,   \* the CPU that goes on- or offline, and how far it has got
    callbacks, \* g_cpuhp_state: none, ours, error
    cpuOps,    \* CPUs taken offline or online so far
    requeued   \* history: the CPUs that went offline after their items were cancelled

ubVars == <<ubAt, probe, online, ready, ubTimer, ubThread, item, hotplug, callbacks, cpuOps, requeued>>

Items == UbCpus \X {"works", "kworks", "koworks"}
NoHotplug == [at |-> "idle"]

UnboundTypeOK ==
    /\ ubAt \in {"probe", "lock", "each", "setup", "threads", "in", "remove", "cancel",
                 "unprobe", "free", "out", "crashed"}
    /\ probe \in BOOLEAN
    /\ online \subseteq UbCpus /\ ready \subseteq UbCpus /\ requeued \subseteq UbCpus
    /\ ubTimer \in [UbCpus -> {"none", "armed", "firing"}]
    /\ ubThread \in [UbCpus -> {"none", "alive", "error"}]
    /\ item \in [Items -> SUBSET {"pending", "running"}]
    /\ hotplug \in {NoHotplug} \cup [at : {"waits", "timer", "probe", "up"}, cpu : UbCpus]
    /\ callbacks \in {"none", "ours", "error"}
    /\ cpuOps \in 0 .. MaxCpuOps

UnboundInit ==
    /\ ubAt = "probe" /\ probe = FALSE /\ online = {} /\ ready = {}
    /\ ubTimer = [c \in UbCpus |-> "none"] /\ ubThread = [c \in UbCpus |-> "none"]
    /\ item = [w \in Items |-> {}]
    /\ hotplug = NoHotplug /\ callbacks = "none" /\ cpuOps = 0 /\ requeued = {}

(* schedule_work on an item that was never initialised only warns.           *)
Scheduled(c, kind) ==
    IF c \in ready THEN [item EXCEPT ![<<c, kind>>] = @ \cup {"pending"}] ELSE item

-----------------------------------------------------------------------------
(* proc_workqueue_unbound_test_init, on the CPUs online then; a failed       *)
(* kzalloc shows when sched_test_work writes to the items.                   *)
kretprobe_init ==
    /\ ubAt = "probe" /\ ubAt' = "lock"
    /\ probe' \in BOOLEAN
    /\ online' \in SUBSET UbCpus \ {{}}
    /\ UNCHANGED <<ready, ubTimer, ubThread, item, hotplug, callbacks, cpuOps, requeued>>

ub_cpus_read_lock ==
    /\ ubAt = "lock" /\ hotplug = NoHotplug
    /\ ubAt' \in {"each", "crashed"}
    /\ UNCHANGED <<probe, online, ready, ubTimer, ubThread, item, hotplug, callbacks, cpuOps, requeued>>

sched_test_work ==
    /\ ubAt = "each" /\ ubAt' = "setup"
    /\ ready' = online
    /\ ubTimer' = [c \in UbCpus |-> IF c \in online THEN "armed" ELSE ubTimer[c]]
    /\ UNCHANGED <<probe, online, ubThread, item, hotplug, callbacks, cpuOps, requeued>>

(* cpuhp_setup_state_nocalls takes cpus_read_lock again: it never gets it    *)
(* when a hotplug operation has come to wait for the lock in between.        *)
cpuhp_setup_state_nocalls ==
    /\ ubAt = "setup" /\ hotplug = NoHotplug
    /\ ubAt' = "threads"
    /\ callbacks' \in {"ours", "error"}
    /\ UNCHANGED <<probe, online, ready, ubTimer, ubThread, item, hotplug, cpuOps, requeued>>

ub_kthread_run ==
    /\ ubAt = "threads" /\ ubAt' = "in"
    /\ ubThread' \in [UbCpus -> {"alive", "error"}]
    /\ UNCHANGED <<probe, online, ready, ubTimer, item, hotplug, callbacks, cpuOps, requeued>>

LoadHoldsLock == ubAt \in {"each", "setup", "threads"}

-----------------------------------------------------------------------------
(* A hotplug operation waits for the readers of the lock.  Going offline,    *)
(* the CPU runs wq_test_cpu_offline and then workqueue_offline_cpu, on whose *)
(* return wq_ret_handler queues items; coming online, wq_test_cpu_online.    *)
HotplugWaits ==
    /\ hotplug = NoHotplug /\ cpuOps < MaxCpuOps /\ ubAt # "probe"
    /\ \E c \in UbCpus :
          /\ online # {c}
          /\ hotplug' = [at |-> "waits", cpu |-> c]
    /\ cpuOps' = cpuOps + 1
    /\ UNCHANGED <<ubAt, probe, online, ready, ubTimer, ubThread, item, callbacks, requeued>>

HotplugStarts ==
    /\ hotplug.at = "waits" /\ ~LoadHoldsLock
    /\ hotplug' = [hotplug EXCEPT !.at = IF hotplug.cpu \in online THEN "timer" ELSE "up"]
    /\ UNCHANGED <<ubAt, probe, online, ready, ubTimer, ubThread, item, callbacks, cpuOps, requeued>>

wq_test_cpu_offline ==
    /\ hotplug.at = "timer"
    /\ callbacks = "ours" /\ hotplug.cpu \in ready => ubTimer[hotplug.cpu] # "firing"
    /\ hotplug' = [hotplug EXCEPT !.at = "probe"]
    /\ ubTimer' = IF callbacks = "ours" /\ hotplug.cpu \in ready
                  THEN [ubTimer EXCEPT ![hotplug.cpu] = "none"] ELSE ubTimer
    /\ UNCHANGED <<ubAt, probe, online, ready, ubThread, item, callbacks, cpuOps, requeued>>

wq_ret_handler ==
    /\ hotplug.at = "probe"
    /\ LET gone == probe /\ ubAt = "out"
           seed == probe /\ ~gone
       IN  /\ ubAt' = IF gone THEN "crashed" ELSE ubAt
           /\ item' \in IF seed THEN {item, Scheduled(hotplug.cpu, "koworks")} ELSE {item}
           /\ requeued' = IF seed /\ ubAt \in {"unprobe", "free"}
                          THEN requeued \cup {hotplug.cpu} ELSE requeued
    /\ online' = online \ {hotplug.cpu}
    /\ hotplug' = NoHotplug
    /\ UNCHANGED <<probe, ready, ubTimer, ubThread, callbacks, cpuOps>>

ub_wq_test_cpu_online ==
    /\ hotplug.at = "up"
    /\ online' = online \cup {hotplug.cpu}
    /\ ubTimer' = IF callbacks = "ours" /\ hotplug.cpu \in ready
                  THEN [ubTimer EXCEPT ![hotplug.cpu] = "armed"] ELSE ubTimer
    /\ hotplug' = NoHotplug
    /\ UNCHANGED <<ubAt, probe, ready, ubThread, item, callbacks, cpuOps, requeued>>

-----------------------------------------------------------------------------
(* hrtimer_func, test_kthread_func and test_work_func.                       *)
ub_hrtimer_func(c) ==
    /\ \/ ubTimer[c] = "armed" /\ ubTimer' = [ubTimer EXCEPT ![c] = "firing"] /\ UNCHANGED item
       \/ /\ ubTimer[c] = "firing" /\ ubTimer' = [ubTimer EXCEPT ![c] = "armed"]
          /\ item' = Scheduled(c, "works")
    /\ UNCHANGED <<ubAt, probe, online, ready, ubThread, hotplug, callbacks, cpuOps, requeued>>

test_kthread_func(c) ==
    /\ ubThread[c] = "alive"
    /\ item' = Scheduled(c, "kworks")
    /\ UNCHANGED <<ubAt, probe, online, ready, ubTimer, ubThread, hotplug, callbacks, cpuOps, requeued>>

ub_test_work_func(w) ==
    /\ \/ item[w] = {"pending"} /\ item' = [item EXCEPT ![w] = {"running"}]
       \/ "running" \in item[w] /\ item' = [item EXCEPT ![w] = @ \ {"running"}]
    /\ UNCHANGED <<ubAt, probe, online, ready, ubTimer, ubThread, hotplug, callbacks, cpuOps, requeued>>

-----------------------------------------------------------------------------
(* proc_workqueue_unbound_test_remove.  cpuhp_remove_state calls the offline *)
(* callback for each online CPU; kretprobe_exit leaves the second probe.     *)
ub_kthread_stop ==
    /\ ubAt = "in"
    /\ IF \E c \in UbCpus : ubThread[c] = "error"
       THEN ubAt' = "crashed" /\ UNCHANGED ubThread
       ELSE ubAt' = "remove" /\ ubThread' = [c \in UbCpus |-> "none"]
    /\ UNCHANGED <<probe, online, ready, ubTimer, item, hotplug, callbacks, cpuOps, requeued>>

ub_cpuhp_remove_stateFaulty ==
    /\ ubAt = "remove" /\ hotplug = NoHotplug
    /\ IF callbacks = "error"
       THEN ubAt' = "crashed" /\ UNCHANGED callbacks
       ELSE ubAt' = "cancel" /\ callbacks' = "none"
    /\ UNCHANGED <<probe, online, ready, ubTimer, ubThread, item, hotplug, cpuOps, requeued>>
ub_cpuhp_remove_state ==
    /\ ubAt = "remove" /\ hotplug = NoHotplug
    /\ \A c \in online : ubTimer[c] # "firing"
    /\ IF callbacks = "error"
       THEN ubAt' = "crashed" /\ UNCHANGED <<callbacks, ubTimer>>
       ELSE /\ ubAt' = "cancel" /\ callbacks' = "none"
            /\ ubTimer' = [c \in UbCpus |-> IF c \in online THEN "none" ELSE ubTimer[c]]
    /\ UNCHANGED <<probe, online, ready, ubThread, item, hotplug, cpuOps, requeued>>

cancel_work_sync ==
    /\ ubAt = "cancel" /\ \A w \in Items : "running" \notin item[w]
    /\ ubAt' = "unprobe"
    /\ item' = [w \in Items |-> {}]
    /\ UNCHANGED <<probe, online, ready, ubTimer, ubThread, hotplug, callbacks, cpuOps, requeued>>

ub_kretprobe_exit ==
    /\ ubAt = "unprobe" /\ ubAt' = "free"
    /\ UNCHANGED <<probe, online, ready, ubTimer, ubThread, item, hotplug, callbacks, cpuOps, requeued>>

ub_kfree ==
    /\ ubAt = "free" /\ ubAt' = "out"
    /\ UNCHANGED <<probe, online, ready, ubTimer, ubThread, item, hotplug, callbacks, cpuOps, requeued>>

proc_workqueue_unbound_test_remove ==
    ub_kthread_stop \/ ub_cpuhp_remove_state \/ cancel_work_sync \/ ub_kretprobe_exit \/ ub_kfree

UnboundNext ==
    \/ kretprobe_init \/ ub_cpus_read_lock \/ sched_test_work \/ cpuhp_setup_state_nocalls \/ ub_kthread_run
    \/ proc_workqueue_unbound_test_remove
    \/ /\ ubAt # "crashed"
       /\ \/ HotplugWaits \/ HotplugStarts \/ wq_test_cpu_offline \/ wq_ret_handler \/ ub_wq_test_cpu_online
          \/ \E c \in UbCpus : ub_hrtimer_func(c) \/ test_kthread_func(c)
          \/ \E w \in Items : ub_test_work_func(w)

UnboundSpec == UnboundInit /\ [][UnboundNext]_ubVars

-----------------------------------------------------------------------------
(* Whatever CPUs went on- and offline, when the module frees its items no    *)
(* timer and no thread is left to queue one, and the only items in a queue   *)
(* are those of a CPU that went offline after the items were cancelled, with *)
(* the probe that unload forgets.                                            *)
OnlyProbeRequeues ==
    ubAt \in {"unprobe", "free", "out"} =>
        /\ \A c \in UbCpus : ubTimer[c] = "none" /\ ubThread[c] = "none"
        /\ \A w \in Items : item[w] # {} => probe /\ w[1] \in requeued /\ w[2] = "koworks"
=============================================================================
