------------------------------ MODULE TimerTest ------------------------------
(***************************************************************************)
(* kernel_module/timer/timer-debugobject-test.c: a timer that arms itself, *)
(* a work item per CPU that arms it too, and the unload that deletes it.   *)
(* Each read of the proc file initialises and queues all work items.       *)
(***************************************************************************)
EXTENDS Naturals

CONSTANTS
    TimerCpus,     \* the online CPUs
    TimerReaders,  \* processes that read the proc file
    MaxReads       \* bound: reads

VARIABLES
    timerMod,   \* the module: in, or how far the unload has got
    todo,       \* for each reader, the CPUs whose work item it has still to queue
    reads,      \* reads so far
    pending,    \* the CPUs whose work item is in a queue
    running,    \* the CPUs whose work item runs
    queued,     \* the timer is armed
    firing,     \* ktest_timer_func runs
    corrupt,    \* history: an item was initialised while it was in a queue
    leftover    \* history: a work item was there when the timer was deleted

timerVars == <<timerMod, todo, reads, pending, running, queued, firing, corrupt, leftover>>

TimerTypeOK ==
    /\ timerMod \in {"in", "removed", "stopped", "deleted", "out"}
    /\ todo \in [TimerReaders -> SUBSET TimerCpus]
    /\ reads \in 0 .. MaxReads
    /\ pending \subseteq TimerCpus /\ running \subseteq TimerCpus
    /\ {queued, firing, corrupt, leftover} \subseteq BOOLEAN

TimerInit ==
    /\ timerMod = "in"
    /\ todo = [r \in TimerReaders |-> {}]
    /\ reads = 0
    /\ pending = {} /\ running = {}
    /\ queued = FALSE /\ firing = FALSE
    /\ corrupt = FALSE /\ leftover = FALSE

-----------------------------------------------------------------------------
(* timer_test_proc_show: INIT_WORK and schedule_work_on for each CPU.        *)
OpenTimerTest(r) ==
    /\ timerMod = "in" /\ todo[r] = {} /\ reads < MaxReads
    /\ todo' = [todo EXCEPT ![r] = TimerCpus]
    /\ reads' = reads + 1
    /\ UNCHANGED <<timerMod, pending, running, queued, firing, corrupt, leftover>>

timer_test_proc_show(r, c) ==
    /\ c \in todo[r]
    /\ todo' = [todo EXCEPT ![r] = @ \ {c}]
    /\ corrupt' = (corrupt \/ c \in pending)
    /\ pending' = pending \cup {c}
    /\ UNCHANGED <<timerMod, reads, running, queued, firing, leftover>>

(* The work item of c starts; then timer_debugobject_workfn arms the timer.  *)
StartWork(c) ==
    /\ c \in pending \ running
    /\ pending' = pending \ {c} /\ running' = running \cup {c}
    /\ UNCHANGED <<timerMod, todo, reads, queued, firing, corrupt, leftover>>

timer_debugobject_workfn(c) ==
    /\ c \in running
    /\ running' = running \ {c} /\ queued' = TRUE
    /\ UNCHANGED <<timerMod, todo, reads, pending, firing, corrupt, leftover>>

(* The timer expires; then ktest_timer_func arms it again, as timer_stop is  *)
(* never set: the unload assigns 0 to it.                                    *)
Expire ==
    /\ queued /\ ~firing
    /\ queued' = FALSE /\ firing' = TRUE
    /\ UNCHANGED <<timerMod, todo, reads, pending, running, corrupt, leftover>>

ktest_timer_func ==
    /\ firing
    /\ firing' = FALSE /\ queued' = TRUE
    /\ UNCHANGED <<timerMod, todo, reads, pending, running, corrupt, leftover>>

(* timer_debugobject_fini.  proc_remove waits for the readers, and           *)
(* del_timer_sync for the function of the timer.                             *)
ProcRemove ==
    /\ timerMod = "in" /\ \A r \in TimerReaders : todo[r] = {}
    /\ timerMod' = "removed"
    /\ UNCHANGED <<todo, reads, pending, running, queued, firing, corrupt, leftover>>

StopTimer ==
    /\ timerMod = "removed" /\ timerMod' = "stopped"
    /\ UNCHANGED <<todo, reads, pending, running, queued, firing, corrupt, leftover>>

del_timer_syncFaulty ==
    /\ timerMod = "stopped"
    /\ timerMod' = "deleted"
    /\ queued' = FALSE
    /\ leftover' = (pending \cup running # {})
    /\ UNCHANGED <<todo, reads, pending, running, firing, corrupt>>
del_timer_sync ==
    /\ timerMod = "stopped" /\ ~firing
    /\ timerMod' = "deleted"
    /\ queued' = FALSE
    /\ leftover' = (pending \cup running # {})
    /\ UNCHANGED <<todo, reads, pending, running, firing, corrupt>>

kretprobe_exit ==
    /\ timerMod = "deleted" /\ timerMod' = "out"
    /\ UNCHANGED <<todo, reads, pending, running, queued, firing, corrupt, leftover>>

timer_debugobject_fini == ProcRemove \/ StopTimer \/ del_timer_sync \/ kretprobe_exit

(* A corrupted queue and code that is gone end the behaviour.                *)
TimerNext ==
    /\ ~corrupt
    /\ \/ \E r \in TimerReaders : OpenTimerTest(r) \/ \E c \in TimerCpus : timer_test_proc_show(r, c)
       \/ timerMod # "out" /\ (Expire \/ ktest_timer_func)
       \/ timerMod # "out" /\ \E c \in TimerCpus : StartWork(c) \/ timer_debugobject_workfn(c)
       \/ timer_debugobject_fini

TimerSpec == TimerInit /\ [][TimerNext]_timerVars

-----------------------------------------------------------------------------
(* Although the timer arms itself and timer_stop is never set, nothing of    *)
(* the module runs any more once del_timer_sync has returned, unless a work  *)
(* item was still queued or running then: nobody cancels the work items.     *)
RearmingEnds ==
    timerMod \in {"deleted", "out"} /\ ~leftover =>
        ~queued /\ ~firing /\ pending = {} /\ running = {}
=============================================================================
