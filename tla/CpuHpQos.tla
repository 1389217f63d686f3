------------------------------ MODULE CpuHpQos ------------------------------
(***************************************************************************)
(* kernel_module/qos/cpuhp-qos.c: a character device takes a range         *)
(* min..max for the number of online CPUs, and the kernel thread "core_ctl"*)
(* plugs CPUs in and out until the number is inside the range.             *)
(*                                                                         *)
(* Actors: the users of the device (read and write), the core_ctl thread,  *)
(* and the kernel's CPU hotplug, which calls the driver's two callbacks and*)
(* which an administrator can also drive through sysfs.                    *)
(*                                                                         *)
(* cpuhp_stat.lock is a variable, because a write stores min and max one   *)
(* after the other; a critical section that reads or writes only once is   *)
(* one step taken while the lock is free.  The state starts where          *)
(* cpu_hp_drv_init has returned 0.                                         *)
(*                                                                         *)
(* An operator whose name ends in Faulty is its neighbour with a plausible *)
(* slip in it; no behaviour uses it.                                       *)
(***************************************************************************)
EXTENDS Integers, FiniteSets

CONSTANTS
    N,            \* possible CPUs are numbered 0 .. N-1
    NR_CPUS,      \* the kernel's compile-time limit, at least N
    Word,         \* 2^32 in the code: unsigned int counts modulo Word
    Users,        \* processes that hold the device open
    Requests,     \* the pairs <<min, max>> of s32 they may write
    InitialMasks, \* CPUs that may be online when the module is loaded
    MaxWrites,    \* bound: writes in one behaviour
    MaxFails,     \* bound: hotplug operations that fail
    MaxAdminOps   \* bound: hotplug operations started through sysfs

CPUs == 0 .. N-1
S32  == -(Word \div 2) .. (Word \div 2) - 1
U32  == 0 .. Word-1

ASSUME SizesAssumption ==
    /\ N \in Nat \ {0} /\ NR_CPUS \in Nat /\ N <= NR_CPUS
    /\ Word \in Nat /\ Word % 2 = 0 /\ NR_CPUS < Word \div 2
ASSUME RequestsAssumption == Requests \subseteq S32 \X S32
ASSUME MasksAssumption == InitialMasks \subseteq SUBSET CPUs \ {{}}
ASSUME BoundsAssumption == MaxWrites \in Nat /\ MaxFails \in Nat /\ MaxAdminOps \in Nat
ASSUME UsersAssumption == "free" \notin Users

VARIABLES
    min, max, online_cpus, \* cpuhp_stat
    lock,                  \* cpuhp_stat.lock: its holder or "free"
    tpc,                   \* where try_core_ctl is
    tstate,                \* the task state of hp_thread
    ctl,                   \* what do_core_ctl decided from its snapshot
    mask,                  \* the kernel's cpu_online_mask
    hp,                    \* the CPU hotplug operation in flight (one at a time)
    upc, buf,              \* each user: where it is, the pair it writes or has read
    asked,                 \* history: the pairs written so far
    budget                 \* what is left of the bounds

stat    == <<min, max, online_cpus>>
thread  == <<tpc, tstate, ctl>>
hotplug == <<mask, hp>>
user    == <<upc, buf, asked>>
vars    == <<stat, lock, thread, hotplug, user, budget>>

(* C's conversions between s32 and unsigned int, and unsigned arithmetic that *)
(* leaves the range by less than Word.                                        *)
ToUnsignedFaulty(x) == IF x >= Word THEN x - Word ELSE x
ToUnsigned(x) == IF x < 0 THEN x + Word ELSE IF x >= Word THEN x - Word ELSE x
ToSigned(u)   == IF u >= Word \div 2 THEN u - Word ELSE u

need_adjuest(count) == count < min \/ count > max

NoHotplug == [op |-> "none", cpu |-> 0, by |-> "nobody", ran |-> FALSE, undo |-> FALSE]
NoCtl     == [op |-> "none", cpu |-> 0]

HotplugOps == [op : {"none", "up", "down", "stuck"}, cpu : CPUs,
               by : {"nobody", "thread", "admin"}, ran : BOOLEAN, undo : BOOLEAN]

TypeOK ==
    /\ min \in U32 /\ max \in U32 /\ online_cpus \in U32
    /\ lock \in Users \cup {"free"}
    /\ tpc \in {"set", "check", "sched", "relock", "ctl", "call", "wait", "oops"}
    /\ tstate \in {"RUNNING", "INTERRUPTIBLE"}
    /\ ctl \in [op : {"none", "up", "down"}, cpu : U32]
    /\ mask \subseteq CPUs
    /\ hp \in HotplugOps
    /\ upc \in [Users -> {"idle", "w_max", "w_wake", "r_max"}]
    /\ buf \in [Users -> S32 \X S32]
    /\ asked \subseteq Requests
    /\ budget \in [writes : 0 .. MaxWrites, fails : 0 .. MaxFails, admin : 0 .. MaxAdminOps]

Init ==
    /\ mask \in InitialMasks
    /\ min = 0 /\ max = NR_CPUS /\ online_cpus = Cardinality(mask)
    /\ lock = "free"
    /\ tpc = "set" /\ tstate = "RUNNING" /\ ctl = NoCtl
    /\ hp = NoHotplug
    /\ upc = [u \in Users |-> "idle"] /\ buf = [u \in Users |-> <<0, NR_CPUS>>]
    /\ asked = {}
    /\ budget = [writes |-> MaxWrites, fails |-> MaxFails, admin |-> MaxAdminOps]

-----------------------------------------------------------------------------
(* The users of the character device.                                        *)

(* wake_up_process(hp_thread): a thread that announced it would sleep runs.  *)
wake_up_cpuhp_thread == tstate' = "RUNNING"

(* A write with the right size and offset: first store under the lock.  A    *)
(* rejected write changes nothing and has no step.                           *)
WriteMin(u, r) ==
    /\ upc[u] = "idle" /\ lock = "free"
    /\ budget.writes > 0
    /\ lock' = u
    /\ min' = ToUnsigned(r[1])
    /\ buf' = [buf EXCEPT ![u] = r]
    /\ asked' = asked \cup {r}
    /\ upc' = [upc EXCEPT ![u] = "w_max"]
    /\ budget' = [budget EXCEPT !.writes = @ - 1]
    /\ UNCHANGED <<max, online_cpus, thread, hotplug>>

(* The second store, and the unlock. *)
WriteMax(u) ==
    /\ upc[u] = "w_max"
    /\ max' = ToUnsigned(buf[u][2])
    /\ lock' = "free"
    /\ upc' = [upc EXCEPT ![u] = "w_wake"]
    /\ UNCHANGED <<min, online_cpus, thread, hotplug, buf, asked, budget>>

(* The wake-up comes after the unlock, unconditionally. *)
WriteWakeFaulty(u) ==
    /\ upc[u] = "w_wake"
    /\ IF tstate = "INTERRUPTIBLE" /\ online_cpus > max
       THEN wake_up_cpuhp_thread ELSE tstate' = tstate
    /\ upc' = [upc EXCEPT ![u] = "idle"]
    /\ UNCHANGED <<stat, lock, tpc, ctl, hotplug, buf, asked, budget>>
WriteWake(u) ==
    /\ upc[u] = "w_wake"
    /\ wake_up_cpuhp_thread
    /\ upc' = [upc EXCEPT ![u] = "idle"]
    /\ UNCHANGED <<stat, lock, tpc, ctl, hotplug, buf, asked, budget>>

(* A read with enough room at offset 0: both fields under one lock. *)
ReadMinFaulty(u) ==
    /\ upc[u] = "idle"
    /\ buf' = [buf EXCEPT ![u] = <<ToSigned(min), @[2]>>]
    /\ upc' = [upc EXCEPT ![u] = "r_max"]
    /\ UNCHANGED <<stat, lock, thread, hotplug, asked, budget>>
ReadMin(u) ==
    /\ upc[u] = "idle" /\ lock = "free"
    /\ lock' = u
    /\ buf' = [buf EXCEPT ![u] = <<ToSigned(min), @[2]>>]
    /\ upc' = [upc EXCEPT ![u] = "r_max"]
    /\ UNCHANGED <<stat, thread, hotplug, asked, budget>>

ReadMax(u) ==
    /\ upc[u] = "r_max"
    /\ buf' = [buf EXCEPT ![u] = <<@[1], ToSigned(max)>>]
    /\ lock' = "free"
    /\ upc' = [upc EXCEPT ![u] = "idle"]
    /\ UNCHANGED <<stat, thread, hotplug, asked, budget>>

-----------------------------------------------------------------------------
(* try_core_ctl, the loop of the core_ctl thread.                            *)

(* set_current_state(TASK_INTERRUPTIBLE), before the lock is taken. *)
SetInterruptible ==
    /\ tpc = "set"
    /\ tstate' = "INTERRUPTIBLE"
    /\ tpc' = "check"
    /\ UNCHANGED <<stat, lock, ctl, hotplug, user, budget>>

(* Under the lock: nothing to do, so sleep; or TASK_RUNNING and do_core_ctl. *)
Check ==
    /\ tpc = "check" /\ lock = "free"
    /\ \/ ~need_adjuest(online_cpus) /\ tpc' = "sched" /\ tstate' = tstate
       \/ need_adjuest(online_cpus) /\ tpc' = "ctl" /\ tstate' = "RUNNING"
    /\ UNCHANGED <<stat, lock, ctl, hotplug, user, budget>>

(* schedule() returns once the task is TASK_RUNNING again; nothing in the    *)
(* module calls kthread_stop, so kthread_should_stop() is false.             *)
Schedule ==
    /\ tpc = "sched" /\ tstate = "RUNNING"
    /\ tpc' = "relock"
    /\ UNCHANGED <<stat, lock, tstate, ctl, hotplug, user, budget>>

(* Lock, TASK_RUNNING, unlock: need_adjuest is not asked again here. *)
Relock ==
    /\ tpc = "relock" /\ lock = "free"
    /\ tstate' = "RUNNING"
    /\ tpc' = "ctl"
    /\ UNCHANGED <<stat, lock, ctl, hotplug, user, budget>>

(* do_core_ctl: snapshot under the lock, decide after it. *)
DecideFaulty(count) ==
    IF count > max THEN [op |-> "down", cpu |-> count]
    ELSE IF count < min THEN [op |-> "up", cpu |-> count]
    ELSE NoCtl
Decide(count) ==
    IF count > max THEN [op |-> "down", cpu |-> count - 1]
    ELSE IF count < min THEN [op |-> "up", cpu |-> count]
    ELSE NoCtl

do_core_ctl ==
    /\ tpc = "ctl" /\ lock = "free"
    /\ ctl' = Decide(online_cpus)
    /\ tpc' = IF ctl'.op = "none" THEN "set" ELSE "call"
    /\ UNCHANGED <<stat, lock, tstate, hotplug, user, budget>>

-----------------------------------------------------------------------------
(* The kernel's CPU hotplug: add_cpu and remove_cpu, one at a time.          *)

(* A CPU is in the mask before the online callback and after the offline one. *)
Start(op, c, who) ==
    /\ hp' = [op |-> op, cpu |-> c, by |-> who, ran |-> FALSE, undo |-> FALSE]
    /\ mask' = IF op = "up" THEN mask \cup {c} ELSE mask

CanStart(op, c) == IF op = "up" THEN c \notin mask ELSE c \in mask /\ mask # {c}

(* core_ctl_online_core, core_ctl_offline_core: the call waits for the       *)
(* hotplug lock.  A CPU that is already in the wanted state, or the last one,*)
(* makes it return at once.  A number beyond the last possible CPU has no    *)
(* device: add_cpu dereferences NULL and the thread dies holding the lock.   *)
CoreCtlCall ==
    /\ tpc = "call" /\ hp.op = "none"
    /\ \/ /\ ctl.cpu \in CPUs /\ CanStart(ctl.op, ctl.cpu)
          /\ Start(ctl.op, ctl.cpu, "thread")
          /\ tpc' = "wait"
       \/ /\ ctl.cpu \in CPUs /\ ~CanStart(ctl.op, ctl.cpu)
          /\ tpc' = "set"
          /\ UNCHANGED hotplug
       \/ /\ ctl.cpu \notin CPUs
          /\ tpc' = "oops"
          /\ hp' = [NoHotplug EXCEPT !.op = "stuck"]
          /\ mask' = mask
    /\ ctl' = NoCtl
    /\ UNCHANGED <<stat, lock, tstate, user, budget>>

(* echo 0 or 1 > /sys/devices/system/cpu/cpuN/online *)
AdminHotplug(op, c) ==
    /\ hp.op = "none" /\ CanStart(op, c)
    /\ budget.admin > 0
    /\ Start(op, c, "admin")
    /\ budget' = [budget EXCEPT !.admin = @ - 1]
    /\ UNCHANGED <<stat, lock, thread, user>>

(* The body of both callbacks, under the lock: count, then wake if needed. *)
CountedFaulty(count) ==
    /\ online_cpus' = count
    /\ IF need_adjuest(online_cpus) THEN wake_up_cpuhp_thread ELSE tstate' = tstate
    /\ hp' = [hp EXCEPT !.ran = TRUE]
    /\ UNCHANGED <<min, max, lock, tpc, ctl, mask, user, budget>>
Counted(count) ==
    /\ online_cpus' = count
    /\ IF need_adjuest(count) THEN wake_up_cpuhp_thread ELSE tstate' = tstate
    /\ hp' = [hp EXCEPT !.ran = TRUE]
    /\ UNCHANGED <<min, max, lock, tpc, ctl, mask, user, budget>>

cpufreq_hp_onlineFaulty ==
    /\ hp.op = "up" /\ ~hp.ran /\ lock = "free"
    /\ Counted(IF hp.undo THEN online_cpus ELSE ToUnsigned(online_cpus + 1))
cpufreq_hp_online ==
    /\ hp.op = "up" /\ ~hp.ran /\ lock = "free"
    /\ Counted(ToUnsigned(online_cpus + 1))

cpufreq_hp_offline ==
    /\ hp.op = "down" /\ ~hp.ran /\ lock = "free"
    /\ Counted(ToUnsigned(online_cpus - 1))

(* The operation is over; a caller in do_core_ctl goes round its loop. *)
Return ==
    /\ hp' = NoHotplug
    /\ tpc' = IF hp.by = "thread" THEN "set" ELSE tpc
    /\ UNCHANGED <<stat, lock, tstate, ctl, user>>

HotplugDone ==
    /\ hp.op \in {"up", "down"} /\ hp.ran
    /\ mask' = IF hp.op = "down" THEN mask \ {hp.cpu} ELSE mask
    /\ Return
    /\ budget' = budget

(* Another subsystem refuses the operation.  Before the driver's callback    *)
(* has run it is simply given up; after it, the kernel rolls back and runs   *)
(* the opposite callback, and a roll-back does not fail.                     *)
HotplugFails ==
    /\ hp.op \in {"up", "down"} /\ ~hp.undo
    /\ budget.fails > 0
    /\ budget' = [budget EXCEPT !.fails = @ - 1]
    /\ \/ /\ ~hp.ran
          /\ mask' = IF hp.op = "up" THEN mask \ {hp.cpu} ELSE mask
          /\ Return
       \/ /\ hp.ran
          /\ hp' = [hp EXCEPT !.op = IF @ = "up" THEN "down" ELSE "up",
                              !.ran = FALSE, !.undo = TRUE]
          /\ UNCHANGED <<stat, lock, thread, mask, user>>

-----------------------------------------------------------------------------
UserStep ==
    \E u \in Users :
        \/ \E r \in Requests : WriteMin(u, r)
        \/ WriteMax(u) \/ WriteWake(u) \/ ReadMin(u) \/ ReadMax(u)

Thread == SetInterruptible \/ Check \/ Schedule \/ Relock \/ do_core_ctl \/ CoreCtlCall

Hotplug == cpufreq_hp_online \/ cpufreq_hp_offline \/ HotplugDone \/ HotplugFails

Admin == \E op \in {"up", "down"}, c \in CPUs : AdminHotplug(op, c)

Next == UserStep \/ Thread \/ Hotplug \/ Admin

Spec == Init /\ [][Next]_vars

(* A system call that has begun goes on, the scheduler runs a runnable       *)
(* thread, and a hotplug operation ends.  Nobody has to write, to read, to   *)
(* hotplug or to fail.                                                       *)
Fairness ==
    /\ \A u \in Users : WF_vars(WriteMax(u) \/ WriteWake(u) \/ ReadMax(u))
    /\ WF_vars(SetInterruptible) /\ WF_vars(Schedule) /\ WF_vars(CoreCtlCall)
    /\ SF_vars(Check) /\ SF_vars(Relock) /\ SF_vars(do_core_ctl)
    /\ SF_vars(cpufreq_hp_online) /\ SF_vars(cpufreq_hp_offline)
    /\ WF_vars(HotplugDone)

FairSpec == Spec /\ Fairness

-----------------------------------------------------------------------------
(* Properties.                                                               *)

(* try_core_ctl announces its sleep before it checks, and cpuhp_qos_write    *)
(* wakes it after it has stored: the thread never sleeps beside a range that *)
(* the number of CPUs violates, unless a writer still has its wake-up to do. *)
NoLostWakeup ==
    tpc = "sched" /\ tstate = "INTERRUPTIBLE" /\ need_adjuest(online_cpus)
        => \E u \in Users : upc[u] \in {"w_max", "w_wake"}

(* The callbacks keep online_cpus equal to the number of CPUs the kernel has *)
(* online, but for the CPU in flight between the mask and the callback; a    *)
(* refused or rolled back operation leaves no difference behind.             *)
Uncounted == IF \/ hp.op = "up" /\ ~hp.ran
                \/ hp.op = "down" /\ hp.ran THEN 1 ELSE 0
OnlineCount == online_cpus + Uncounted = Cardinality(mask)

(* cpuhp_qos_read returns a pair that one write stored (or the one of        *)
(* cpu_hp_drv_init), never the min of one request with the max of another,   *)
(* and negative values come back as they were written.                       *)
NeverTorn ==
    \A u \in Users : upc[u] = "idle" => buf[u] \in asked \cup {<<0, NR_CPUS>>}

(* do_core_ctl hands add_cpu and remove_cpu the number of an existing CPU    *)
(* unless somebody has asked for more CPUs than there are; a negative min is *)
(* such a request, because it is stored as unsigned.                         *)
OnlyImpossibleMinKillsThread ==
    tpc = "oops" => \E r \in asked : ToUnsigned(r[1]) > N

(* Without hotplug through sysfs, do_core_ctl keeps the online CPUs          *)
(* contiguous from 0, which its use of online_cpus as a CPU number needs.    *)
Contiguous == hp.op = "none" => mask = 0 .. online_cpus - 1

(* Without hotplug through sysfs, and with max at least 1, the call that     *)
(* do_core_ctl makes after it dropped the lock always has something to do.   *)
CallsHaveEffect ==
    tpc = "call" => ctl.cpu \in CPUs /\ CanStart(ctl.op, ctl.cpu)

(* When the requests can be met and end, and hotplug stops failing, core_ctl *)
(* brings the number of CPUs into the last range and then sleeps.            *)
Settles ==
    <>[](/\ tpc = "sched" /\ tstate = "INTERRUPTIBLE"
         /\ ~need_adjuest(online_cpus))

(* "QOS helper module to limit cpu online number" (cpuhp-qos.c:2): the       *)
(* number of CPUs comes back into the range, whatever sysfs did before.      *)
ReachesRange == []<>(~need_adjuest(online_cpus))
=============================================================================
