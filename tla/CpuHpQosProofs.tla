--------------------------- MODULE CpuHpQosProofs ---------------------------
(***************************************************************************)
(* Theorems about CpuHpQos for every number of CPUs, users, requests and   *)
(* every bound: type correctness, no lost wake-up, the online count,       *)
(* reads that are not torn, the CPU numbers given to CPU hotplug, and,     *)
(* when nobody else hotplugs, that they are those of the right CPUs.       *)
(***************************************************************************)
EXTENDS CpuHpQos, FiniteSetTheorems, TLAPS

(* The conversions stay inside their ranges and undo each other. *)
LEMMA Conversions ==
    /\ \A x \in S32 : ToUnsigned(x) \in U32 /\ ToSigned(ToUnsigned(x)) = x
    /\ \A u \in U32 : ToSigned(u) \in S32 /\ ToUnsigned(ToSigned(u)) = u
    /\ \A u \in U32 : ToUnsigned(u + 1) \in U32 /\ ToUnsigned(u - 1) \in U32
    /\ 0 \in U32 /\ NR_CPUS \in U32 /\ <<0, NR_CPUS>> \in S32 \X S32
    /\ ToSigned(0) = 0 /\ ToSigned(NR_CPUS) = NR_CPUS
    /\ CPUs \subseteq U32 /\ 0 \in CPUs
  BY SizesAssumption DEF S32, U32, ToUnsigned, ToSigned, CPUs

(* Any set of possible CPUs is finite and has at most N members, and adding  *)
(* or removing one CPU changes the number by one.                            *)
LEMMA MaskSize ==
    ASSUME NEW M \in SUBSET CPUs
    PROVE  /\ IsFiniteSet(M) /\ Cardinality(M) \in 0 .. N
           /\ \A c \in CPUs \ M : Cardinality(M \cup {c}) = Cardinality(M) + 1
           /\ \A c \in M : Cardinality(M \ {c}) = Cardinality(M) - 1 /\ Cardinality(M) > 0
  <1>1. IsFiniteSet(CPUs) /\ Cardinality(CPUs) = N
    BY FS_Interval, SizesAssumption DEF CPUs
  <1>2. IsFiniteSet(M) /\ Cardinality(M) <= N
    BY <1>1, FS_Subset
  <1>3. Cardinality(M) \in Nat
    BY <1>2, FS_CardinalityType
  <1>4. \A c \in CPUs \ M : Cardinality(M \cup {c}) = Cardinality(M) + 1
    BY <1>2, FS_AddElement
  <1>5. \A c \in M : Cardinality(M \ {c}) = Cardinality(M) - 1 /\ Cardinality(M \ {c}) \in Nat
    BY <1>2, FS_RemoveElement, FS_CardinalityType
  <1> QED
    BY <1>2, <1>3, <1>4, <1>5, SizesAssumption

-----------------------------------------------------------------------------
(* Type correctness, one step per action of Next. *)
LEMMA TypeInit == Init => TypeOK
  <1> SUFFICES ASSUME Init PROVE TypeOK
    OBVIOUS
  <1>1. mask \subseteq CPUs
    BY MasksAssumption DEF Init
  <1>2. Cardinality(mask) \in U32
    BY <1>1, MaskSize, SizesAssumption DEF U32
  <1> QED
    BY <1>1, <1>2, Conversions, BoundsAssumption, UsersAssumption
    DEF Init, TypeOK, HotplugOps, NoHotplug, NoCtl

LEMMA TypeNext == TypeOK /\ [Next]_vars => TypeOK'
  <1> SUFFICES ASSUME TypeOK, [Next]_vars PROVE TypeOK'
    OBVIOUS
  <1> USE DEF TypeOK
  <1>1. ASSUME NEW u \in Users, NEW r \in Requests, WriteMin(u, r) PROVE TypeOK'
    <2>1. r \in S32 \X S32 /\ ToUnsigned(r[1]) \in U32
      BY RequestsAssumption, Conversions
    <2> QED
      BY <1>1, <2>1, BoundsAssumption DEF WriteMin, thread, hotplug
  <1>2. ASSUME NEW u \in Users, WriteMax(u) PROVE TypeOK'
    BY <1>2, Conversions DEF WriteMax, thread, hotplug
  <1>3. ASSUME NEW u \in Users, WriteWake(u) PROVE TypeOK'
    BY <1>3 DEF WriteWake, wake_up_cpuhp_thread, stat, hotplug
  <1>4. ASSUME NEW u \in Users, ReadMin(u) PROVE TypeOK'
    BY <1>4, Conversions DEF ReadMin, stat, thread, hotplug
  <1>5. ASSUME NEW u \in Users, ReadMax(u) PROVE TypeOK'
    BY <1>5, Conversions DEF ReadMax, stat, thread, hotplug
  <1>6. CASE SetInterruptible
    BY <1>6 DEF SetInterruptible, stat, hotplug, user
  <1>7. CASE Check
    BY <1>7 DEF Check, stat, hotplug, user
  <1>8. CASE Schedule
    BY <1>8 DEF Schedule, stat, hotplug, user
  <1>9. CASE Relock
    BY <1>9 DEF Relock, stat, hotplug, user
  <1>10. CASE do_core_ctl
    <2>1. ctl' \in [op : {"none", "up", "down"}, cpu : U32]
      BY <1>10, SizesAssumption DEF do_core_ctl, Decide, NoCtl, U32
    <2> QED
      BY <1>10, <2>1 DEF do_core_ctl, stat, hotplug, user
  <1>11. CASE CoreCtlCall
    <2>1. ctl' \in [op : {"none", "up", "down"}, cpu : U32]
      BY <1>11, Conversions DEF CoreCtlCall, NoCtl
    <2>2. hp' \in HotplugOps /\ mask' \subseteq CPUs
      <3>1. CASE ctl.cpu \in CPUs /\ Start(ctl.op, ctl.cpu, "thread")
        BY <3>1 DEF Start, HotplugOps
      <3>2. CASE UNCHANGED hotplug
        BY <3>2 DEF hotplug
      <3>3. CASE hp' = [NoHotplug EXCEPT !.op = "stuck"] /\ mask' = mask
        BY <3>3, Conversions DEF NoHotplug, HotplugOps
      <3> QED
        BY <1>11, <3>1, <3>2, <3>3 DEF CoreCtlCall
    <2> QED
      BY <1>11, <2>1, <2>2 DEF CoreCtlCall, stat, user
  <1>12. ASSUME NEW op \in {"up", "down"}, NEW c \in CPUs, AdminHotplug(op, c) PROVE TypeOK'
    BY <1>12, BoundsAssumption DEF AdminHotplug, Start, HotplugOps, stat, thread, user
  <1>13. ASSUME NEW count \in U32, Counted(count) PROVE TypeOK'
    BY <1>13 DEF Counted, wake_up_cpuhp_thread, HotplugOps, user
  <1>14. CASE cpufreq_hp_online
    BY <1>13, <1>14, Conversions DEF cpufreq_hp_online
  <1>15. CASE cpufreq_hp_offline
    BY <1>13, <1>15, Conversions DEF cpufreq_hp_offline
  <1>16. CASE HotplugDone
    BY <1>16, Conversions DEF HotplugDone, Return, HotplugOps, NoHotplug, stat, user
  <1>17. CASE HotplugFails
    <2>1. budget' \in [writes : 0 .. MaxWrites, fails : 0 .. MaxFails, admin : 0 .. MaxAdminOps]
      BY <1>17, BoundsAssumption DEF HotplugFails
    <2>2. CASE ~hp.ran
      <3>1. hp' = NoHotplug /\ hp' \in HotplugOps
        <4>1. Return
          BY <1>17, <2>2, Zenon DEF HotplugFails
        <4> QED
          BY <4>1, Conversions DEF Return, HotplugOps, NoHotplug
      <3>2. mask' \subseteq CPUs /\ tpc' \in {tpc, "set"}
        BY <1>17, <2>2 DEF HotplugFails, Return
      <3> QED
        BY <1>17, <2>1, <2>2, <3>1, <3>2 DEF HotplugFails, Return, stat, user
    <2>3. CASE hp.ran
      <3>1. hp' = [hp EXCEPT !.op = IF @ = "up" THEN "down" ELSE "up",
                             !.ran = FALSE, !.undo = TRUE]
        BY <1>17, <2>3 DEF HotplugFails
      <3>2. hp' \in HotplugOps
        BY <3>1 DEF HotplugOps
      <3> QED
        BY <1>17, <2>1, <2>3, <3>2 DEF HotplugFails, stat, thread, user
    <2> QED
      BY <2>2, <2>3
  <1>18. CASE UNCHANGED vars
    BY <1>18 DEF vars, stat, thread, hotplug, user
  <1> QED
    BY <1>1, <1>2, <1>3, <1>4, <1>5, <1>6, <1>7, <1>8, <1>9, <1>10, <1>11, <1>12,
       <1>14, <1>15, <1>16, <1>17, <1>18
    DEF Next, UserStep, Thread, Hotplug, Admin

(* Every variable of cpuhp-qos.c stays in the range its C type and the       *)
(* control flow give it, whatever requests and hotplug events come.          *)
THEOREM TypeCorrect == Spec => []TypeOK
  BY TypeInit, TypeNext, PTL DEF Spec

-----------------------------------------------------------------------------
(* NoLostWakeup is inductive by itself: only Check puts the thread to sleep, *)
(* only a writer (whose wake-up is still to come) or a counting callback     *)
(* (which wakes) can make need_adjuest true, and the wake-up makes the       *)
(* thread runnable.                                                          *)
LEMMA WakeupNext == TypeOK /\ NoLostWakeup /\ [Next]_vars => NoLostWakeup'
  <1> SUFFICES ASSUME TypeOK, NoLostWakeup, [Next]_vars,
                      tpc' = "sched", tstate' = "INTERRUPTIBLE", need_adjuest(online_cpus)'
               PROVE  \E u \in Users : upc'[u] \in {"w_max", "w_wake"}
    BY DEF NoLostWakeup
  <1> DEFINE Pending == \E u \in Users : upc[u] \in {"w_max", "w_wake"}
  (* A step that leaves the thread, the range and the count alone, and takes *)
  (* no user out of the middle of a write, keeps the writer it had.          *)
  <1>1. ASSUME tpc = "sched", tstate = "INTERRUPTIBLE", need_adjuest(online_cpus),
               \A u \in Users : upc[u] \in {"w_max", "w_wake"} => upc'[u] \in {"w_max", "w_wake"}
        PROVE  Pending'
    BY <1>1 DEF NoLostWakeup
  <1>2. ASSUME NEW u \in Users, NEW r \in Requests, WriteMin(u, r) PROVE Pending'
    BY <1>2 DEF WriteMin, TypeOK
  <1>3. ASSUME NEW u \in Users, WriteMax(u) PROVE Pending'
    BY <1>3 DEF WriteMax, TypeOK
  <1>4. ASSUME NEW u \in Users, WriteWake(u) PROVE Pending'
    BY <1>4 DEF WriteWake, wake_up_cpuhp_thread
  <1>5. ASSUME NEW u \in Users, ReadMin(u) PROVE Pending'
    BY <1>1, <1>5 DEF ReadMin, TypeOK, need_adjuest, stat, thread
  <1>6. ASSUME NEW u \in Users, ReadMax(u) PROVE Pending'
    BY <1>1, <1>6 DEF ReadMax, TypeOK, need_adjuest, stat, thread
  <1>7. CASE Thread
    BY <1>7 DEF Thread, SetInterruptible, Check, Schedule, Relock, do_core_ctl, CoreCtlCall,
                need_adjuest, stat
  <1>8. ASSUME NEW count, Counted(count) PROVE Pending'
    BY <1>8 DEF Counted, need_adjuest, wake_up_cpuhp_thread
  <1>9. CASE HotplugDone
    BY <1>1, <1>9 DEF HotplugDone, Return, need_adjuest, stat, user
  <1>10. CASE HotplugFails
    BY <1>1, <1>10 DEF HotplugFails, Return, need_adjuest, stat, thread, user
  <1>11. CASE Admin
    BY <1>1, <1>11 DEF Admin, AdminHotplug, need_adjuest, stat, thread, user
  <1>12. CASE UNCHANGED vars
    BY <1>1, <1>12 DEF vars, need_adjuest, stat, thread, user
  <1> QED
    BY <1>2, <1>3, <1>4, <1>5, <1>6, <1>7, <1>8, <1>9, <1>10, <1>11, <1>12
    DEF Next, UserStep, Hotplug, cpufreq_hp_online, cpufreq_hp_offline

(* The order of set_current_state, need_adjuest and schedule in try_core_ctl *)
(* and of store and wake-up in cpuhp_qos_write loses no wake-up.             *)
THEOREM WakeupNotLost == Spec => []NoLostWakeup
  <1>1. Init => NoLostWakeup
    BY DEF Init, NoLostWakeup
  <1> QED
    BY <1>1, TypeCorrect, WakeupNext, PTL DEF Spec

-----------------------------------------------------------------------------
(* OnlineCount needs to know that the CPU of a running operation is in the   *)
(* mask: it is put there when it comes up and taken out after it went down.  *)
InFlight == hp.op \in {"up", "down"} => hp.cpu \in mask
CountInv == OnlineCount /\ InFlight

LEMMA CountInit == Init => CountInv
  <1> SUFFICES ASSUME Init PROVE CountInv
    OBVIOUS
  <1>1. Cardinality(mask) \in Nat
    BY MaskSize, MasksAssumption, SizesAssumption DEF Init
  <1> QED
    BY <1>1 DEF Init, CountInv, OnlineCount, InFlight, Uncounted, NoHotplug

LEMMA CountNext == TypeOK /\ CountInv /\ [Next]_vars => CountInv'
  <1> SUFFICES ASSUME TypeOK, CountInv, [Next]_vars PROVE CountInv'
    OBVIOUS
  <1> USE DEF CountInv, OnlineCount, InFlight, Uncounted
  <1>a. /\ mask \subseteq CPUs /\ hp \in HotplugOps /\ online_cpus \in Nat
        /\ Cardinality(mask) \in 0 .. N
        /\ \A c \in CPUs \ mask : Cardinality(mask \cup {c}) = Cardinality(mask) + 1
        /\ \A c \in mask : Cardinality(mask \ {c}) = Cardinality(mask) - 1 /\ Cardinality(mask) > 0
    BY MaskSize DEF TypeOK, U32
  <1>1. ASSUME UNCHANGED <<online_cpus, mask, hp>> PROVE CountInv'
    BY <1>1
  <1>2. ASSUME NEW op \in {"up", "down"}, NEW c \in CPUs, NEW who,
               hp.op = "none", CanStart(op, c), Start(op, c, who), UNCHANGED online_cpus
        PROVE  CountInv'
    BY <1>2, <1>a DEF CanStart, Start
  <1>3. CASE CoreCtlCall
    <2>1. CASE /\ ctl.cpu \in CPUs /\ CanStart(ctl.op, ctl.cpu)
               /\ Start(ctl.op, ctl.cpu, "thread")
      <3>1. ctl.op \in {"none", "up", "down"} /\ hp.op = "none" /\ online_cpus' = online_cpus
        BY <1>3 DEF TypeOK, CoreCtlCall, stat
      <3>2. CASE ctl.op = "none"
        BY <2>1, <3>1, <3>2, <1>a DEF Start
      <3> QED
        BY <1>2, <2>1, <3>1, <3>2
    <2>2. CASE UNCHANGED hotplug
      BY <1>1, <1>3, <2>2 DEF CoreCtlCall, stat, hotplug
    <2>3. CASE hp' = [NoHotplug EXCEPT !.op = "stuck"] /\ mask' = mask
      BY <1>3, <2>3, <1>a DEF CoreCtlCall, stat, NoHotplug
    <2> QED
      BY <1>3, <2>1, <2>2, <2>3 DEF CoreCtlCall
  <1>4. CASE Admin
    BY <1>2, <1>4 DEF Admin, AdminHotplug, stat
  <1>5. CASE cpufreq_hp_online
    <2>1. ToUnsigned(online_cpus + 1) = online_cpus + 1
      BY <1>5, <1>a, SizesAssumption DEF cpufreq_hp_online, ToUnsigned
    <2>2. hp'.op = "up" /\ hp'.ran /\ hp'.cpu = hp.cpu
      BY <1>5, <1>a DEF cpufreq_hp_online, Counted, HotplugOps
    <2> QED
      BY <1>5, <2>1, <2>2, <1>a DEF cpufreq_hp_online, Counted
  <1>6. CASE cpufreq_hp_offline
    <2>0. hp.op = "down" /\ ~hp.ran /\ hp.cpu \in mask
      BY <1>6 DEF cpufreq_hp_offline
    <2>3. Uncounted = 0
      BY <2>0
    <2>4. online_cpus = Cardinality(mask)
      BY <2>3, <1>a
    <2>5. online_cpus > 0 /\ online_cpus <= N
      <3>1. Cardinality(mask) > 0
        BY <2>0, <1>a
      <3> QED
        BY <2>4, <3>1, <1>a, SizesAssumption
    <2>1. ToUnsigned(online_cpus - 1) = online_cpus - 1
      BY <2>5, <1>a, SizesAssumption DEF ToUnsigned
    <2>2. hp'.op = "down" /\ hp'.ran /\ hp'.cpu = hp.cpu
      BY <1>6, <1>a DEF cpufreq_hp_offline, Counted, HotplugOps
    <2> QED
      BY <1>6, <2>1, <2>2, <1>a DEF cpufreq_hp_offline, Counted
  <1>7. CASE HotplugDone
    <2>1. hp'.op = "none" /\ online_cpus' = online_cpus
      BY <1>7 DEF HotplugDone, Return, NoHotplug, stat
    <2>2. CASE hp.op = "up"
      BY <1>7, <2>1, <2>2, <1>a DEF HotplugDone
    <2>3. CASE hp.op = "down"
      <3>1. /\ hp.ran /\ hp.cpu \in mask /\ online_cpus + 1 = Cardinality(mask)
            /\ mask' = mask \ {hp.cpu}
        BY <1>7, <2>3 DEF HotplugDone
      <3>2. Cardinality(mask') = Cardinality(mask) - 1
        BY <3>1, <1>a
      <3> QED
        BY <2>1, <3>1, <3>2, <1>a
    <2> QED
      BY <1>7, <2>2, <2>3 DEF HotplugDone
  <1>8. CASE HotplugFails
    <2>1. CASE ~hp.ran
      <3>1. Return /\ mask' = IF hp.op = "up" THEN mask \ {hp.cpu} ELSE mask
        BY <1>8, <2>1, Zenon DEF HotplugFails
      <3>2. hp'.op = "none" /\ online_cpus' = online_cpus
        BY <3>1 DEF Return, NoHotplug, stat
      <3> QED
        BY <1>8, <2>1, <3>1, <3>2, <1>a DEF HotplugFails
    <2>2. CASE hp.ran
      <3>1. /\ hp' = [hp EXCEPT !.op = IF @ = "up" THEN "down" ELSE "up",
                                !.ran = FALSE, !.undo = TRUE]
            /\ UNCHANGED <<stat, mask>>
        BY <1>8, <2>2 DEF HotplugFails
      <3>2. /\ hp'.op = IF hp.op = "up" THEN "down" ELSE "up"
            /\ ~hp'.ran /\ hp'.cpu = hp.cpu
        BY <3>1, <1>a DEF HotplugOps
      <3> QED
        BY <1>8, <2>2, <3>1, <3>2, <1>a DEF HotplugFails, stat
    <2> QED
      BY <2>1, <2>2
  <1>9. CASE UserStep
    BY <1>1, <1>9 DEF UserStep, WriteMin, WriteMax, WriteWake, ReadMin, ReadMax, stat, hotplug
  <1>10. CASE Thread /\ ~CoreCtlCall
    BY <1>1, <1>10 DEF Thread, SetInterruptible, Check, Schedule, Relock, do_core_ctl,
                       stat, hotplug
  <1>11. CASE UNCHANGED vars
    BY <1>1, <1>11 DEF vars, stat, hotplug
  <1> QED
    BY <1>3, <1>4, <1>5, <1>6, <1>7, <1>8, <1>9, <1>10, <1>11 DEF Next, Thread, Hotplug

(* online_cpus is the number of online CPUs, through refused and rolled back *)
(* operations, whoever started them.                                         *)
THEOREM CountCorrect == Spec => []OnlineCount
  <1>1. Spec => []CountInv
    BY CountInit, CountNext, TypeCorrect, PTL DEF Spec
  <1> QED
    BY <1>1, PTL DEF CountInv

-----------------------------------------------------------------------------
(* NeverTorn follows from mutual exclusion: the user between its two         *)
(* accesses holds the lock, so the stored range is half a request only while *)
(* a writer is between its two stores.                                       *)
LockInv == \A u \in Users : lock = u <=> upc[u] \in {"w_max", "r_max"}
Seen == asked \cup {<<0, NR_CPUS>>}
StoredInv == (\A u \in Users : upc[u] # "w_max") => <<ToSigned(min), ToSigned(max)>> \in Seen
BufInv ==
    \A u \in Users :
        /\ upc[u] # "r_max" => buf[u] \in Seen
        /\ upc[u] \in {"w_max", "r_max"} => buf[u][1] = ToSigned(min)
PairInv == LockInv /\ StoredInv /\ BufInv

LEMMA PairInit == Init => PairInv
  BY Conversions, UsersAssumption DEF Init, PairInv, LockInv, StoredInv, BufInv, Seen

LEMMA PairNext == TypeOK /\ PairInv /\ [Next]_vars => PairInv'
  <1> SUFFICES ASSUME TypeOK, PairInv, [Next]_vars PROVE PairInv'
    OBVIOUS
  <1> USE DEF PairInv, LockInv
  <1>1. ASSUME NEW u \in Users, NEW r \in Requests, WriteMin(u, r) PROVE PairInv'
    <2>1. r \in S32 \X S32 /\ ToSigned(ToUnsigned(r[1])) = r[1]
      BY RequestsAssumption, Conversions
    <2>2. \A v \in Users : upc[v] \notin {"w_max", "r_max"}
      BY <1>1, UsersAssumption DEF WriteMin
    <2>3. upc' = [upc EXCEPT ![u] = "w_max"] /\ lock' = u /\ upc'[u] = "w_max"
      BY <1>1 DEF WriteMin, TypeOK
    <2>4. LockInv'
      BY <2>2, <2>3 DEF TypeOK
    <2>5. StoredInv'
      BY <2>3 DEF StoredInv
    <2>6. BufInv'
      BY <1>1, <2>1, <2>2, <2>3 DEF WriteMin, BufInv, Seen, TypeOK
    <2> QED
      BY <2>4, <2>5, <2>6
  <1>2. ASSUME NEW u \in Users, WriteMax(u) PROVE PairInv'
    <2>1. buf[u] \in S32 \X S32 /\ buf[u] \in Seen /\ buf[u][1] = ToSigned(min)
      BY <1>2 DEF WriteMax, BufInv, TypeOK
    <2>2. ToSigned(ToUnsigned(buf[u][2])) = buf[u][2] /\ buf[u] = <<buf[u][1], buf[u][2]>>
      BY <2>1, Conversions
    <2>3. \A v \in Users : upc[v] \in {"w_max", "r_max"} => v = u
      BY <1>2 DEF WriteMax
    <2>4. LockInv'
      BY <1>2, <2>3, UsersAssumption DEF WriteMax, TypeOK
    <2>5. StoredInv'
      <3>1. <<ToSigned(min), ToSigned(max')>> = buf[u]
        BY <1>2, <2>1, <2>2 DEF WriteMax
      <3> QED
        BY <1>2, <2>1, <3>1 DEF WriteMax, StoredInv, Seen
    <2>6. BufInv'
      BY <1>2, <2>1, <2>3 DEF WriteMax, BufInv, Seen, TypeOK
    <2> QED
      BY <2>4, <2>5, <2>6
  <1>3. ASSUME NEW u \in Users, WriteWake(u) PROVE PairInv'
    BY <1>3 DEF WriteWake, StoredInv, BufInv, Seen, TypeOK, stat
  <1>4. ASSUME NEW u \in Users, ReadMin(u) PROVE PairInv'
    <2>1. \A v \in Users : upc[v] \notin {"w_max", "r_max"}
      BY <1>4, UsersAssumption DEF ReadMin
    <2>2. LockInv'
      BY <1>4, <2>1 DEF ReadMin, TypeOK
    <2>3. StoredInv' /\ BufInv'
      BY <1>4, <2>1 DEF ReadMin, StoredInv, BufInv, Seen, TypeOK, stat
    <2> QED
      BY <2>2, <2>3
  <1>5. ASSUME NEW u \in Users, ReadMax(u) PROVE PairInv'
    <2>1. \A v \in Users : upc[v] \in {"w_max", "r_max"} => v = u
      BY <1>5 DEF ReadMax
    <2>2. LockInv'
      BY <1>5, <2>1, UsersAssumption DEF ReadMax, TypeOK
    <2>3. <<ToSigned(min), ToSigned(max)>> \in Seen
      BY <1>5, <2>1 DEF ReadMax, StoredInv
    <2>4. buf'[u] = <<ToSigned(min), ToSigned(max)>>
      BY <1>5 DEF ReadMax, BufInv, TypeOK
    <2>5. StoredInv'
      BY <1>5, <2>3 DEF ReadMax, StoredInv, Seen, stat
    <2>6. BufInv'
      BY <1>5, <2>1, <2>3, <2>4 DEF ReadMax, BufInv, Seen, TypeOK, stat
    <2> QED
      BY <2>2, <2>5, <2>6
  <1>6. ASSUME UNCHANGED <<min, max, lock, upc, buf, asked>> PROVE PairInv'
    BY <1>6 DEF StoredInv, BufInv, Seen
  <1>7. CASE Thread
    BY <1>6, <1>7 DEF Thread, SetInterruptible, Check, Schedule, Relock, do_core_ctl,
                      CoreCtlCall, stat, user
  <1>8. CASE Hotplug
    BY <1>6, <1>8 DEF Hotplug, cpufreq_hp_online, cpufreq_hp_offline, Counted, HotplugDone,
                      HotplugFails, Return, stat, user
  <1>9. CASE Admin
    BY <1>6, <1>9 DEF Admin, AdminHotplug, stat, user
  <1>10. CASE UNCHANGED vars
    BY <1>6, <1>10 DEF vars, stat, user
  <1> QED
    BY <1>1, <1>2, <1>3, <1>4, <1>5, <1>7, <1>8, <1>9, <1>10 DEF Next, UserStep

(* A read returns one request as it was written, negative numbers included.  *)
THEOREM ReadsNotTorn == Spec => []NeverTorn
  <1>1. Spec => []PairInv
    BY PairInit, PairNext, TypeCorrect, PTL DEF Spec
  <1>2. PairInv => NeverTorn
    BY DEF PairInv, BufInv, Seen, NeverTorn
  <1> QED
    BY <1>1, <1>2, PTL

-----------------------------------------------------------------------------
(* The number do_core_ctl decided on is that of a CPU, or the last of the    *)
(* range it compared with was an impossible request.                         *)
Impossible == \E r \in asked : ToUnsigned(r[1]) > N
CtlInv == /\ tpc = "call" /\ ctl.cpu \notin CPUs => Impossible
          /\ tpc = "oops" => Impossible

LEMMA CtlNext ==
    TypeOK /\ CountInv /\ PairInv /\ CtlInv /\ [Next]_vars => CtlInv'
  <1> SUFFICES ASSUME TypeOK, CountInv, PairInv, CtlInv, [Next]_vars PROVE CtlInv'
    OBVIOUS
  <1>1. Impossible => Impossible'
    BY DEF Next, UserStep, WriteMin, WriteMax, WriteWake, ReadMin, ReadMax, Thread,
           SetInterruptible, Check, Schedule, Relock, do_core_ctl, CoreCtlCall, Hotplug,
           cpufreq_hp_online, cpufreq_hp_offline, Counted, HotplugDone, HotplugFails, Return,
           Admin, AdminHotplug, Impossible, vars, user
  <1>2. CASE do_core_ctl
    <2>1. online_cpus \in 0 .. N
      <3>1. Cardinality(mask) \in 0 .. N /\ online_cpus \in Nat
        BY MaskSize DEF TypeOK, U32
      <3> QED
        BY <3>1, SizesAssumption DEF CountInv, OnlineCount, Uncounted
    <2>2. <<ToSigned(min), ToSigned(max)>> \in Seen
      <3>1. lock = "free"
        BY <1>2 DEF do_core_ctl
      <3> QED
        BY <3>1, UsersAssumption DEF PairInv, LockInv, StoredInv
    <2>3. ToUnsigned(ToSigned(min)) = min /\ min \in Nat /\ max \in Nat
      BY Conversions DEF TypeOK, U32
    <2>4. ASSUME min > N PROVE Impossible
      <3>1. <<ToSigned(min), ToSigned(max)>> \in asked
        BY <2>2, <2>3, <2>4, Conversions, SizesAssumption DEF Seen
      <3> QED
        BY <2>3, <2>4, <3>1 DEF Impossible
    <2>5. ctl' = Decide(online_cpus) /\ asked' = asked
          /\ tpc' = IF ctl'.op = "none" THEN "set" ELSE "call"
      BY <1>2 DEF do_core_ctl, user
    <2>6. ctl'.op # "none" /\ ctl'.cpu \notin CPUs => min > N
      BY <2>1, <2>3, <2>5, SizesAssumption DEF Decide, NoCtl, CPUs
    <2> QED
      BY <1>1, <2>4, <2>5, <2>6 DEF CtlInv, CPUs
  <1>3. CASE CoreCtlCall
    BY <1>1, <1>3 DEF CoreCtlCall, CtlInv
  <1>4. ASSUME tpc' \notin {"call", "oops"} \/ UNCHANGED <<tpc, ctl>> PROVE CtlInv'
    BY <1>1, <1>4 DEF CtlInv, CPUs
  <1>5. CASE Thread /\ ~do_core_ctl /\ ~CoreCtlCall
    BY <1>4, <1>5 DEF Thread, SetInterruptible, Check, Schedule, Relock
  <1>6. CASE UserStep
    BY <1>4, <1>6 DEF UserStep, WriteMin, WriteMax, WriteWake, ReadMin, ReadMax, thread
  <1>7. CASE Hotplug
    BY <1>4, <1>7 DEF Hotplug, cpufreq_hp_online, cpufreq_hp_offline, Counted, HotplugDone,
                      HotplugFails, Return, thread
  <1>8. CASE Admin
    BY <1>4, <1>8 DEF Admin, AdminHotplug, thread
  <1>9. CASE UNCHANGED vars
    BY <1>4, <1>9 DEF vars, thread
  <1> QED
    BY <1>2, <1>3, <1>5, <1>6, <1>7, <1>8, <1>9 DEF Next, Thread

(* core_ctl dies in add_cpu only if some write asked for more CPUs than the  *)
(* machine has: no interleaving of writes with the snapshot, and no rolled   *)
(* back hotplug operation, leads it to a CPU that does not exist.            *)
THEOREM ThreadSurvives == Spec => []OnlyImpossibleMinKillsThread
  <1>1. Init => CtlInv
    BY DEF Init, CtlInv
  <1>2. Spec => []CountInv /\ []PairInv
    BY CountInit, CountNext, PairInit, PairNext, TypeCorrect, PTL DEF Spec
  <1>3. CtlInv => OnlyImpossibleMinKillsThread
    BY DEF CtlInv, Impossible, OnlyImpossibleMinKillsThread
  <1> QED
    BY <1>1, <1>2, <1>3, CtlNext, TypeCorrect, PTL DEF Spec

-----------------------------------------------------------------------------
(* When nobody hotplugs through sysfs, online_cpus is also the number of the *)
(* next CPU to come up, because the CPUs that are online are the first ones. *)
OnlyCoreCtlHotplugs ==
    /\ MaxAdminOps = 0
    /\ \A initial \in InitialMasks : \E n \in CPUs : initial = 0 .. n

UnderWay == hp.op \in {"up", "down"}
Counts == \/ hp.op = "up" /\ hp.ran
          \/ hp.op = "down" /\ ~hp.ran
FirstOnes ==
    /\ ~UnderWay => mask = 0 .. online_cpus - 1
    /\ UnderWay => /\ mask = 0 .. hp.cpu
                   /\ Counts => online_cpus = hp.cpu + 1
                   /\ ~Counts => online_cpus = hp.cpu
ByCoreCtl ==
    /\ budget.admin = 0
    /\ UnderWay => tpc = "wait" /\ hp.by = "thread"
    /\ hp.op = "stuck" => tpc = "oops"
Chosen ==
    tpc = "call" => \/ ctl.op = "up" /\ ctl.cpu = online_cpus
                    \/ ctl.op = "down" /\ ctl.cpu = online_cpus - 1
FirstInv == FirstOnes /\ ByCoreCtl /\ Chosen

LEMMA FirstInit == OnlyCoreCtlHotplugs /\ Init => FirstInv
  <1> SUFFICES ASSUME OnlyCoreCtlHotplugs, Init PROVE FirstInv
    OBVIOUS
  <1>1. PICK n \in CPUs : mask = 0 .. n
    BY DEF OnlyCoreCtlHotplugs, Init
  <1>2. n \in Nat /\ Cardinality(mask) = n + 1
    BY <1>1, FS_Interval DEF CPUs
  <1>3. online_cpus - 1 = n
    BY <1>2 DEF Init
  <1>4. FirstOnes
    BY <1>1, <1>3 DEF Init, FirstOnes, UnderWay, NoHotplug
  <1> QED
    BY <1>4 DEF Init, FirstInv, ByCoreCtl, Chosen, UnderWay, NoHotplug, OnlyCoreCtlHotplugs

LEMMA FirstNext == TypeOK /\ FirstInv /\ [Next]_vars => FirstInv'
  <1> SUFFICES ASSUME TypeOK, FirstInv, [Next]_vars PROVE FirstInv'
    OBVIOUS
  <1>a. /\ hp \in HotplugOps /\ online_cpus \in Nat /\ ctl.op \in {"none", "up", "down"} /\ ctl.cpu \in Nat
        /\ mask \subseteq CPUs
    BY DEF TypeOK, U32
  <1>b. hp.cpu \in 0 .. N - 1 /\ hp.ran \in BOOLEAN
    BY <1>a DEF HotplugOps, CPUs
  <1>1. ASSUME UNCHANGED <<online_cpus, mask, hp, budget>>, tpc' \in {"call", "oops"} => UNCHANGED <<tpc, ctl>>,
               tpc \in {"wait", "oops"} => UNCHANGED tpc
        PROVE  FirstInv'
    BY <1>1 DEF FirstInv, FirstOnes, ByCoreCtl, Chosen, UnderWay, Counts
  <1>2. CASE UserStep
    <2>1. UNCHANGED <<online_cpus, mask, hp, tpc, ctl>> /\ budget'.admin = budget.admin
      BY <1>2 DEF UserStep, WriteMin, WriteMax, WriteWake, ReadMin, ReadMax, stat, thread, hotplug, TypeOK
    <2> QED
      BY <2>1 DEF FirstInv, FirstOnes, ByCoreCtl, Chosen, UnderWay, Counts
  <1>3. CASE SetInterruptible \/ Check \/ Schedule \/ Relock
    BY <1>1, <1>3 DEF SetInterruptible, Check, Schedule, Relock, stat, hotplug
  <1>4. CASE do_core_ctl
    <2>1. /\ UNCHANGED <<online_cpus, mask, hp, budget>> /\ tpc = "ctl" /\ ctl' = Decide(online_cpus)
          /\ tpc' = IF ctl'.op = "none" THEN "set" ELSE "call"
      BY <1>4 DEF do_core_ctl, stat, hotplug
    <2>2. ~UnderWay /\ hp.op # "stuck"
      BY <2>1 DEF FirstInv, ByCoreCtl
    <2>3. Chosen'
      BY <2>1 DEF Chosen, Decide, NoCtl
    <2> QED
      BY <2>1, <2>2, <2>3 DEF FirstInv, FirstOnes, ByCoreCtl, UnderWay
  <1>5. CASE CoreCtlCall
    <2>0. /\ tpc = "call" /\ hp.op = "none" /\ UNCHANGED <<online_cpus, budget>> /\ mask = 0 .. online_cpus - 1
          /\ \/ ctl.op = "up" /\ ctl.cpu = online_cpus
             \/ ctl.op = "down" /\ ctl.cpu = online_cpus - 1
      BY <1>5 DEF CoreCtlCall, FirstInv, FirstOnes, Chosen, UnderWay, stat
    <2>1. CASE /\ ctl.cpu \in CPUs /\ CanStart(ctl.op, ctl.cpu)
               /\ Start(ctl.op, ctl.cpu, "thread") /\ tpc' = "wait"
      <3>1. /\ hp'.op = ctl.op /\ hp'.cpu = ctl.cpu /\ hp'.by = "thread" /\ hp'.ran = FALSE
            /\ mask' = IF ctl.op = "up" THEN mask \cup {ctl.cpu} ELSE mask
        BY <2>1 DEF Start
      <3>2. mask' = 0 .. ctl.cpu
        <4>1. PICK n \in Nat : n = online_cpus
          BY <1>a
        <4>2. CASE ctl.op = "up" /\ ctl.cpu = n
          BY <2>0, <3>1, <4>1, <4>2
        <4>3. CASE ctl.op = "down" /\ ctl.cpu = n - 1
          BY <2>0, <3>1, <4>1, <4>3
        <4> QED
          BY <2>0, <4>1, <4>2, <4>3
      <3>3. FirstOnes'
        <4>1. ctl.op = "up" => UnderWay' /\ ~Counts'
          BY <3>1, Zenon DEF UnderWay, Counts
        <4>2. ctl.op = "down" => UnderWay' /\ Counts'
          BY <3>1, Zenon DEF UnderWay, Counts
        <4>3. online_cpus \in Int /\ (ctl.op = "up" => online_cpus = ctl.cpu) /\ (ctl.op = "down" => online_cpus = ctl.cpu + 1)
          BY <1>a, <2>0
        <4> QED
          BY <2>0, <3>1, <3>2, <4>1, <4>2, <4>3 DEF FirstOnes
      <3> QED
        BY <2>0, <2>1, <3>1, <3>3 DEF FirstInv, ByCoreCtl, Chosen, UnderWay
    <2>2. CASE tpc' = "set" /\ UNCHANGED hotplug
      BY <2>0, <2>2 DEF FirstInv, FirstOnes, ByCoreCtl, Chosen, UnderWay, Counts, hotplug
    <2>3. CASE tpc' = "oops" /\ hp' = [NoHotplug EXCEPT !.op = "stuck"] /\ mask' = mask
      BY <2>0, <2>3 DEF FirstInv, FirstOnes, ByCoreCtl, Chosen, UnderWay, NoHotplug
    <2> QED
      BY <1>5, <2>1, <2>2, <2>3 DEF CoreCtlCall
  <1>6. CASE Admin
    BY <1>6 DEF Admin, AdminHotplug, FirstInv, ByCoreCtl
  <1>7. ASSUME UnderWay, NEW count \in Nat, Counted(count), ~hp.ran,
               count = IF hp.op = "up" THEN hp.cpu + 1 ELSE hp.cpu
        PROVE  FirstInv'
    <2>1. /\ UNCHANGED <<mask, tpc, ctl, budget>> /\ online_cpus' = count
          /\ hp'.op = hp.op /\ hp'.cpu = hp.cpu /\ hp'.by = hp.by /\ hp'.ran = TRUE
      BY <1>7, <1>a DEF Counted, HotplugOps
    <2>2. tpc = "wait"
      BY <1>7 DEF FirstInv, ByCoreCtl
    <2>3. UnderWay' /\ (Counts' <=> hp.op = "up")
      BY <1>7, <2>1, Zenon DEF UnderWay, Counts
    <2>4. FirstOnes'
      BY <1>7, <2>1, <2>3 DEF FirstInv, FirstOnes
    <2> QED
      BY <1>7, <2>1, <2>2, <2>4 DEF FirstInv, ByCoreCtl, Chosen, UnderWay
  <1>8. CASE cpufreq_hp_online
    <2>1. hp.op = "up" /\ ~hp.ran /\ online_cpus = hp.cpu
      BY <1>8, <1>b DEF cpufreq_hp_online, FirstInv, FirstOnes, UnderWay, Counts
    <2>2. ToUnsigned(online_cpus + 1) = hp.cpu + 1
      BY <1>b, <2>1, SizesAssumption DEF ToUnsigned
    <2> QED
      BY <1>7, <1>8, <1>b, <2>1, <2>2 DEF cpufreq_hp_online, UnderWay
  <1>9. CASE cpufreq_hp_offline
    <2>1. hp.op = "down" /\ ~hp.ran /\ online_cpus = hp.cpu + 1
      BY <1>9, <1>b DEF cpufreq_hp_offline, FirstInv, FirstOnes, UnderWay, Counts
    <2>2. ToUnsigned(online_cpus - 1) = hp.cpu
      BY <1>b, <2>1, SizesAssumption DEF ToUnsigned
    <2> QED
      BY <1>7, <1>9, <1>b, <2>1, <2>2 DEF cpufreq_hp_offline, UnderWay
  <1>10. ASSUME UnderWay, Return, UNCHANGED online_cpus, budget'.admin = budget.admin, mask' = 0 .. online_cpus - 1
         PROVE  FirstInv'
    <2>1. hp' = NoHotplug /\ tpc' = "set"
      BY <1>10 DEF Return, FirstInv, ByCoreCtl
    <2> QED
      BY <1>10, <2>1 DEF FirstInv, FirstOnes, ByCoreCtl, Chosen, UnderWay, NoHotplug
  <1>11. CASE HotplugDone
    <2>1. UnderWay /\ hp.ran /\ Return /\ UNCHANGED <<online_cpus, budget>>
          /\ mask' = IF hp.op = "down" THEN mask \ {hp.cpu} ELSE mask
      BY <1>11 DEF HotplugDone, Return, UnderWay, stat
    <2>2. mask = 0 .. hp.cpu /\ online_cpus = IF hp.op = "up" THEN hp.cpu + 1 ELSE hp.cpu
      <3>1. Counts <=> hp.op = "up"
        BY <2>1, Zenon DEF UnderWay, Counts
      <3> QED
        BY <2>1, <3>1 DEF FirstInv, FirstOnes
    <2>3. mask' = 0 .. online_cpus - 1
      <3>1. CASE hp.op = "up"
        BY <1>b, <2>1, <2>2, <3>1
      <3>2. CASE hp.op = "down"
        BY <1>b, <2>1, <2>2, <3>2
      <3> QED
        BY <2>1, <3>1, <3>2 DEF UnderWay
    <2> QED
      BY <1>10, <2>1, <2>3
  <1>12. CASE HotplugFails
    <2>1. UnderWay /\ UNCHANGED online_cpus /\ budget'.admin = budget.admin
      BY <1>12 DEF HotplugFails, Return, UnderWay, stat, TypeOK
    <2>2. CASE ~hp.ran
      <3>1. Return /\ mask' = IF hp.op = "up" THEN mask \ {hp.cpu} ELSE mask
        BY <1>12, <2>2, Zenon DEF HotplugFails
      <3>2. mask = 0 .. hp.cpu /\ online_cpus = IF hp.op = "up" THEN hp.cpu ELSE hp.cpu + 1
        <4>1. Counts <=> hp.op # "up"
          BY <2>1, <2>2, Zenon DEF UnderWay, Counts
        <4> QED
          BY <2>1, <4>1 DEF FirstInv, FirstOnes
      <3>3. mask' = 0 .. online_cpus - 1
        <4>1. CASE hp.op = "up"
          BY <1>b, <3>1, <3>2, <4>1
        <4>2. CASE hp.op = "down"
          BY <1>b, <3>1, <3>2, <4>2
        <4> QED
          BY <2>1, <4>1, <4>2 DEF UnderWay
      <3> QED
        BY <1>10, <2>1, <3>1, <3>3
    <2>3. CASE hp.ran
      <3>1. /\ hp' = [hp EXCEPT !.op = IF @ = "up" THEN "down" ELSE "up", !.ran = FALSE, !.undo = TRUE]
            /\ UNCHANGED <<tpc, ctl, mask>>
        BY <1>12, <2>3 DEF HotplugFails, thread
      <3>2. /\ hp'.op = IF hp.op = "up" THEN "down" ELSE "up"
            /\ hp'.ran = FALSE /\ hp'.cpu = hp.cpu /\ hp'.by = hp.by
        BY <1>a, <3>1 DEF HotplugOps
      <3>3. mask = 0 .. hp.cpu /\ online_cpus = IF hp.op = "up" THEN hp.cpu + 1 ELSE hp.cpu
        <4>1. Counts <=> hp.op = "up"
          BY <2>1, <2>3, Zenon DEF UnderWay, Counts
        <4> QED
          BY <2>1, <4>1 DEF FirstInv, FirstOnes
      <3>4. FirstOnes'
        <4>1. UnderWay' /\ (Counts' <=> hp.op = "up")
          BY <2>1, <3>2, Zenon DEF UnderWay, Counts
        <4> QED
          BY <2>1, <3>1, <3>2, <3>3, <4>1 DEF FirstOnes
      <3> QED
        BY <2>1, <3>1, <3>2, <3>4 DEF FirstInv, ByCoreCtl, Chosen, UnderWay
    <2> QED
      BY <2>2, <2>3
  <1>13. CASE UNCHANGED vars
    BY <1>1, <1>13 DEF vars, stat, thread, hotplug
  <1> QED
    BY <1>2, <1>3, <1>4, <1>5, <1>6, <1>8, <1>9, <1>11, <1>12, <1>13 DEF Next, Thread, Hotplug

(* As long as only core_ctl plugs CPUs in and out, the online CPUs are those *)
(* from 0 on whenever no operation is under way, through every failure and   *)
(* roll-back and whatever is written: online_cpus is the number of a CPU     *)
(* that is not online, and online_cpus - 1 of one that is.                   *)
THEOREM StaysContiguous == ASSUME OnlyCoreCtlHotplugs PROVE Spec => []Contiguous
  <1>1. Init => FirstInv
    BY FirstInit
  <1>2. FirstInv => Contiguous
    BY DEF FirstInv, FirstOnes, Contiguous, UnderWay
  <1> QED
    BY <1>1, <1>2, FirstNext, TypeCorrect, PTL DEF Spec

-----------------------------------------------------------------------------
(* A decision outlives the lock it was made under, but not the count: only   *)
(* the thread changes that, and the range matters no more.                   *)
OnlyMeetable == \A r \in Requests : ToUnsigned(r[1]) <= N /\ ToUnsigned(r[2]) >= 1

RangeInv ==
    /\ min <= N /\ max >= 1
    /\ \A u \in Users : upc[u] = "w_max" => ToUnsigned(buf[u][2]) >= 1
    /\ tpc = "call" => (ctl.op = "up" => ctl.cpu < N) /\ (ctl.op = "down" => ctl.cpu >= 1)

LEMMA RangeNext == OnlyMeetable /\ TypeOK /\ RangeInv /\ [Next]_vars => RangeInv'
  <1> SUFFICES ASSUME OnlyMeetable, TypeOK, RangeInv, [Next]_vars PROVE RangeInv'
    OBVIOUS
  <1> USE DEF RangeInv
  <1>1. ASSUME UNCHANGED <<min, max, upc, buf>>, tpc' = "call" => UNCHANGED <<tpc, ctl>> PROVE RangeInv'
    BY <1>1
  <1>2. ASSUME NEW u \in Users, NEW r \in Requests, WriteMin(u, r) PROVE RangeInv'
    <2>1. /\ min' = ToUnsigned(r[1]) /\ buf' = [buf EXCEPT ![u] = r] /\ upc' = [upc EXCEPT ![u] = "w_max"]
          /\ UNCHANGED <<max, tpc, ctl>>
      BY <1>2 DEF WriteMin, thread
    <2> QED
      BY <2>1 DEF TypeOK, OnlyMeetable
  <1>3. ASSUME NEW u \in Users, WriteMax(u) PROVE RangeInv'
    BY <1>3 DEF WriteMax, TypeOK, thread
  <1>4. ASSUME NEW u \in Users, WriteWake(u) \/ ReadMin(u) \/ ReadMax(u) PROVE RangeInv'
    BY <1>4 DEF WriteWake, ReadMin, ReadMax, TypeOK, stat, thread
  <1>5. CASE do_core_ctl
    <2>1. /\ UNCHANGED <<min, max, upc, buf>> /\ ctl' = Decide(online_cpus)
          /\ online_cpus \in Nat /\ min \in Nat /\ max \in Nat /\ N \in Nat
      BY <1>5, SizesAssumption DEF do_core_ctl, stat, user, TypeOK, U32
    <2> QED
      BY <2>1 DEF Decide, NoCtl
  <1>6. CASE Thread /\ ~do_core_ctl
    BY <1>1, <1>6 DEF Thread, SetInterruptible, Check, Schedule, Relock, CoreCtlCall, stat, user
  <1>7. CASE Hotplug \/ Admin
    BY <1>1, <1>7 DEF Hotplug, cpufreq_hp_online, cpufreq_hp_offline, Counted, HotplugDone, HotplugFails,
                      Return, Admin, AdminHotplug, stat, thread, user
  <1>8. CASE UNCHANGED vars
    BY <1>1, <1>8 DEF vars, stat, thread, user
  <1> QED
    BY <1>2, <1>3, <1>4, <1>5, <1>6, <1>7, <1>8 DEF Next, UserStep

(* If, besides, nobody asks for more CPUs than there are or for none, then   *)
(* what do_core_ctl decided on is still to be done when it calls add_cpu or  *)
(* remove_cpu, although it has dropped the lock in between.                  *)
THEOREM CallsAreNotStale == ASSUME OnlyCoreCtlHotplugs, OnlyMeetable PROVE Spec => []CallsHaveEffect
  <1>1. Init => FirstInv /\ RangeInv
    BY FirstInit, SizesAssumption DEF Init, RangeInv
  <1>2. TypeOK /\ RangeInv /\ [Next]_vars => RangeInv'
    BY RangeNext
  <1>3. TypeOK /\ FirstInv /\ RangeInv => CallsHaveEffect
    <2> SUFFICES ASSUME TypeOK, FirstInv, RangeInv, tpc = "call"
                 PROVE  ctl.cpu \in CPUs /\ CanStart(ctl.op, ctl.cpu)
      BY DEF CallsHaveEffect
    <2>1. mask = 0 .. online_cpus - 1 /\ online_cpus \in Nat /\ N \in Nat /\ mask \subseteq 0 .. N - 1
      BY SizesAssumption DEF FirstInv, FirstOnes, ByCoreCtl, TypeOK, U32, CPUs
    <2>2. CASE ctl.op = "up" /\ ctl.cpu = online_cpus /\ ctl.cpu < N
      BY <2>1, <2>2 DEF CPUs, CanStart
    <2>3. CASE ctl.op = "down" /\ ctl.cpu = online_cpus - 1 /\ ctl.cpu >= 1
      <3>1. ctl.cpu \in mask /\ 0 \in mask /\ 0 # ctl.cpu
        BY <2>1, <2>3
      <3> QED
        BY <2>1, <2>3, <3>1 DEF CPUs, CanStart
    <2> QED
      BY <2>2, <2>3 DEF FirstInv, Chosen, RangeInv
  <1> QED
    BY <1>1, <1>2, <1>3, FirstNext, TypeCorrect, PTL DEF Spec

-----------------------------------------------------------------------------
(* How far the count is from the range, and whether the call or the operation*)
(* that core_ctl has begun goes towards it.  A roll-back goes back.          *)
Distance == IF online_cpus < min THEN min - online_cpus
            ELSE IF online_cpus > max THEN online_cpus - max ELSE 0
Towards(op) == (op = "up" => online_cpus < min) /\ (op = "down" => online_cpus > max)
Directed ==
    /\ tpc = "call" => Towards(ctl.op)
    /\ UnderWay /\ ~hp.ran /\ ~hp.undo => Towards(hp.op)

(* Between two rounds of its loop core_ctl has nothing begun that leads away.*)
(* While nobody stores another range it begins nothing of the kind, and every*)
(* CPU counted brings the number nearer to the range, but for a roll-back.   *)
ComesNearer ==
    /\ tpc \notin {"call", "wait"} => Directed
    /\ Directed /\ UNCHANGED <<min, max>> =>
          /\ Directed'
          /\ min <= max /\ online_cpus' # online_cpus /\ ~hp.undo => Distance' < Distance

LEMMA ComesNearerStep == TypeOK /\ FirstInv /\ [Next]_vars => ComesNearer
  <1> SUFFICES ASSUME TypeOK, FirstInv, [Next]_vars PROVE ComesNearer
    OBVIOUS
  <1>1. tpc \notin {"call", "wait"} => Directed
    BY DEF FirstInv, ByCoreCtl, Directed
  <1> SUFFICES ASSUME Directed, min' = min, max' = max
               PROVE  /\ Directed'
                      /\ min <= max /\ online_cpus' # online_cpus /\ ~hp.undo => Distance' < Distance
    BY <1>1 DEF ComesNearer
  <1>a. online_cpus \in Nat /\ min \in Nat /\ max \in Nat /\ N \in Nat
    BY SizesAssumption DEF TypeOK, U32
  <1>2. ASSUME UNCHANGED <<online_cpus, hp>>, tpc' = "call" => UNCHANGED <<tpc, ctl>>
        PROVE  Directed' /\ online_cpus' = online_cpus
    BY <1>2 DEF Directed, UnderWay, Towards
  <1>3. CASE UserStep
    BY <1>2, <1>3 DEF UserStep, WriteMin, WriteMax, WriteWake, ReadMin, ReadMax, stat, thread, hotplug
  <1>4. CASE SetInterruptible \/ Check \/ Schedule \/ Relock
    BY <1>2, <1>4 DEF SetInterruptible, Check, Schedule, Relock, stat, hotplug
  <1>5. CASE do_core_ctl
    <2>1. UNCHANGED <<online_cpus, hp>> /\ tpc = "ctl" /\ ctl' = Decide(online_cpus)
      BY <1>5 DEF do_core_ctl, stat, hotplug
    <2>2. Towards(ctl'.op)
      BY <1>a, <2>1 DEF Towards, Decide, NoCtl
    <2> QED
      BY <2>1, <2>2 DEF Directed, UnderWay, Towards
  <1>6. CASE CoreCtlCall
    <2>1. tpc = "call" /\ hp.op = "none" /\ online_cpus' = online_cpus /\ tpc' # "call"
      BY <1>6 DEF CoreCtlCall, stat
    <2>2. hp'.op = ctl.op \/ hp'.op \in {"stuck", "none"}
      BY <1>6, <2>1 DEF CoreCtlCall, Start, NoHotplug, hotplug
    <2> QED
      BY <2>1, <2>2 DEF Directed, UnderWay, Towards
  <1>7. CASE Admin
    BY <1>7 DEF Admin, AdminHotplug, FirstInv, ByCoreCtl
  <1>8. CASE cpufreq_hp_online \/ cpufreq_hp_offline
    <2>1. /\ UnderWay /\ ~hp.ran /\ hp' = [hp EXCEPT !.ran = TRUE] /\ tpc' = tpc
          /\ online_cpus' = ToUnsigned(IF hp.op = "up" THEN online_cpus + 1 ELSE online_cpus - 1)
      BY <1>8 DEF cpufreq_hp_online, cpufreq_hp_offline, Counted, UnderWay
    <2>2. hp.cpu \in 0 .. N - 1 /\ tpc = "wait"
      BY <2>1 DEF TypeOK, HotplugOps, CPUs, FirstInv, ByCoreCtl
    <2>3. online_cpus = IF hp.op = "up" THEN hp.cpu ELSE hp.cpu + 1
      BY <2>1 DEF FirstInv, FirstOnes, Counts, UnderWay
    <2>4. online_cpus' = IF hp.op = "up" THEN online_cpus + 1 ELSE online_cpus - 1
      BY <1>a, <2>1, <2>2, <2>3, SizesAssumption DEF ToUnsigned
    <2>5. hp'.ran = TRUE
      BY <2>1 DEF TypeOK, HotplugOps
    <2>6. Directed'
      BY <2>1, <2>2, <2>5 DEF Directed
    <2>7. ASSUME min <= max, ~hp.undo PROVE Distance' < Distance
      <3>1. Towards(hp.op) /\ hp.op \in {"up", "down"}
        BY <2>1, <2>7 DEF Directed, UnderWay
      <3> QED
        BY <1>a, <2>4, <2>7, <3>1 DEF Distance, Towards
    <2> QED
      BY <2>6, <2>7
  <1>9. CASE HotplugDone \/ HotplugFails
    <2>1. online_cpus' = online_cpus /\ tpc' \in {tpc, "set"} /\ (tpc' = "call" => UNCHANGED ctl)
      BY <1>9 DEF HotplugDone, HotplugFails, Return, stat, thread
    <2>2. hp' = NoHotplug \/ hp'.undo = TRUE
      BY <1>9 DEF HotplugDone, HotplugFails, Return, TypeOK, HotplugOps
    <2>3. ~(UnderWay' /\ ~hp'.undo)
      BY <2>2 DEF UnderWay, NoHotplug
    <2> QED
      BY <2>1, <2>3 DEF Directed, Towards
  <1>10. CASE UNCHANGED vars
    BY <1>2, <1>10 DEF vars, stat, thread, hotplug
  <1> QED
    BY <1>3, <1>4, <1>5, <1>6, <1>7, <1>8, <1>9, <1>10 DEF Next, Thread, Hotplug

(* The safety half of Settles: as long as only core_ctl plugs CPUs in and out*)
(* and no other range is stored, do_core_ctl does not lead away from the     *)
(* range, although it drops its lock between the decision and the call.      *)
THEOREM NumberComesNearer == ASSUME OnlyCoreCtlHotplugs PROVE Spec => [][ComesNearer]_vars
  <1>1. Init => FirstInv
    BY FirstInit
  <1>2. TypeOK /\ TypeOK' /\ FirstInv /\ [Next]_vars => [ComesNearer]_vars
    BY ComesNearerStep
  <1> QED
    BY <1>1, <1>2, FirstNext, TypeCorrect, PTL DEF Spec
=============================================================================
