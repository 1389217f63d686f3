-------------------------- MODULE KernelTestsProofs --------------------------
(***************************************************************************)
(* Proofs about eight of the small kernel modules, for any number of CPUs, *)
(* readers, open files and entries.                                        *)
(***************************************************************************)
EXTENDS TimerTest, LockdepRwlock, SdeiTest, CpufreqQos, DevfreqQos,
        WorkTest, UnboundTest, WorkListing, FiniteSetTheorems, TLAPS

-----------------------------------------------------------------------------
(* timer-debugobject-test.c.  From the removal of the proc file on nobody    *)
(* queues a work item, so that a timer deleted without one behind it stays   *)
(* deleted.                                                                  *)
TimerInv ==
    /\ todo \in [TimerReaders -> SUBSET TimerCpus]
    /\ timerMod # "in" => \A r \in TimerReaders : todo[r] = {}
    /\ RearmingEnds

LEMMA TimerInvInit == TimerInit => TimerInv
BY DEF TimerInit, TimerInv, RearmingEnds

LEMMA TimerInvStep == TimerInv /\ [TimerNext]_timerVars => TimerInv'
<1> SUFFICES ASSUME TimerInv, [TimerNext]_timerVars PROVE TimerInv'
    OBVIOUS
<1>1. CASE UNCHANGED timerVars
    BY <1>1 DEF TimerInv, RearmingEnds, timerVars
<1>2. CASE \E r \in TimerReaders : OpenTimerTest(r) \/ \E c \in TimerCpus : timer_test_proc_show(r, c)
    BY <1>2 DEF TimerInv, RearmingEnds, OpenTimerTest, timer_test_proc_show
<1>3. CASE Expire \/ ktest_timer_func
    BY <1>3 DEF TimerInv, RearmingEnds, Expire, ktest_timer_func
<1>4. CASE \E c \in TimerCpus : StartWork(c) \/ timer_debugobject_workfn(c)
    BY <1>4 DEF TimerInv, RearmingEnds, StartWork, timer_debugobject_workfn
<1>5. CASE ProcRemove \/ StopTimer \/ kretprobe_exit
    BY <1>5 DEF TimerInv, RearmingEnds, ProcRemove, StopTimer, kretprobe_exit
<1>6. CASE del_timer_sync
    <2>1. ~leftover' => pending' = {} /\ running' = {}
        BY <1>6 DEF del_timer_sync
    <2>2. ~queued' /\ ~firing'
        BY <1>6, Zenon DEF del_timer_sync
    <2>3. todo' = todo /\ timerMod # "in"
        BY <1>6 DEF del_timer_sync
    <2>4. QED
        BY <2>1, <2>2, <2>3 DEF TimerInv, RearmingEnds
<1>7. QED
    BY <1>1, <1>2, <1>3, <1>4, <1>5, <1>6 DEF TimerNext, timer_debugobject_fini

(* Once del_timer_sync has returned and left no work item, nothing of the    *)
(* module is armed, queued or running any more.                              *)
THEOREM TimerStaysDeleted == TimerSpec => []RearmingEnds
<1>1. TimerInv => RearmingEnds
    BY DEF TimerInv
<1>2. QED
    BY <1>1, TimerInvInit, TimerInvStep, PTL DEF TimerSpec

-----------------------------------------------------------------------------
(* lockdep-rwlock.c.  Who holds which lock follows from where the load and   *)
(* the handler are; while the load holds the spinlock the interrupt stays out*)
(* of its CPU.                                                               *)
HandlerHolds == timerAt \in {"spin", "both"}
LoadHolds == loadAt \in {"spin", "writing", "written"}

LockInv ==
    /\ LockTypeOK
    /\ eventlock = "load" <=> LoadHolds
    /\ eventlock = "handler" <=> HandlerHolds
    /\ "load" \in test_rw_lock <=> loadAt = "reading"
    /\ "handler" \in test_rw_lock <=> timerAt = "both"
    /\ "writer" \in test_rw_lock <=> loadAt = "writing"
    /\ irqsOff <=> LoadHolds
    /\ LoadHolds => ~Interrupted
    /\ timerAt = "off" <=> loadAt = "begin"

LEMMA LockInvInit == LockInit => LockInv
<1> SUFFICES ASSUME LockInit PROVE LockInv
    OBVIOUS
<1>1. LockTypeOK
    <2>1. irqsOff \in BOOLEAN /\ test_rw_lock \subseteq {"load", "handler", "writer"}
        BY Zenon DEF LockInit
    <2>2. QED
        BY <2>1 DEF LockInit, LockTypeOK
<1>2. ~irqsOff /\ ~LoadHolds /\ ~HandlerHolds /\ ~Interrupted
    BY DEF LockInit, LoadHolds, HandlerHolds, Interrupted
<1>3. eventlock = "free" /\ loadAt = "begin" /\ timerAt = "off" /\ test_rw_lock = {}
    BY DEF LockInit
<1>4. QED
    BY <1>1, <1>2, <1>3 DEF LockInv

LEMMA LockInvStep == LockInv /\ [LockNext]_lockVars => LockInv'
<1> SUFFICES ASSUME LockInv, [LockNext]_lockVars PROVE LockInv'
    OBVIOUS
<1> USE DEF LockInv, LockTypeOK, HandlerHolds, LoadHolds, Interrupted
<1>1. CASE UNCHANGED lockVars
    BY <1>1 DEF lockVars
<1>2. CASE hrtimer_start
    BY <1>2 DEF hrtimer_start, LoadGoes
<1>3. CASE read_lock
    BY <1>3 DEF read_lock, LoadGoes
<1>4. CASE read_unlock
    BY <1>4 DEF read_unlock, LoadGoes
<1>5. CASE spin_lock_irq
    BY <1>5 DEF spin_lock_irq, LoadGoes
<1>6. CASE spin_unlock_irq
    BY <1>6 DEF spin_unlock_irq, LoadGoes
<1>7. CASE write_lock_irqsave \/ write_unlock_irqrestore
    BY <1>7 DEF write_lock_irqsave, write_unlock_irqrestore, LoadGoes
<1>8. CASE Interrupt
    BY <1>8 DEF Interrupt
<1>9. CASE lockdep_test_hrtimer_handler
    BY <1>9 DEF lockdep_test_hrtimer_handler
<1>10. QED
    BY <1>1, <1>2, <1>3, <1>4, <1>5, <1>6, <1>7, <1>8, <1>9 DEF LockNext, test_lockdep_init

(* Nobody reads the rwlock while the load writes, and load and handler never *)
(* hold the spinlock at once.                                                *)
LocksExclude ==
    /\ ~(LoadHolds /\ HandlerHolds)
    /\ "writer" \in test_rw_lock => test_rw_lock = {"writer"}

(* Where each of them can go on: the load waits for an interrupt on its CPU  *)
(* and at its locks, the handler for interrupts to be on and at its locks.   *)
LoadGoesOn ==
    /\ loadAt # "done" /\ ~Interrupted
    /\ loadAt = "started" => "writer" \notin test_rw_lock
    /\ loadAt = "between" => eventlock = "free"
    /\ loadAt = "spin" => test_rw_lock = {}
HandlerGoesOn ==
    /\ timerAt \notin {"off", "done"}
    /\ timerAt = "armed" => handlerCpu = 1 \/ ~irqsOff
    /\ timerAt = "entered" => eventlock = "free"
    /\ timerAt = "spin" => "writer" \notin test_rw_lock

(* Until both are done one of them can go on, whatever CPU the timer is on   *)
(* and wherever the interrupt hits.  The handler's last two steps never wait,*)
(* so that whoever waits for its locks gets them.                            *)
OneGoesOn ==
    /\ (loadAt = "done" /\ timerAt = "done") \/ LoadGoesOn \/ HandlerGoesOn
    /\ HandlerHolds => HandlerGoesOn
    /\ LoadHolds => LoadGoesOn

(* The safety half of LocksReleased: the two locks exclude, and the load and *)
(* the handler of lockdep-rwlock.c never wait for each other.                *)
THEOREM NeverWaitForEachOther == LockSpec => [](LocksExclude /\ OneGoesOn)
<1>1. LockInv => LocksExclude
    <2> SUFFICES ASSUME LockInv PROVE LocksExclude
        OBVIOUS
    <2>1. ~(LoadHolds /\ HandlerHolds)
        BY DEF LockInv
    <2>2. "writer" \in test_rw_lock => "load" \notin test_rw_lock /\ "handler" \notin test_rw_lock
        BY <2>1 DEF LockInv, LoadHolds, HandlerHolds
    <2>3. test_rw_lock \subseteq {"load", "handler", "writer"}
        BY DEF LockInv, LockTypeOK
    <2>4. QED
        BY <2>1, <2>2, <2>3 DEF LocksExclude
<1>2. LockInv => OneGoesOn
    <2> SUFFICES ASSUME LockInv PROVE OneGoesOn
        OBVIOUS
    <2> USE DEF LockInv, LockTypeOK, LoadHolds, HandlerHolds, Interrupted
    <2>1. HandlerHolds => HandlerGoesOn
        BY DEF HandlerGoesOn
    <2>2. LoadHolds => LoadGoesOn
        BY DEF LoadGoesOn
    <2>3. CASE LoadHolds \/ HandlerHolds
        BY <2>1, <2>2, <2>3 DEF OneGoesOn
    <2>4. CASE ~LoadHolds /\ ~HandlerHolds
        BY <2>4 DEF OneGoesOn, LoadGoesOn, HandlerGoesOn
    <2>5. QED
        BY <2>3, <2>4
<1>3. QED
    BY <1>1, <1>2, LockInvInit, LockInvStep, PTL DEF LockSpec

-----------------------------------------------------------------------------
(* sdei-test.c.  A reader resets the completion of its CPU and forgets who   *)
(* completed it in one step, and whoever completes it later is seen by all.  *)
SdeiShape ==
    /\ reader \in [SdeiReaders -> [at : {"idle", "begin", "signal", "wait"}, cpu : Cpus]]
    /\ done \in [Cpus -> Nat]
    /\ sdeiEvent \in [Cpus -> SUBSET {"pending", "handling"}]
    /\ completed \in [SdeiReaders -> SUBSET Cpus]
    /\ signal \in [SdeiReaders -> {"none", "pending", "handling", "handled"}]

CompletedSince ==
    \A r \in SdeiReaders :
        reader[r].at \in {"signal", "wait"} /\ done[reader[r].cpu] > 0 => reader[r].cpu \in completed[r]

ReadersOnlyIn == sdeiMod # "in" => \A r \in SdeiReaders : reader[r].at = "idle"

(* Nobody else is on the CPU of a reader that is alone, and what happens     *)
(* there from an undisturbed reset on is its own signal.                     *)
AloneOnCpu ==
    \A r \in alone, o \in SdeiReaders :
        r # o /\ reader[r].at # "idle" /\ reader[o].at # "idle" => reader[r].cpu # reader[o].cpu

OnlyOwnSignal(r, c) ==
    \/ signal[r] = "pending" /\ sdeiEvent[c] = {"pending"} /\ done[c] = 0
    \/ signal[r] = "handling" /\ sdeiEvent[c] = {"handling"} /\ done[c] = 0
    \/ signal[r] = "handled" /\ sdeiEvent[c] = {}

OwnRound ==
    \A r \in alone \ outstanding :
        /\ reader[r].at = "signal" => sdeiEvent[reader[r].cpu] = {} /\ done[reader[r].cpu] = 0
        /\ reader[r].at = "wait" => OnlyOwnSignal(r, reader[r].cpu)

(* Before the first time-out on a CPU, each of its events and completions    *)
(* has a reader that waits for it.                                           *)
Waiting(c) == {r \in SdeiReaders : reader[r].at = "wait" /\ reader[r].cpu = c}
Outstanding(c) ==
    done[c] + (IF "pending" \in sdeiEvent[c] THEN 1 ELSE 0) + (IF "handling" \in sdeiEvent[c] THEN 1 ELSE 0)
Awaited == \A c \in Cpus \ timedOut : Outstanding(c) <= Cardinality(Waiting(c))

Quiet == sdeiMod = "gone" /\ ~late => ~handler /\ \A c \in Cpus : sdeiEvent[c] = {}

SdeiInv ==
    /\ SdeiShape /\ alone \subseteq SdeiReaders
    /\ CompletedSince /\ ReadersOnlyIn /\ AloneOnCpu /\ OwnRound /\ Awaited /\ Quiet /\ ~badOk

LEMMA SdeiInvInit == SdeiInit => SdeiInv
<1> SUFFICES ASSUME SdeiInit PROVE SdeiInv
    OBVIOUS
<1>1. Awaited
    <2> SUFFICES ASSUME NEW c \in Cpus PROVE Outstanding(c) <= Cardinality(Waiting(c))
        BY DEF Awaited
    <2>1. Waiting(c) = {} /\ Outstanding(c) = 0
        BY DEF SdeiInit, Waiting, Outstanding, Idle
    <2>2. QED
        BY <2>1, FS_EmptySet
<1>2. SdeiShape /\ alone \subseteq SdeiReaders /\ Quiet /\ ~badOk
    BY SdeiAssumption DEF SdeiInit, SdeiShape, Idle, Cpus, Quiet
<1>3. CompletedSince /\ ReadersOnlyIn /\ AloneOnCpu /\ OwnRound
    BY DEF SdeiInit, CompletedSince, ReadersOnlyIn, AloneOnCpu, OwnRound, Idle
<1>4. QED
    BY <1>1, <1>2, <1>3 DEF SdeiInv

LEMMA SdeiShapeStep == SdeiInv /\ [SdeiNext]_sdeiVars => SdeiShape' /\ alone' \subseteq SdeiReaders
<1> SUFFICES ASSUME SdeiInv, [SdeiNext]_sdeiVars PROVE SdeiShape' /\ alone' \subseteq SdeiReaders
    OBVIOUS
<1> USE SdeiAssumption DEF SdeiInv, SdeiShape
<1>1. CASE UNCHANGED sdeiVars
    BY <1>1 DEF sdeiVars, roundVars
<1>2. CASE sdei_event_register \/ sdei_event_enable \/ proc_remove \/ sdei_event_unregister
    BY <1>2 DEF sdei_event_register, sdei_event_enable, proc_remove, sdei_event_unregister, roundVars
<1>3. ASSUME NEW r \in SdeiReaders, OpenSdeiTest(r) PROVE SdeiShape' /\ alone' \subseteq SdeiReaders
    BY <1>3 DEF OpenSdeiTest, EnterCpu, Cpus
<1>4. ASSUME NEW r \in SdeiReaders, init_completion(r) PROVE SdeiShape' /\ alone' \subseteq SdeiReaders
    BY <1>4 DEF init_completion, BeginRound
<1>5. ASSUME NEW r \in SdeiReaders, arm_smccc_smc(r) PROVE SdeiShape' /\ alone' \subseteq SdeiReaders
    BY <1>5 DEF arm_smccc_smc
<1>6. ASSUME NEW r \in SdeiReaders, Signalled(r) PROVE SdeiShape' /\ alone' \subseteq SdeiReaders
    <2>1. reader[r].cpu \in Cpus /\ done[reader[r].cpu] > 0
        BY <1>6 DEF Signalled
    <2>2. done' \in [Cpus -> Nat]
        BY <1>6, <2>1 DEF Signalled
    <2>3. reader' \in [SdeiReaders -> [at : {"idle", "begin", "signal", "wait"}, cpu : Cpus]]
        <3>1. CASE reader' = [reader EXCEPT ![r] = Idle]
            BY <3>1 DEF Idle, Cpus
        <3>2. CASE /\ reader[r].cpu # SdeiCpus
                   /\ reader' = [reader EXCEPT ![r] = [at |-> "begin", cpu |-> reader[r].cpu + 1]]
            <4>1. reader[r].cpu + 1 \in Cpus
                BY <2>1, <3>2 DEF Cpus
            <4>2. QED
                BY <3>2, <4>1
        <3>3. QED
            BY <1>6, <3>1, <3>2 DEF Signalled
    <2>4. alone' \subseteq SdeiReaders
        BY <1>6 DEF Signalled, EnterCpu
    <2>5. QED
        BY <1>6, <2>2, <2>3, <2>4 DEF Signalled
<1>7. ASSUME NEW r \in SdeiReaders, TimedOut(r) PROVE SdeiShape' /\ alone' \subseteq SdeiReaders
    BY <1>7 DEF TimedOut, Idle, Cpus
<1>8. ASSUME NEW c \in Cpus, Deliver(c) PROVE SdeiShape' /\ alone' \subseteq SdeiReaders
    BY <1>8 DEF Deliver, SignalsBecome
<1>9. ASSUME NEW c \in Cpus, sdei_event_test_handler(c) PROVE SdeiShape' /\ alone' \subseteq SdeiReaders
    BY <1>9 DEF sdei_event_test_handler, SignalsBecome
<1>10. QED
    BY <1>1, <1>2, <1>3, <1>4, <1>5, <1>6, <1>7, <1>8, <1>9 DEF SdeiNext

(* Whose signal completed a wait.                                            *)
LEMMA SdeiRoundStep ==
    SdeiInv /\ [SdeiNext]_sdeiVars
        => CompletedSince' /\ ReadersOnlyIn' /\ AloneOnCpu' /\ OwnRound' /\ Quiet' /\ ~badOk'
<1> DEFINE Goal == CompletedSince /\ ReadersOnlyIn /\ AloneOnCpu /\ OwnRound /\ Quiet /\ ~badOk
<1> SUFFICES ASSUME SdeiInv, [SdeiNext]_sdeiVars PROVE Goal'
    OBVIOUS
<1> USE SdeiAssumption DEF SdeiInv, SdeiShape
<1>1. CASE UNCHANGED sdeiVars
    BY <1>1 DEF sdeiVars, roundVars, CompletedSince, ReadersOnlyIn, AloneOnCpu, OwnRound, OnlyOwnSignal, Quiet
<1>2. CASE sdei_event_register \/ sdei_event_enable \/ proc_remove
    BY <1>2 DEF sdei_event_register, sdei_event_enable, proc_remove, roundVars,
                CompletedSince, ReadersOnlyIn, AloneOnCpu, OwnRound, OnlyOwnSignal, Quiet
<1>3. CASE sdei_event_unregister
    BY <1>3 DEF sdei_event_unregister, roundVars,
                CompletedSince, ReadersOnlyIn, AloneOnCpu, OwnRound, OnlyOwnSignal, Quiet
<1>4. ASSUME NEW r \in SdeiReaders, OpenSdeiTest(r) PROVE Goal'
    <2>1. AloneOnCpu'
        BY <1>4 DEF OpenSdeiTest, EnterCpu, On, AloneOnCpu, Cpus
    <2>2. OwnRound'
        BY <1>4 DEF OpenSdeiTest, EnterCpu, OwnRound, OnlyOwnSignal
    <2>3. QED
        BY <1>4, <2>1, <2>2 DEF OpenSdeiTest, CompletedSince, ReadersOnlyIn, Quiet
<1>5. ASSUME NEW r \in SdeiReaders, init_completion(r) PROVE Goal'
    <2>1. OwnRound'
        BY <1>5 DEF init_completion, BeginRound, OwnRound, OnlyOwnSignal, AloneOnCpu
    <2>2. QED
        BY <1>5, <2>1 DEF init_completion, BeginRound, CompletedSince, ReadersOnlyIn, AloneOnCpu, Quiet
<1>6. ASSUME NEW r \in SdeiReaders, arm_smccc_smc(r) PROVE Goal'
    <2>1. OwnRound'
        BY <1>6 DEF arm_smccc_smc, OwnRound, OnlyOwnSignal, AloneOnCpu
    <2>2. QED
        BY <1>6, <2>1 DEF arm_smccc_smc, CompletedSince, ReadersOnlyIn, AloneOnCpu, Quiet
<1>7. ASSUME NEW r \in SdeiReaders, Signalled(r) PROVE Goal'
    <2>1. /\ reader[r].at = "wait" /\ done[reader[r].cpu] > 0 /\ reader[r].cpu \in Cpus
          /\ done' = [done EXCEPT ![reader[r].cpu] = @ - 1]
          /\ signal' = [signal EXCEPT ![r] = "none"]
          /\ UNCHANGED <<sdeiMod, handler, sdeiEvent, completed, outstanding, late>>
        BY <1>7 DEF Signalled
    <2>2. \/ reader' = [reader EXCEPT ![r] = Idle] /\ alone' = alone
          \/ /\ reader[r].cpu + 1 \in Cpus
             /\ reader' = [reader EXCEPT ![r] = [at |-> "begin", cpu |-> reader[r].cpu + 1]]
             /\ EnterCpu(r, reader[r].cpu + 1)
        BY <1>7, <2>1 DEF Signalled, Cpus
    <2>3. ~badOk'
        <3>1. reader[r].cpu \in completed[r]
            BY <2>1 DEF CompletedSince
        <3>2. r \in alone \ outstanding => signal[r] = "handled"
            BY <2>1 DEF OwnRound, OnlyOwnSignal
        <3>3. QED
            BY <1>7, <3>1, <3>2, Zenon DEF Signalled
    <2>4. sdeiMod = "in" /\ ReadersOnlyIn'
        BY <2>1 DEF ReadersOnlyIn
    <2>5. reader'[r].at \in {"idle", "begin"} /\ \A o \in SdeiReaders \ {r} : reader'[o] = reader[o]
        BY <2>2 DEF Idle
    <2>6. CompletedSince'
        BY <2>1, <2>5 DEF CompletedSince
    <2>7. AloneOnCpu'
        BY <2>2 DEF AloneOnCpu, EnterCpu, On, Idle
    <2>8. \A o \in alone' \ {r} : o \in alone
        BY <2>2 DEF EnterCpu
    <2>9. OwnRound'
        <3> SUFFICES ASSUME NEW o \in alone' \ outstanding', reader'[o].at \in {"signal", "wait"}
                     PROVE  /\ reader'[o].at = "signal" => sdeiEvent'[reader'[o].cpu] = {} /\ done'[reader'[o].cpu] = 0
                            /\ reader'[o].at = "wait" => OnlyOwnSignal(o, reader[o].cpu)'
            BY DEF OwnRound
        <3>1. o # r /\ o \in alone \ outstanding /\ reader'[o] = reader[o] /\ signal'[o] = signal[o]
            BY <2>1, <2>2, <2>5, <2>8 DEF EnterCpu
        <3>2. reader[o].cpu \in Cpus /\ reader[o].cpu # reader[r].cpu
            BY <2>1, <3>1 DEF AloneOnCpu
        <3>3. sdeiEvent'[reader[o].cpu] = sdeiEvent[reader[o].cpu] /\ done'[reader[o].cpu] = done[reader[o].cpu]
            BY <2>1, <3>2
        <3>4. QED
            BY <3>1, <3>3 DEF OwnRound, OnlyOwnSignal
    <2>10. QED
        BY <2>1, <2>3, <2>4, <2>6, <2>7, <2>9 DEF Quiet
<1>8. ASSUME NEW r \in SdeiReaders, TimedOut(r) PROVE Goal'
    BY <1>8 DEF TimedOut, Idle, CompletedSince, ReadersOnlyIn, AloneOnCpu, OwnRound, OnlyOwnSignal, Quiet
<1>9. ASSUME NEW c \in Cpus, Deliver(c) PROVE Goal'
    <2>1. OwnRound'
        <3>1. UNCHANGED <<reader, done, alone, outstanding>> /\ sdeiEvent[c] = {"pending"}
            BY <1>9 DEF Deliver
        <3>2. sdeiEvent' = [sdeiEvent EXCEPT ![c] = {"handling"}]
            BY <1>9 DEF Deliver
        <3>3. \A o \in SdeiReaders : reader[o].at # "idle" =>
                signal'[o] = IF reader[o].cpu = c /\ signal[o] = "pending" THEN "handling" ELSE signal[o]
            BY <1>9 DEF Deliver, SignalsBecome, On
        <3>4. ASSUME NEW o \in alone \ outstanding, reader[o].at = "wait"
              PROVE  OnlyOwnSignal(o, reader[o].cpu)'
            <4>1. o \in SdeiReaders /\ reader[o].cpu \in Cpus /\ OnlyOwnSignal(o, reader[o].cpu)
                BY <3>4 DEF OwnRound
            <4>2. CASE reader[o].cpu = c
                BY <3>1, <3>2, <3>3, <3>4, <4>1, <4>2 DEF OnlyOwnSignal
            <4>3. CASE reader[o].cpu # c
                BY <3>1, <3>2, <3>3, <3>4, <4>1, <4>3 DEF OnlyOwnSignal
            <4>4. QED
                BY <4>2, <4>3
        <3>5. ASSUME NEW o \in alone \ outstanding, reader[o].at = "signal"
              PROVE  sdeiEvent'[reader[o].cpu] = {}
            BY <3>1, <3>2, <3>5 DEF OwnRound
        <3>6. QED
            BY <3>1, <3>4, <3>5 DEF OwnRound
    <2>2. QED
        BY <1>9, <2>1 DEF Deliver, CompletedSince, ReadersOnlyIn, AloneOnCpu, Quiet
<1>10. ASSUME NEW c \in Cpus, sdei_event_test_handler(c) PROVE Goal'
    <2>1. OwnRound'
        BY <1>10 DEF sdei_event_test_handler, SignalsBecome, On, OwnRound, OnlyOwnSignal
    <2>2. QED
        BY <1>10, <2>1 DEF sdei_event_test_handler, CompletedSince, ReadersOnlyIn, AloneOnCpu, Quiet
<1>11. QED
    BY <1>1, <1>2, <1>3, <1>4, <1>5, <1>6, <1>7, <1>8, <1>9, <1>10 DEF SdeiNext

(* Events and completions are counted against the readers that wait.         *)
LEMMA SdeiAwaitedStep == SdeiInv /\ [SdeiNext]_sdeiVars => Awaited'
<1> SUFFICES ASSUME SdeiInv, [SdeiNext]_sdeiVars, NEW c \in Cpus, c \notin timedOut'
             PROVE  Outstanding(c)' <= Cardinality(Waiting(c)')
    BY DEF Awaited, Outstanding, Waiting
<1> USE DEF SdeiInv, SdeiShape
<1>1. /\ IsFiniteSet(Waiting(c)) /\ Cardinality(Waiting(c)) \in Nat
      /\ \A r : /\ Cardinality(Waiting(c) \cup {r}) = IF r \in Waiting(c) THEN Cardinality(Waiting(c))
                                                      ELSE Cardinality(Waiting(c)) + 1
                /\ Cardinality(Waiting(c) \ {r}) = IF r \in Waiting(c) THEN Cardinality(Waiting(c)) - 1
                                                   ELSE Cardinality(Waiting(c))
    <2>1. Waiting(c) \in SUBSET SdeiReaders
        BY DEF Waiting
    <2>2. IsFiniteSet(Waiting(c))
        BY <2>1, SdeiAssumption, FS_Subset
    <2>3. QED
        BY <2>2, FS_CardinalityType, FS_AddElement, FS_RemoveElement
<1>2. c \notin timedOut => Outstanding(c) <= Cardinality(Waiting(c))
    BY DEF Awaited
<1>3. done[c] \in Nat /\ sdeiEvent[c] \in SUBSET {"pending", "handling"} /\ Outstanding(c) \in Nat
    BY DEF Outstanding
<1>4. timedOut \subseteq timedOut'
    BY DEF SdeiNext, sdei_event_register, sdei_event_enable, proc_remove, sdei_event_unregister, OpenSdeiTest,
           init_completion, BeginRound, arm_smccc_smc, Signalled, TimedOut, Deliver, sdei_event_test_handler,
           roundVars, sdeiVars
<1>5. Outstanding(c) <= Cardinality(Waiting(c))
    BY <1>2, <1>4
<1>6. ASSUME Outstanding(c)' \in Nat, Outstanding(c)' <= Outstanding(c), Waiting(c)' = Waiting(c)
      PROVE  Outstanding(c)' <= Cardinality(Waiting(c)')
    BY <1>1, <1>3, <1>5, <1>6
<1>7. CASE \/ UNCHANGED sdeiVars
           \/ sdei_event_register \/ sdei_event_enable \/ proc_remove
    <2>1. UNCHANGED <<reader, done, sdeiEvent>>
        BY <1>7 DEF sdei_event_register, sdei_event_enable, proc_remove, roundVars, sdeiVars
    <2>2. QED
        BY <1>1, <1>5, <2>1 DEF Outstanding, Waiting
<1>8. CASE sdei_event_unregister
    <2>1. Waiting(c)' = Waiting(c)
        BY <1>8 DEF sdei_event_unregister, Waiting
    <2>2. Outstanding(c)' \in Nat /\ Outstanding(c)' <= Outstanding(c)
        BY <1>3, <1>8 DEF sdei_event_unregister, Outstanding
    <2>3. QED
        BY <1>6, <2>1, <2>2
<1>9. ASSUME NEW r \in SdeiReaders, OpenSdeiTest(r) \/ init_completion(r)
      PROVE  Outstanding(c)' <= Cardinality(Waiting(c)')
    <2>1. Waiting(c)' = Waiting(c)
        <3>1. /\ reader[r].at # "wait" /\ reader'[r].at # "wait"
              /\ \A o \in SdeiReaders \ {r} : reader'[o] = reader[o]
            BY <1>9 DEF OpenSdeiTest, init_completion, BeginRound
        <3>2. QED
            BY <3>1 DEF Waiting
    <2>2. Outstanding(c)' \in Nat /\ Outstanding(c)' <= Outstanding(c)
        BY <1>3, <1>9 DEF OpenSdeiTest, init_completion, BeginRound, Outstanding
    <2>3. QED
        BY <1>6, <2>1, <2>2
<1>10. ASSUME NEW r \in SdeiReaders, arm_smccc_smc(r) PROVE Outstanding(c)' <= Cardinality(Waiting(c)')
    <2>1. CASE reader[r].cpu = c
        <3>1. Waiting(c)' = Waiting(c) \cup {r} /\ r \notin Waiting(c)
            BY <1>10, <2>1 DEF arm_smccc_smc, Waiting
        <3>2. Outstanding(c)' \in Nat /\ Outstanding(c)' <= Outstanding(c) + 1
            BY <1>3, <1>10, <2>1 DEF arm_smccc_smc, Outstanding
        <3>3. Cardinality(Waiting(c)') = Cardinality(Waiting(c)) + 1
            BY <1>1, <3>1
        <3>4. QED
            BY <1>1, <1>3, <1>5, <3>2, <3>3
    <2>2. CASE reader[r].cpu # c
        <3>1. Waiting(c)' = Waiting(c)
            BY <1>10, <2>2 DEF arm_smccc_smc, Waiting
        <3>2. Outstanding(c)' = Outstanding(c)
            BY <1>10, <2>2 DEF arm_smccc_smc, Outstanding
        <3>3. QED
            BY <1>1, <1>3, <1>5, <3>1, <3>2
    <2>3. QED
        BY <2>1, <2>2
<1>11. ASSUME NEW r \in SdeiReaders, Signalled(r) PROVE Outstanding(c)' <= Cardinality(Waiting(c)')
    <2>1. /\ reader[r].at = "wait" /\ reader[r].cpu \in Cpus /\ done[reader[r].cpu] > 0
          /\ done' = [done EXCEPT ![reader[r].cpu] = @ - 1] /\ sdeiEvent' = sdeiEvent
          /\ \A o \in SdeiReaders \ {r} : reader'[o] = reader[o]
          /\ reader'[r].at # "wait"
        BY <1>11 DEF Signalled, Idle
    <2>2. CASE reader[r].cpu = c
        <3>1. Waiting(c)' = Waiting(c) \ {r} /\ r \in Waiting(c)
            BY <2>1, <2>2 DEF Waiting
        <3>2. Outstanding(c)' = Outstanding(c) - 1
            BY <1>3, <2>1, <2>2 DEF Outstanding
        <3>3. Cardinality(Waiting(c)') = Cardinality(Waiting(c)) - 1
            BY <1>1, <3>1
        <3>4. QED
            BY <1>1, <1>3, <1>5, <3>2, <3>3
    <2>3. CASE reader[r].cpu # c
        <3>1. Waiting(c)' = Waiting(c)
            BY <2>1, <2>3 DEF Waiting
        <3>2. Outstanding(c)' = Outstanding(c)
            BY <2>1, <2>3 DEF Outstanding
        <3>3. QED
            BY <1>1, <1>3, <1>5, <3>1, <3>2
    <2>4. QED
        BY <2>2, <2>3
<1>12. ASSUME NEW r \in SdeiReaders, TimedOut(r) PROVE Outstanding(c)' <= Cardinality(Waiting(c)')
    <2>1. Outstanding(c)' = Outstanding(c)
        BY <1>12 DEF TimedOut, Outstanding
    <2>2. Waiting(c)' = Waiting(c)
        BY <1>12 DEF TimedOut, Waiting, Idle
    <2>3. QED
        BY <1>1, <1>3, <1>5, <2>1, <2>2
<1>13. ASSUME NEW d \in Cpus, Deliver(d) \/ sdei_event_test_handler(d)
       PROVE  Outstanding(c)' <= Cardinality(Waiting(c)')
    <2>1. Waiting(c)' = Waiting(c)
        BY <1>13 DEF Deliver, sdei_event_test_handler, Waiting
    <2>2. Outstanding(c)' = Outstanding(c)
        BY <1>3, <1>13 DEF Deliver, sdei_event_test_handler, Outstanding
    <2>3. QED
        BY <1>1, <1>3, <1>5, <2>1, <2>2
<1>14. QED
    BY <1>7, <1>8, <1>9, <1>10, <1>11, <1>12, <1>13 DEF SdeiNext

(* "sdei callback ok" answers the signal of its own round unless another     *)
(* reader was on the CPU or the reset found an event outstanding, which only *)
(* a time-out on that CPU leaves behind.                                     *)
THEOREM OkIsOwn == SdeiSpec => []OkIsOwnUnlessLate
<1>1. SdeiInv /\ [SdeiNext]_sdeiVars => SdeiInv'
    BY SdeiShapeStep, SdeiRoundStep, SdeiAwaitedStep DEF SdeiInv
<1>2. SdeiInv => OkIsOwnUnlessLate
    <2> SUFFICES ASSUME SdeiInv PROVE OkIsOwnUnlessLate
        OBVIOUS
    <2>1. ASSUME NEW c \in Cpus, sdeiEvent[c] # {}, c \notin timedOut PROVE Waiting(c) # {}
        <3>1. Outstanding(c) \in Nat /\ Outstanding(c) > 0
            BY <2>1 DEF SdeiInv, SdeiShape, Outstanding
        <3>2. Outstanding(c) <= Cardinality(Waiting(c))
            BY <2>1 DEF SdeiInv, Awaited
        <3>3. QED
            BY <3>1, <3>2, FS_EmptySet
    <2>2. QED
        BY <2>1 DEF SdeiInv, Quiet, OkIsOwnUnlessLate, Waiting
<1>3. QED
    BY <1>1, <1>2, SdeiInvInit, PTL DEF SdeiSpec

-----------------------------------------------------------------------------
(* cpufreq-qos.c.  The policy of the load is the pinned one, which FreePolicy*)
(* never frees; policies freed were created before.                          *)
CpufreqInv ==
    /\ created \in Nat
    /\ leaving \in 0 .. created /\ cpuPolicy \in 0 .. created
    /\ freed \subseteq 1 .. created
    /\ cfUsed \subseteq freed
    /\ pinnedPolicy = atLoad /\ atLoad \notin freed

LEMMA CpufreqInvInit == CpufreqInit => CpufreqInv
BY DEF CpufreqInit, CpufreqInv

LEMMA CpufreqInvStep == CpufreqInv /\ [CpufreqNext]_cfVars => CpufreqInv'
<1> SUFFICES ASSUME CpufreqInv, [CpufreqNext]_cfVars PROVE CpufreqInv'
    OBVIOUS
<1> USE DEF CpufreqInv
<1>1. CASE UNCHANGED cfVars
    BY <1>1 DEF cfVars
<1>2. CASE cpufreq_cpu_get
    BY <1>2 DEF cpufreq_cpu_get
<1>3. CASE CREATE_POLICY
    <2>1. created' = created + 1 /\ freed' = freed /\ 1 .. created \subseteq 1 .. created'
        BY <1>3 DEF CREATE_POLICY
    <2>2. leaving' \in 0 .. created' /\ cpuPolicy' \in 0 .. created'
        BY <1>3 DEF CREATE_POLICY
    <2>3. QED
        BY <1>3, <2>1, <2>2 DEF CREATE_POLICY
<1>9. CASE REMOVE_POLICY
    BY <1>9 DEF REMOVE_POLICY
<1>4. CASE FreePolicy
    BY <1>4 DEF FreePolicy
<1>5. ASSUME NEW h \in CpufreqUsers, cpu_freq_qos_open(h) \/ WriteBegins(h) PROVE CpufreqInv'
    BY <1>5 DEF cpu_freq_qos_open, WriteBegins
<1>6. ASSUME NEW h \in CpufreqUsers, cpu_freq_qos_close(h) \/ cpu_freq_qos_read(h) PROVE CpufreqInv'
    <2>1. PICK ps : Uses(ps)
        BY <1>6 DEF cpu_freq_qos_close, cpu_freq_qos_read
    <2>2. cfUsed' \subseteq freed
        BY <2>1 DEF Uses
    <2>3. UNCHANGED <<atLoad, pinnedPolicy, cpuPolicy, leaving, created, freed>>
        BY <1>6 DEF cpu_freq_qos_close, cpu_freq_qos_read
    <2>4. QED
        BY <2>2, <2>3
<1>7. ASSUME NEW h \in CpufreqUsers, NEW lo \in CfValues, NEW hi \in CfValues, cpu_freq_qos_write(h, lo, hi)
      PROVE  CpufreqInv'
    BY <1>7 DEF cpu_freq_qos_write, Uses
<1>8. QED
    BY <1>1, <1>2, <1>3, <1>4, <1>5, <1>6, <1>7, <1>9 DEF CpufreqNext

(* The policy that the CPU had when the module was loaded is never used after*)
(* it was freed, by however many files and writes.                           *)
THEOREM PolicyOfLoadIsSafe == CpufreqSpec => []PinnedPolicyIsSafe
<1>1. CpufreqInv => PinnedPolicyIsSafe
    BY DEF CpufreqInv, PinnedPolicyIsSafe
<1>2. QED
    BY <1>1, CpufreqInvInit, CpufreqInvStep, PTL DEF CpufreqSpec

-----------------------------------------------------------------------------
(* devfreq-qos.c.  Until a write overlaps with it, a write finds in the      *)
(* device what it stored there; halfway the first request is new already.    *)
DevfreqShape ==
    /\ qos_dev \in [lo : Int, hi : Int]
    /\ dfUser \in [DevfreqUsers -> [at : {"closed", "opening", "open", "store", "min", "max", "refresh", "crashed"},
                                    new : [lo : Int, hi : Int]]]
    /\ dfRequest \in [DevfreqUsers -> [lo : Int, hi : Int]]
    /\ dfLast \in [DevfreqUsers -> [lo : Int, hi : Int]]
    /\ mixed \in [DevfreqUsers -> BOOLEAN]

Halfway(h) ==
    /\ dfRequest[h].lo = dev_pm_qos_update_request(dfLast[h].lo, dfUser[h].new.lo)
    /\ dfRequest[h].hi = dfLast[h].hi

OwnOnTheWay(h) ==
    /\ dfUser[h].at \in {"min", "max"} => qos_dev = dfUser[h].new
    /\ dfUser[h].at \in {"open", "refresh", "store", "min"} => dfRequest[h] = dfLast[h]
    /\ dfUser[h].at = "max" => Halfway(h)

DevfreqInv == DevfreqShape /\ \A h \in DevfreqUsers : ~mixed[h] => OwnOnTheWay(h)

LEMMA InKHzIsInt == ASSUME NEW hz \in Hz PROVE InKHz(hz) \in Int
BY DEF Hz, InKHz, HZ_PER_KHZ

LEMMA UpdateIsInt == ASSUME NEW old \in Int, NEW new \in Int PROVE dev_pm_qos_update_request(old, new) \in Int
BY DEF dev_pm_qos_update_request

LEMMA DevfreqInvInit == DevfreqInit => DevfreqInv
BY DEF DevfreqInit, DevfreqInv, DevfreqShape, OwnOnTheWay, DfDefault

LEMMA DevfreqInvStep == DevfreqInv /\ [DevfreqNext]_dfVars => DevfreqInv'
<1> SUFFICES ASSUME DevfreqInv, [DevfreqNext]_dfVars PROVE DevfreqInv'
    OBVIOUS
<1> USE DEF DevfreqInv, DevfreqShape, OwnOnTheWay
<1>1. CASE UNCHANGED dfVars
    BY <1>1 DEF dfVars, Halfway
<1>2. ASSUME NEW h \in DevfreqUsers, dev_freq_qos_open(h) PROVE DevfreqInv'
    <2>1. PICK to \in {"opening", "open", "closed"} : At(h, dfUser[h].at, to)
        BY <1>2 DEF dev_freq_qos_open, At
    <2>2. /\ dfRequest' = [dfRequest EXCEPT ![h] = DfDefault]
          /\ dfLast' = [dfLast EXCEPT ![h] = DfDefault]
          /\ mixed' = [mixed EXCEPT ![h] = FALSE]
          /\ qos_dev' = qos_dev
        BY <1>2 DEF dev_freq_qos_open
    <2>3. DevfreqShape'
        <3>1. dfUser' = [dfUser EXCEPT ![h].at = to]
            BY <2>1 DEF At
        <3>2. dfUser' \in [DevfreqUsers -> [at : {"closed", "opening", "open", "store", "min", "max", "refresh", "crashed"},
                                            new : [lo : Int, hi : Int]]]
            BY <3>1
        <3>3. DfDefault \in [lo : Int, hi : Int]
            BY DEF DfDefault
        <3>4. dfRequest' \in [DevfreqUsers -> [lo : Int, hi : Int]] /\ dfLast' \in [DevfreqUsers -> [lo : Int, hi : Int]]
            BY <2>2, <3>3
        <3>5. QED
            BY <2>2, <3>2, <3>4
    <2>4. ASSUME NEW g \in DevfreqUsers \ {h}, ~mixed'[g] PROVE OwnOnTheWay(g)'
        BY <2>1, <2>2, <2>4 DEF At, Halfway
    <2>5. OwnOnTheWay(h)'
        BY <2>1, <2>2 DEF At
    <2>6. QED
        BY <2>3, <2>4, <2>5
<1>3. ASSUME NEW h \in DevfreqUsers, dev_freq_qos_close(h) PROVE DevfreqInv'
    BY <1>3 DEF dev_freq_qos_close, At, Halfway
<1>4. ASSUME NEW h \in DevfreqUsers, NEW lo \in Hz, NEW hi \in Hz, CopyLimits(h, lo, hi) PROVE DevfreqInv'
    BY <1>4, InKHzIsInt DEF CopyLimits, Halfway
<1>5. ASSUME NEW h \in DevfreqUsers, StoreLimits(h) PROVE DevfreqInv'
    BY <1>5 DEF StoreLimits, At, Halfway
<1>6. ASSUME NEW h \in DevfreqUsers, UpdateMin(h) PROVE DevfreqInv'
    BY <1>6, UpdateIsInt, ZenonT(40) DEF UpdateMin, At, Halfway
<1>7. ASSUME NEW h \in DevfreqUsers, UpdateMax(h) PROVE DevfreqInv'
    <2>1. DevfreqShape'
        BY <1>7, UpdateIsInt DEF UpdateMax
    <2>2. ASSUME NEW g \in DevfreqUsers \ {h}, ~mixed'[g] PROVE OwnOnTheWay(g)'
        BY <1>7, <2>2 DEF UpdateMax, Halfway
    <2>3. ASSUME ~mixed'[h] PROVE OwnOnTheWay(h)'
        <3>1. qos_dev = dfUser[h].new /\ Halfway(h) /\ dfUser'[h].at \in {"open", "refresh"}
            BY <1>7, <2>3 DEF UpdateMax
        <3>2. /\ dfRequest'[h].lo = dfRequest[h].lo
              /\ dfRequest'[h].hi = dev_pm_qos_update_request(dfRequest[h].hi, qos_dev.hi)
              /\ dfLast'[h].lo = dev_pm_qos_update_request(dfLast[h].lo, dfUser[h].new.lo)
              /\ dfLast'[h].hi = dev_pm_qos_update_request(dfLast[h].hi, dfUser[h].new.hi)
            BY <1>7 DEF UpdateMax
        <3>3. dfRequest'[h] = dfLast'[h]
            <4>1. dfRequest'[h] \in [lo : Int, hi : Int] /\ dfLast'[h] \in [lo : Int, hi : Int]
                BY <2>1
            <4>2. dfRequest'[h].lo = dfLast'[h].lo
                BY <3>1, <3>2 DEF Halfway
            <4>3. dfRequest'[h].hi = dfLast'[h].hi
                BY <3>1, <3>2 DEF Halfway
            <4>4. QED
                BY <4>1, <4>2, <4>3
        <3>4. QED
            BY <3>1, <3>3
    <2>4. QED
        BY <2>1, <2>2, <2>3
<1>8. ASSUME NEW h \in DevfreqUsers, update_devfreq(h) PROVE DevfreqInv'
    <2>1. PICK to \in {"open", "crashed"} : At(h, "refresh", to)
        BY <1>8 DEF update_devfreq
    <2>2. UNCHANGED <<qos_dev, dfRequest, mixed, dfLast>>
        BY <1>8 DEF update_devfreq
    <2>3. QED
        BY <2>1, <2>2 DEF At, Halfway
<1>9. QED
    BY <1>1, <1>2, <1>3, <1>4, <1>5, <1>6, <1>7, <1>8 DEF DevfreqNext

(* A file whose writes never overlapped with another's requests what its own *)
(* writes asked for, for any number of files and writes.                     *)
THEOREM RequestsAreOwn == DevfreqSpec => []OwnLimitsUnlessMixed
<1>1. DevfreqInv => OwnLimitsUnlessMixed
    BY DEF DevfreqInv, DevfreqShape, OwnOnTheWay, OwnLimitsUnlessMixed
<1>2. QED
    BY <1>1, DevfreqInvInit, DevfreqInvStep, PTL DEF DevfreqSpec

-----------------------------------------------------------------------------
(* work-test.c.  The unload frees the entries in order, and each of its steps*)
(* takes away one of the things that could still use the current entry.      *)
InOrder ==
    /\ wtAt \in {"start", "thread", "stop", "cancel", "sync", "free"} => wtEntry < num_work
    /\ wtAt \in {"alloc", "start", "thread", "setup", "in"} => wtFreed = {}
    /\ wtAt \in {"remove", "stop", "cancel", "sync", "free"} => wtFreed = 0 .. wtEntry - 1
    /\ wtAt = "out" => wtFreed = Works

(* Only callbacks of ours rebind an entry, and the first entry of the unload *)
(* takes them away.                                                          *)
CallbacksGoFirst ==
    /\ slot # "ours" => rebind = {}
    /\ wtAt \in {"alloc", "start", "thread", "setup"} => slot = "none"
    /\ wtAt \in {"stop", "cancel", "sync", "free"} => slot = "none"
    /\ wtAt \in {"remove", "out"} /\ wtFreed # {} => slot = "none"

TakenDown ==
    /\ wtAt \in {"cancel", "sync", "free"} => wtThread[wtEntry] = "none"
    /\ wtAt \in {"sync", "free"} => wtTimer[wtEntry] = "none"
    /\ wtAt = "free" => wtWork[wtEntry] = {}

FreedIsQuiet ==
    \A i \in wtFreed :
        wtTimer[i] = "none" /\ wtWork[i] = {} /\ wtThread[i] = "none" /\ i \notin rebind

WorkInv == WorkTypeOK /\ InOrder /\ CallbacksGoFirst /\ TakenDown /\ FreedIsQuiet

LEMMA WorkInvInit == WorkInit => WorkInv
BY WorkAssumption
   DEF WorkInit, WorkInv, WorkTypeOK, InOrder, CallbacksGoFirst, TakenDown, FreedIsQuiet, Works

LEMMA WorkInvStep == WorkInv /\ [WorkNext]_wtVars => WorkInv'
<1> SUFFICES ASSUME WorkInv, [WorkNext]_wtVars PROVE WorkInv'
    OBVIOUS
<1> USE WorkAssumption
    DEF WorkInv, WorkTypeOK, InOrder, CallbacksGoFirst, TakenDown, FreedIsQuiet, Works
<1>1. CASE UNCHANGED wtVars
    BY <1>1 DEF wtVars
<1>2. CASE idr_alloc
    BY <1>2 DEF idr_alloc
<1>3. CASE wt_hrtimer_start
    BY <1>3 DEF wt_hrtimer_start
<1>4. CASE wt_kthread_run
    BY <1>4 DEF wt_kthread_run
<1>5. CASE cpuhp_setup_state
    BY <1>5 DEF cpuhp_setup_state, EntriesOf
<1>6. CASE StartRemove
    <2>1. wtFreed' = {} /\ 0 .. wtEntry' - 1 = {} /\ wtAt' = "remove" /\ rebind' = {}
        BY <1>6 DEF StartRemove
    <2>2. QED
        BY <1>6, <2>1 DEF StartRemove
<1>7. CASE cpuhp_remove_state
    BY <1>7 DEF cpuhp_remove_state
<1>8. CASE wt_kthread_stop
    BY <1>8 DEF wt_kthread_stop
<1>9. CASE wt_hrtimer_cancel
    BY <1>9 DEF wt_hrtimer_cancel
<1>10. CASE wt_cancel_work_sync
    BY <1>10 DEF wt_cancel_work_sync
<1>11. CASE wt_kfree
    BY <1>11 DEF wt_kfree
<1>12. CASE FinishRemove \/ work_test_open
    BY <1>12 DEF FinishRemove, work_test_open
<1>13. CASE wtAt \notin {"leaked", "crashed"} /\ CpuUp
    BY <1>13 DEF CpuUp, EntriesOf
<1>14. ASSUME NEW i \in Works, wq_test_cpu_online(i) PROVE WorkInv'
    BY <1>14 DEF wq_test_cpu_online
<1>15. ASSUME NEW i \in Works, wt_expire(i) PROVE WorkInv'
    BY <1>15 DEF wt_expire
<1>16. ASSUME NEW i \in Works, hrtimer_func(i) PROVE WorkInv'
    BY <1>16 DEF hrtimer_func
<1>17. ASSUME NEW i \in Works, test_work_func(i) PROVE WorkInv'
    BY <1>17, SMTT(40) DEF test_work_func
<1>18. QED
    BY <1>1, <1>2, <1>3, <1>4, <1>5, <1>6, <1>7, <1>8, <1>9, <1>10, <1>11, <1>12, <1>13,
       <1>14, <1>15, <1>16, <1>17 DEF WorkNext, item_idr_free

(* Whatever CPUs come up during the unload, an entry that is freed has no    *)
(* timer, work item or thread left, and no CPU coming up will rebind it; the *)
(* hotplug callbacks are gone when the module is.                            *)
THEOREM FreedEntriesStayQuiet == WorkSpec => []FreedEntryIsQuiet
<1>1. WorkInv => FreedEntryIsQuiet
    BY WorkAssumption DEF WorkInv, InOrder, CallbacksGoFirst, FreedIsQuiet, FreedEntryIsQuiet, Works
<1>2. QED
    BY <1>1, WorkInvInit, WorkInvStep, PTL DEF WorkSpec

-----------------------------------------------------------------------------
(* unbond_test.c.  While the callbacks are ours no timer is left on a CPU    *)
(* that is offline; the load registers them before it lets CPUs go.          *)
LoadOrder ==
    /\ ubAt \in {"probe", "lock", "each"} => \A c \in UbCpus : ubTimer[c] = "none"
    /\ ubAt \in {"probe", "lock", "each", "setup"} => callbacks = "none"
    /\ ubAt \in {"each", "setup"} => hotplug.at \in {"idle", "waits"}
    /\ ubAt \in {"in", "threads", "remove"} => callbacks \in {"ours", "error"}
    /\ ubAt \in {"cancel", "unprobe", "free", "out"} => callbacks = "none"

OfflineIsQuiet ==
    /\ callbacks = "ours" \/ ubAt = "setup" => \A c \in UbCpus \ online : ubTimer[c] = "none"
    /\ callbacks = "ours" /\ hotplug.at = "probe" => ubTimer[hotplug.cpu] = "none"
    /\ \A c \in UbCpus : ubTimer[c] # "none" => c \in ready

UnloadOrder ==
    /\ ubAt \in {"remove", "cancel", "unprobe", "free", "out"} => \A c \in UbCpus : ubThread[c] = "none"
    /\ ubAt \in {"cancel", "unprobe", "free", "out"} => \A c \in UbCpus : ubTimer[c] = "none"
    /\ ubAt \in {"unprobe", "free", "out"} =>
          \A w \in Items : item[w] # {} => probe /\ w[1] \in requeued /\ w[2] = "koworks"

UnboundInv == UnboundTypeOK /\ LoadOrder /\ OfflineIsQuiet /\ UnloadOrder

LEMMA UnboundInvInit == UnboundInit => UnboundInv
<1> SUFFICES ASSUME UnboundInit PROVE UnboundInv
    OBVIOUS
<1>1. UnboundTypeOK
    <2>1. cpuOps \in 0 .. MaxCpuOps
        BY UnboundAssumption DEF UnboundInit
    <2>2. item \in [Items -> SUBSET {"pending", "running"}]
        BY Zenon DEF UnboundInit
    <2>3. QED
        BY <2>1, <2>2 DEF UnboundInit, UnboundTypeOK
<1>2. LoadOrder /\ OfflineIsQuiet /\ UnloadOrder
    BY DEF UnboundInit, LoadOrder, OfflineIsQuiet, UnloadOrder
<1>3. QED
    BY <1>1, <1>2 DEF UnboundInv

LEMMA UnboundInvStep == UnboundInv /\ [UnboundNext]_ubVars => UnboundInv'
<1> SUFFICES ASSUME UnboundInv, [UnboundNext]_ubVars PROVE UnboundInv'
    OBVIOUS
<1> USE UnboundAssumption
    DEF UnboundInv, UnboundTypeOK, LoadOrder, OfflineIsQuiet, UnloadOrder, NoHotplug
<1>1. CASE UNCHANGED ubVars
    BY <1>1 DEF ubVars
<1>2. CASE kretprobe_init
    BY <1>2 DEF kretprobe_init
<1>3. CASE ub_cpus_read_lock
    BY <1>3 DEF ub_cpus_read_lock
<1>4. CASE sched_test_work
    BY <1>4 DEF sched_test_work
<1>5. CASE cpuhp_setup_state_nocalls
    BY <1>5 DEF cpuhp_setup_state_nocalls
<1>6. CASE ub_kthread_run
    BY <1>6 DEF ub_kthread_run
<1>7. CASE ub_kthread_stop
    BY <1>7 DEF ub_kthread_stop
<1>8. CASE ub_cpuhp_remove_state
    BY <1>8 DEF ub_cpuhp_remove_state
<1>9. CASE cancel_work_sync
    BY <1>9 DEF cancel_work_sync
<1>10. CASE ub_kretprobe_exit \/ ub_kfree
    BY <1>10 DEF ub_kretprobe_exit, ub_kfree
<1>11. CASE HotplugWaits
    BY <1>11 DEF HotplugWaits
<1>12. CASE HotplugStarts
    BY <1>12 DEF HotplugStarts, LoadHoldsLock
<1>13. CASE wq_test_cpu_offline
    BY <1>13 DEF wq_test_cpu_offline
<1>14. CASE wq_ret_handler
    BY <1>14 DEF wq_ret_handler, Scheduled, Items
<1>15. CASE ub_wq_test_cpu_online
    BY <1>15 DEF ub_wq_test_cpu_online
<1>16. ASSUME NEW c \in UbCpus, ub_hrtimer_func(c) PROVE UnboundInv'
    BY <1>16 DEF ub_hrtimer_func, Scheduled, Items
<1>17. ASSUME NEW c \in UbCpus, test_kthread_func(c) PROVE UnboundInv'
    BY <1>17 DEF test_kthread_func, Scheduled, Items
<1>18. ASSUME NEW w \in Items, ub_test_work_func(w) PROVE UnboundInv'
    BY <1>18 DEF ub_test_work_func
<1>19. QED
    BY <1>1, <1>2, <1>3, <1>4, <1>5, <1>6, <1>7, <1>8, <1>9, <1>10, <1>11, <1>12, <1>13,
       <1>14, <1>15, <1>16, <1>17, <1>18 DEF UnboundNext, proc_workqueue_unbound_test_remove

(* When the unload frees the items, no timer and no thread is left to queue  *)
(* one, and what is queued all the same was queued by the probe that the     *)
(* unload forgets, for a CPU that went offline after the items were          *)
(* cancelled.                                                                *)
THEOREM ProbeAloneRequeues == UnboundSpec => []OnlyProbeRequeues
<1>1. UnboundInv => OnlyProbeRequeues
    BY DEF UnboundInv, UnloadOrder, OnlyProbeRequeues
<1>2. QED
    BY <1>1, UnboundInvInit, UnboundInvStep, PTL DEF UnboundSpec

-----------------------------------------------------------------------------
(* /proc/wq-test-info.  Every entry before the position was shown once, or   *)
(* was taken by c_next for a reader whose buffer was full.                   *)
Missed == {i \in ListIds : i < pos /\ listed[i] = 0}

ListInv ==
    /\ listAt \in {"idle", "shown", "eof"} /\ pos \in Nat /\ fullReads \in Nat
    /\ listed \in [ListIds -> {0, 1}]
    /\ \A i \in ListIds : i >= pos => listed[i] = 0
    /\ listAt = "eof" => pos >= ListedWorks
    /\ Cardinality(Missed) = fullReads

LEMMA ListInvInit == ListInit => ListInv
<1> SUFFICES ASSUME ListInit PROVE ListInv
    OBVIOUS
<1>1. Missed = {}
    BY ListAssumption DEF ListInit, Missed, ListIds
<1>2. QED
    BY <1>1, ListAssumption, FS_EmptySet DEF ListInit, ListInv, ListIds

LEMMA ListInvStep == ListInv /\ [ListNext]_listVars => ListInv'
<1> SUFFICES ASSUME ListInv, [ListNext]_listVars PROVE ListInv'
    OBVIOUS
<1> USE ListAssumption DEF ListIds
<1>0. IsFiniteSet(Missed)
    <2>1. IsFiniteSet(0 .. ListedWorks - 1)
        BY FS_Interval
    <2>2. QED
        BY <2>1, FS_Subset DEF Missed
<1>1. CASE UNCHANGED listVars
    BY <1>1 DEF ListInv, Missed, listVars
<1>2. CASE c_start
    <2>1. Missed' = Missed
        BY <1>2 DEF c_start, ListInv, Missed
    <2>2. QED
        BY <1>2, <2>1 DEF c_start, ListInv
<1>3. CASE c_next /\ fullReads' = fullReads
    <2>1. Missed' = Missed
        BY <1>3 DEF c_next, ListInv, Missed
    <2>2. QED
        BY <1>3, <2>1 DEF c_next, ListInv
<1>4. CASE c_next /\ fullReads' # fullReads
    <2>1. /\ pos \in ListIds /\ pos' = pos + 1 /\ listAt' = "idle"
          /\ fullReads' = fullReads + 1 /\ listed' = listed
        BY <1>4 DEF c_next
    <2>2. Missed' = Missed \cup {pos} /\ pos \notin Missed
        BY <2>1 DEF ListInv, Missed
    <2>3. Cardinality(Missed') = fullReads'
        BY <2>1, <2>2, <1>0, FS_AddElement DEF ListInv
    <2>4. QED
        BY <2>1, <2>3 DEF ListInv
<1>5. QED
    BY <1>1, <1>2, <1>3, <1>4 DEF ListNext

(* The listing shows no entry twice and has missed, at its end, one entry    *)
(* for each read that a full buffer ended.                                   *)
THEOREM ListingMisses == ListSpec => []ListingMissesOnePerFullRead
<1>1. ListInv => ListingMissesOnePerFullRead
    <2> SUFFICES ASSUME ListInv PROVE ListingMissesOnePerFullRead
        OBVIOUS
    <2>1. ASSUME listAt = "eof" PROVE {i \in ListIds : listed[i] = 0} = Missed
        BY <2>1, ListAssumption DEF ListInv, ListIds, Missed
    <2>2. \A i \in ListIds : listed[i] <= 1
        BY DEF ListInv
    <2>3. QED
        BY <2>1, <2>2 DEF ListInv, ListingMissesOnePerFullRead
<1>2. QED
    BY <1>1, ListInvInit, ListInvStep, PTL DEF ListSpec
=============================================================================
