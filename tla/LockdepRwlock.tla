---------------------------- MODULE LockdepRwlock ----------------------------
(***************************************************************************)
(* kernel_module/lockdep/lockdep-rwlock.c: the load takes a rwlock and a   *)
(* spinlock, and a timer interrupt takes both, on the CPU of the load or on*)
(* another one.  The module cannot be unloaded, so it is loaded once.      *)
(***************************************************************************)
EXTENDS Naturals

VARIABLES
    loadAt,     \* where test_lockdep_init is
    timerAt,    \* where the handler is: off, armed, entered, spin, both, done
    handlerCpu, \* 0 is the CPU of the load
    irqsOff,    \* interrupts are disabled on CPU 0
    eventlock,  \* its owner
    test_rw_lock \* its readers, or {"writer"}

lockVars == <<loadAt, timerAt, handlerCpu, irqsOff, eventlock, test_rw_lock>>

LockTypeOK ==
    /\ loadAt \in {"begin", "started", "reading", "between", "spin", "writing", "written", "done"}
    /\ timerAt \in {"off", "armed", "entered", "spin", "both", "done"}
    /\ handlerCpu \in 0 .. 1
    /\ irqsOff \in BOOLEAN
    /\ eventlock \in {"free", "load", "handler"}
    /\ test_rw_lock \subseteq {"load", "handler", "writer"}

LockInit ==
    /\ loadAt = "begin" /\ timerAt = "off" /\ handlerCpu = 0
    /\ irqsOff = FALSE /\ eventlock = "free" /\ test_rw_lock = {}

-----------------------------------------------------------------------------
(* The load goes on unless the handler runs on its CPU.                      *)
Interrupted == handlerCpu = 0 /\ timerAt \in {"entered", "spin", "both"}
LoadGoes(from, to) == loadAt = from /\ ~Interrupted /\ loadAt' = to

hrtimer_start ==
    /\ LoadGoes("begin", "started")
    /\ timerAt' = "armed"
    /\ handlerCpu' \in 0 .. 1
    /\ UNCHANGED <<irqsOff, eventlock, test_rw_lock>>

read_lock ==
    /\ LoadGoes("started", "reading")
    /\ "writer" \notin test_rw_lock
    /\ test_rw_lock' = test_rw_lock \cup {"load"}
    /\ UNCHANGED <<timerAt, handlerCpu, irqsOff, eventlock>>

read_unlock ==
    /\ LoadGoes("reading", "between")
    /\ test_rw_lock' = test_rw_lock \ {"load"}
    /\ UNCHANGED <<timerAt, handlerCpu, irqsOff, eventlock>>

spin_lock_irqFaulty ==
    /\ LoadGoes("between", "spin")
    /\ eventlock = "free" /\ eventlock' = "load"
    /\ UNCHANGED <<timerAt, handlerCpu, irqsOff, test_rw_lock>>
spin_lock_irq ==
    /\ LoadGoes("between", "spin")
    /\ eventlock = "free" /\ eventlock' = "load"
    /\ irqsOff' = TRUE
    /\ UNCHANGED <<timerAt, handlerCpu, test_rw_lock>>

write_lock_irqsave ==
    /\ LoadGoes("spin", "writing")
    /\ test_rw_lock = {} /\ test_rw_lock' = {"writer"}
    /\ UNCHANGED <<timerAt, handlerCpu, irqsOff, eventlock>>

write_unlock_irqrestore ==
    /\ LoadGoes("writing", "written")
    /\ test_rw_lock' = {}
    /\ UNCHANGED <<timerAt, handlerCpu, irqsOff, eventlock>>

spin_unlock_irq ==
    /\ LoadGoes("written", "done")
    /\ eventlock' = "free" /\ irqsOff' = FALSE
    /\ UNCHANGED <<timerAt, handlerCpu, test_rw_lock>>

test_lockdep_init ==
    \/ hrtimer_start \/ read_lock \/ read_unlock
    \/ spin_lock_irq \/ write_lock_irqsave \/ write_unlock_irqrestore \/ spin_unlock_irq

(* The interrupt, and the handler's locks.                                   *)
Interrupt ==
    /\ timerAt = "armed" /\ (handlerCpu = 0 => ~irqsOff)
    /\ timerAt' = "entered"
    /\ UNCHANGED <<loadAt, handlerCpu, irqsOff, eventlock, test_rw_lock>>

lockdep_test_hrtimer_handler ==
    /\ \/ /\ timerAt = "entered" /\ eventlock = "free"
          /\ timerAt' = "spin" /\ eventlock' = "handler"
          /\ UNCHANGED test_rw_lock
       \/ /\ timerAt = "spin" /\ "writer" \notin test_rw_lock
          /\ timerAt' = "both" /\ test_rw_lock' = test_rw_lock \cup {"handler"}
          /\ UNCHANGED eventlock
       \/ /\ timerAt = "both"
          /\ timerAt' = "done" /\ test_rw_lock' = test_rw_lock \ {"handler"} /\ eventlock' = "free"
    /\ UNCHANGED <<loadAt, handlerCpu, irqsOff>>

LockNext == test_lockdep_init \/ Interrupt \/ lockdep_test_hrtimer_handler

(* A load that has begun and a handler go on when they can.                  *)
LockFairness ==
    /\ WF_lockVars(loadAt # "begin" /\ test_lockdep_init)
    /\ WF_lockVars(Interrupt)
    /\ WF_lockVars(lockdep_test_hrtimer_handler)

LockSpec == LockInit /\ [][LockNext]_lockVars /\ LockFairness

-----------------------------------------------------------------------------
(* The "hardirq unsafe" rwlock and the "hardirq safe" spinlock               *)
(* (lockdep-rwlock.c:21-22) never make the load and the handler wait for each*)
(* other, wherever the interrupt hits: both come to their end.               *)
LocksReleased == loadAt = "started" ~> (loadAt = "done" /\ timerAt = "done")
=============================================================================
