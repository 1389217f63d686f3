------------------------------ MODULE SdeiTest ------------------------------
(***************************************************************************)
(* kernel_module/sdei/sdei-test.c: a read of the proc file signals a       *)
(* firmware event to each online CPU in turn, and waits up to five seconds *)
(* for the handler to complete the completion of that CPU.  CPU hotplug is *)
(* held off by cpus_read_lock, which readers share.                        *)
(***************************************************************************)
EXTENDS Naturals, FiniteSets

CONSTANTS
    SdeiCpus,      \* the online CPUs are 1 .. SdeiCpus
    SdeiReaders,   \* processes that read the proc file
    MaxSdeiReads   \* bound: reads

ASSUME SdeiAssumption == SdeiCpus \in Nat \ {0} /\ MaxSdeiReads \in Nat /\ IsFiniteSet(SdeiReaders)

VARIABLES
    sdeiMod,    \* out, registered, in, removed, gone
    handler,    \* sdei_event_test_handler is registered
    sdeiReads,  \* reads so far
    reader,     \* for each reader: where it is in the loop, and on which CPU
    done,       \* for each CPU, the count of its completion
    sdeiEvent,  \* for each CPU: the event is pending, is being handled, or both
    completed,  \* history: the CPUs whose handler completed since the round of r began
    signal,     \* history: what became of the signal of the round r is in
    alone,      \* history: the readers whose CPU no other reader was on during their round
    outstanding, \* history: the readers whose round began with an event outstanding
    timedOut,   \* history: the CPUs on which a wait timed out
    badOk,      \* history: a wait succeeded that OkIsOwnUnlessLate does not allow
    late        \* history: an unregistration failed

roundVars == <<completed, signal, alone, outstanding, timedOut, badOk>>
sdeiVars == <<sdeiMod, handler, sdeiReads, reader, done, sdeiEvent, late, roundVars>>

Cpus == 1 .. SdeiCpus
Idle == [at |-> "idle", cpu |-> 1]

SdeiTypeOK ==
    /\ sdeiMod \in {"out", "registered", "in", "removed", "gone"}
    /\ {handler, badOk, late} \subseteq BOOLEAN
    /\ sdeiReads \in 0 .. MaxSdeiReads
    /\ reader \in [SdeiReaders -> [at : {"idle", "begin", "signal", "wait"}, cpu : Cpus]]
    /\ done \in [Cpus -> Nat]
    /\ sdeiEvent \in [Cpus -> SUBSET {"pending", "handling"}]
    /\ completed \in [SdeiReaders -> SUBSET Cpus]
    /\ signal \in [SdeiReaders -> {"none", "pending", "handling", "handled"}]
    /\ alone \subseteq SdeiReaders /\ outstanding \subseteq SdeiReaders /\ timedOut \subseteq Cpus

SdeiInit ==
    /\ sdeiMod = "out" /\ handler = FALSE /\ sdeiReads = 0
    /\ reader = [r \in SdeiReaders |-> Idle]
    /\ done = [c \in Cpus |-> 0] /\ sdeiEvent = [c \in Cpus |-> {}]
    /\ completed = [r \in SdeiReaders |-> {}]
    /\ signal = [r \in SdeiReaders |-> "none"]
    /\ alone = {} /\ outstanding = {} /\ timedOut = {}
    /\ badOk = FALSE /\ late = FALSE

-----------------------------------------------------------------------------
(* sdei_test_drv_init.  A load that fails to register or to enable the event *)
(* returns 0 all the same, the latter the result of the unregistration.      *)
sdei_event_register ==
    /\ sdeiMod = "out"
    /\ \/ sdeiMod' = "registered" /\ handler' = TRUE
       \/ sdeiMod' = "removed" /\ UNCHANGED handler
    /\ UNCHANGED <<sdeiReads, reader, done, sdeiEvent, late, roundVars>>

sdei_event_enable ==
    /\ sdeiMod = "registered"
    /\ \/ sdeiMod' = "in" /\ UNCHANGED handler
       \/ sdeiMod' = "removed" /\ handler' = FALSE
    /\ UNCHANGED <<sdeiReads, reader, done, sdeiEvent, late, roundVars>>

(* sdei_test_drv_exit.  proc_remove waits for the readers; unregistering     *)
(* fails while the handler runs, which the unload only prints.               *)
proc_remove ==
    /\ sdeiMod = "in" /\ \A r \in SdeiReaders : reader[r].at = "idle"
    /\ sdeiMod' = "removed"
    /\ UNCHANGED <<handler, sdeiReads, reader, done, sdeiEvent, late, roundVars>>

sdei_event_unregister ==
    /\ sdeiMod = "removed" /\ sdeiMod' = "gone"
    /\ LET busy == \E c \in Cpus : "handling" \in sdeiEvent[c]
       IN  IF busy
           THEN late' = TRUE /\ UNCHANGED <<handler, sdeiEvent>>
           ELSE handler' = FALSE /\ sdeiEvent' = [c \in Cpus |-> {}] /\ UNCHANGED late
    /\ UNCHANGED <<sdeiReads, reader, done, roundVars>>

-----------------------------------------------------------------------------
(* sdei_test_proc_show, for one CPU after the other.  smp_call_on_cpu cannot *)
(* fail: the CPU is online, and stays so.                                    *)
On(r, c) == reader[r].at # "idle" /\ reader[r].cpu = c

EnterCpu(r, c) ==  \* history: whom r meets where it begins a round
    LET met == {o \in SdeiReaders \ {r} : On(o, c)}
    IN  alone' = IF met = {} THEN alone \cup {r} ELSE alone \ (met \cup {r})

OpenSdeiTest(r) ==
    /\ sdeiMod = "in" /\ reader[r].at = "idle" /\ sdeiReads < MaxSdeiReads
    /\ reader' = [reader EXCEPT ![r] = [at |-> "begin", cpu |-> 1]]
    /\ sdeiReads' = sdeiReads + 1
    /\ EnterCpu(r, 1)
    /\ UNCHANGED <<sdeiMod, handler, done, sdeiEvent, late, completed, signal, outstanding, timedOut, badOk>>

BeginRound(r, count) ==  \* reset to count
    LET c == reader[r].cpu
    IN  /\ reader[r].at = "begin"
        /\ reader' = [reader EXCEPT ![r].at = "signal"]
        /\ done' = [done EXCEPT ![c] = count]
        /\ completed' = [completed EXCEPT ![r] = @ \ {c}]
        /\ outstanding' = IF sdeiEvent[c] = {} THEN outstanding \ {r} ELSE outstanding \cup {r}
        /\ UNCHANGED <<sdeiMod, handler, sdeiReads, sdeiEvent, late, signal, alone, timedOut, badOk>>
init_completionFaulty(r) == BeginRound(r, done[reader[r].cpu])
init_completion(r) == BeginRound(r, 0)

(* SDEI_EVENT_SIGNAL: an event that is already pending stays one event.      *)
arm_smccc_smc(r) ==
    /\ reader[r].at = "signal"
    /\ reader' = [reader EXCEPT ![r].at = "wait"]
    /\ sdeiEvent' = [sdeiEvent EXCEPT ![reader[r].cpu] = @ \cup {"pending"}]
    /\ signal' = [signal EXCEPT ![r] = "pending"]
    /\ UNCHANGED <<sdeiMod, handler, sdeiReads, done, late, completed, alone, outstanding, timedOut, badOk>>

Signalled(r) ==
    LET c == reader[r].cpu
        own == signal[r] = "handled"
    IN  /\ reader[r].at = "wait" /\ done[c] > 0
        /\ done' = [done EXCEPT ![c] = @ - 1]
        /\ badOk' = (badOk \/ c \notin completed[r] \/ (~own /\ r \in alone \ outstanding))
        /\ signal' = [signal EXCEPT ![r] = "none"]
        /\ \/ c = SdeiCpus /\ reader' = [reader EXCEPT ![r] = Idle] /\ UNCHANGED alone
           \/ c # SdeiCpus /\ reader' = [reader EXCEPT ![r] = [at |-> "begin", cpu |-> c + 1]] /\ EnterCpu(r, c + 1)
        /\ UNCHANGED <<sdeiMod, handler, sdeiReads, sdeiEvent, late, completed, outstanding, timedOut>>

TimedOut(r) ==
    /\ reader[r].at = "wait" /\ done[reader[r].cpu] = 0
    /\ reader' = [reader EXCEPT ![r] = Idle]
    /\ signal' = [signal EXCEPT ![r] = "none"]
    /\ timedOut' = timedOut \cup {reader[r].cpu}
    /\ UNCHANGED <<sdeiMod, handler, sdeiReads, done, sdeiEvent, late, completed, alone, outstanding, badOk>>

(* The firmware enters the handler on c; the handler completes.              *)
SignalsBecome(c, from, to) ==  \* history: the event carries the signals of these readers
    signal' = [r \in SdeiReaders |-> IF On(r, c) /\ signal[r] = from THEN to ELSE signal[r]]

Deliver(c) ==
    /\ sdeiEvent[c] = {"pending"} /\ handler
    /\ sdeiEvent' = [sdeiEvent EXCEPT ![c] = {"handling"}]
    /\ SignalsBecome(c, "pending", "handling")
    /\ UNCHANGED <<sdeiMod, handler, sdeiReads, reader, done, late, completed, alone, outstanding, timedOut, badOk>>

sdei_event_test_handler(c) ==
    /\ "handling" \in sdeiEvent[c] /\ sdeiMod # "gone"
    /\ sdeiEvent' = [sdeiEvent EXCEPT ![c] = @ \ {"handling"}]
    /\ done' = [done EXCEPT ![c] = @ + 1]
    /\ completed' = [r \in SdeiReaders |-> completed[r] \cup {c}]
    /\ SignalsBecome(c, "handling", "handled")
    /\ UNCHANGED <<sdeiMod, handler, sdeiReads, reader, late, alone, outstanding, timedOut, badOk>>

SdeiNext ==
    \/ sdei_event_register \/ sdei_event_enable \/ proc_remove \/ sdei_event_unregister
    \/ \E r \in SdeiReaders :
          OpenSdeiTest(r) \/ init_completion(r) \/ arm_smccc_smc(r) \/ Signalled(r) \/ TimedOut(r)
    \/ \E c \in Cpus : Deliver(c) \/ sdei_event_test_handler(c)

SdeiSpec == SdeiInit /\ [][SdeiNext]_sdeiVars

-----------------------------------------------------------------------------
(* "sdei callback ok" says that the CPU's handler has completed since the    *)
(* round reset the completion (sdei-test.c:97-117).  It answers the signal   *)
(* of its own round, unless another reader was on the CPU in that round, or  *)
(* the event of an earlier wait was still outstanding at the reset: that     *)
(* late event can complete the new round.  An event that nobody waits for    *)
(* stays behind only where a wait has timed out; one that was handled before *)
(* the reset is forgotten.  Unloading leaves no event, unless unregistering  *)
(* failed.                                                                   *)
OkIsOwnUnlessLate ==
    /\ ~badOk
    /\ \A c \in Cpus : sdeiEvent[c] # {} /\ c \notin timedOut
          => \E r \in SdeiReaders : reader[r].at = "wait" /\ reader[r].cpu = c
    /\ sdeiMod = "gone" /\ ~late => ~handler /\ \A c \in Cpus : sdeiEvent[c] = {}
=============================================================================
