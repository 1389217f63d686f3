---------------------------- MODULE ServiceMonitor ----------------------------
(***************************************************************************)
(* system_manager/service_monitor.c: a process that starts a service, waits*)
(* for its end and starts it again five seconds later.                     *)
(***************************************************************************)
EXTENDS Integers

CONSTANTS
    MaxExecErrors,   \* bound: times that execl fails
    MaxStops,        \* bound: times that the service ends by itself or is killed
    MaxSignals       \* bound: signals sent to the monitor

VARIABLES
    monitor,     \* "none", "fork", "wait", "sleep" or "exited"
    service,     \* the child: "none", "starting" (before execl), "running" or "ended"
    seconds,     \* left to sleep
    forkFailed,
    execErrors, stops, signals   \* how often it has happened

monitorVars == <<monitor, service, seconds, forkFailed, execErrors, stops, signals>>

MonitorInit ==
    /\ monitor = "none" /\ service = "none" /\ seconds = 0 /\ forkFailed = FALSE
    /\ execErrors = 0 /\ stops = 0 /\ signals = 0

StartMonitor ==
    /\ monitor = "none" /\ monitor' = "fork"
    /\ UNCHANGED <<service, seconds, forkFailed, execErrors, stops, signals>>

Fork ==
    /\ monitor = "fork" /\ service' = "starting" /\ monitor' = "wait"
    /\ UNCHANGED <<seconds, forkFailed, execErrors, stops, signals>>

ForkFails ==
    /\ monitor = "fork" /\ forkFailed' = TRUE /\ monitor' = "exited"
    /\ UNCHANGED <<service, seconds, execErrors, stops, signals>>

(* The child becomes the service, or ends with code 21.                      *)
Exec ==
    /\ service = "starting"
    /\ \/ service' = "running" /\ UNCHANGED execErrors
       \/ execErrors < MaxExecErrors /\ execErrors' = execErrors + 1 /\ service' = "ended"
    /\ UNCHANGED <<monitor, seconds, forkFailed, stops, signals>>

ServiceEnds ==
    /\ service = "running" /\ stops < MaxStops
    /\ stops' = stops + 1 /\ service' = "ended"
    /\ UNCHANGED <<monitor, seconds, forkFailed, execErrors, signals>>

WaitReturns ==
    /\ monitor = "wait" /\ service = "ended"
    /\ service' = "none" /\ seconds' = 5 /\ monitor' = "sleep"
    /\ UNCHANGED <<forkFailed, execErrors, stops, signals>>

Sleep ==
    /\ monitor = "sleep"
    /\ IF seconds = 0 THEN monitor' = "fork" /\ UNCHANGED seconds
       ELSE seconds' = seconds - 1 /\ UNCHANGED monitor
    /\ UNCHANGED <<service, forkFailed, execErrors, stops, signals>>

(* SIGINT, SIGTERM and SIGQUIT run a handler that logs them.  wait goes on   *)
(* afterwards (signal() restarts it), a sleep of one second is cut short.    *)
funFaulty ==
    /\ monitor \notin {"none", "exited"} /\ signals < MaxSignals /\ signals' = signals + 1
    /\ IF monitor = "wait" THEN monitor' = "exited" ELSE UNCHANGED monitor
    /\ UNCHANGED <<service, seconds, forkFailed, execErrors, stops>>
fun ==
    /\ monitor \notin {"none", "exited"} /\ signals < MaxSignals /\ signals' = signals + 1
    /\ IF monitor = "sleep" /\ seconds > 0 THEN seconds' = seconds - 1 ELSE UNCHANGED seconds
    /\ UNCHANGED <<monitor, service, forkFailed, execErrors, stops>>

MonitorStep == Fork \/ ForkFails \/ Exec \/ WaitReturns \/ Sleep
MonitorNext == StartMonitor \/ MonitorStep \/ ServiceEnds \/ fun

(* The monitor and the starting child are scheduled.                         *)
MonitorFairness == WF_monitorVars(MonitorStep)

MonitorSpec == MonitorInit /\ [][MonitorNext]_monitorVars /\ MonitorFairness

-----------------------------------------------------------------------------
(* "No matter the service exit normally or abnormally, this application will *)
(* pull up it again in a certain time" (service_monitor.c:6): it does, after *)
(* a failing execl too and through signals, unless a fork has failed.        *)
PulledUpAgain == service = "ended" ~> (service = "running" \/ forkFailed)
=============================================================================
