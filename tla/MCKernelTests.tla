---------------------------- MODULE MCKernelTests ----------------------------
(***************************************************************************)
(* The small kernel modules for TLC: every behaviour is one of the modules,*)
(* chosen in the initial state, while the others rest in their own.        *)
(***************************************************************************)
EXTENDS TimerTest, LockdepRwlock, SdeiTest, WorkTest, WorkListing, UnboundTest, CpufreqQos, DevfreqQos

VARIABLE module

all == <<timerVars, lockVars, sdeiVars, wtVars, listVars, ubVars, cfVars, dfVars>>

Init ==
    /\ module \in {"timer", "lockdep", "sdei", "work", "listing", "unbound", "cpufreq", "devfreq"}
    /\ TimerInit /\ LockInit /\ SdeiInit /\ WorkInit /\ ListInit /\ UnboundInit /\ CpufreqInit /\ DevfreqInit

Timer == module = "timer" /\ TimerNext
    /\ UNCHANGED <<module, lockVars, sdeiVars, wtVars, listVars, ubVars, cfVars, dfVars>>
Lockdep == module = "lockdep" /\ LockNext
    /\ UNCHANGED <<module, timerVars, sdeiVars, wtVars, listVars, ubVars, cfVars, dfVars>>
Sdei == module = "sdei" /\ SdeiNext
    /\ UNCHANGED <<module, timerVars, lockVars, wtVars, listVars, ubVars, cfVars, dfVars>>
Work == module = "work" /\ WorkNext
    /\ UNCHANGED <<module, timerVars, lockVars, sdeiVars, listVars, ubVars, cfVars, dfVars>>
Listing == module = "listing" /\ ListNext
    /\ UNCHANGED <<module, timerVars, lockVars, sdeiVars, wtVars, ubVars, cfVars, dfVars>>
Unbound == module = "unbound" /\ UnboundNext
    /\ UNCHANGED <<module, timerVars, lockVars, sdeiVars, wtVars, listVars, cfVars, dfVars>>
Cpufreq == module = "cpufreq" /\ CpufreqNext
    /\ UNCHANGED <<module, timerVars, lockVars, sdeiVars, wtVars, listVars, ubVars, dfVars>>
Devfreq == module = "devfreq" /\ DevfreqNext
    /\ UNCHANGED <<module, timerVars, lockVars, sdeiVars, wtVars, listVars, ubVars, cfVars>>

Next == Timer \/ Lockdep \/ Sdei \/ Work \/ Listing \/ Unbound \/ Cpufreq \/ Devfreq

Spec == Init /\ [][Next]_<<module, all>> /\ LockFairness
=============================================================================
