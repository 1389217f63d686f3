------------------------------ MODULE DevfreqQos ------------------------------
(***************************************************************************)
(* kernel_module/qos/devfreq-qos.c, the files of one device.  A write first*)
(* stores its limits, in kHz, in the device, and then makes the requests of*)
(* its own file from what is stored there.                                 *)
(***************************************************************************)
EXTENDS Integers

CONSTANTS
    DevfreqUsers,   \* open files
    MaxDfWrites     \* bound: writes

VARIABLES
    qos_dev,   \* the limits stored in the device
    dfUser,    \* for each file: where it is, and the limits it writes
    dfRequest, \* for each file, its two requests
    leaked,    \* a request of a file whose open failed is left
    dfWrites,  \* writes so far
    mixed,     \* history: another write overlapped with one of this file
    dfLast     \* history: for each file, the limits of its last complete write

dfVars == <<qos_dev, dfUser, dfRequest, leaked, dfWrites, mixed, dfLast>>

(* A limit in Hz divided by HZ_PER_KHZ, towards zero: -999 becomes 0.        *)
HZ_PER_KHZ == 1000
InKHz(hz) == IF hz < 0 THEN -((-hz) \div HZ_PER_KHZ) ELSE hz \div HZ_PER_KHZ
Hz == {-1000, -999, 1999}
KHz == {InKHz(f) : f \in Hz} \cup {0, 9}
Limits == [lo : KHz, hi : KHz]
DfDefault == [lo |-> 0, hi |-> 9]     \* 0 and FREQ_QOS_MAX_DEFAULT_VALUE

DevfreqTypeOK ==
    /\ qos_dev \in Limits
    /\ dfUser \in [DevfreqUsers -> [at : {"closed", "opening", "open", "store", "min", "max", "refresh", "crashed"},
                                    new : Limits]]
    /\ dfRequest \in [DevfreqUsers -> Limits] /\ dfLast \in [DevfreqUsers -> Limits]
    /\ leaked \in BOOLEAN /\ dfWrites \in 0 .. MaxDfWrites
    /\ mixed \in [DevfreqUsers -> BOOLEAN]

DevfreqInit ==
    /\ qos_dev = [lo |-> 0, hi |-> 0]
    /\ dfUser = [h \in DevfreqUsers |-> [at |-> "closed", new |-> DfDefault]]
    /\ dfRequest = [h \in DevfreqUsers |-> DfDefault]
    /\ leaked = FALSE /\ dfWrites = 0
    /\ mixed = [h \in DevfreqUsers |-> FALSE]
    /\ dfLast = [h \in DevfreqUsers |-> DfDefault]

At(h, from, to) == dfUser[h].at = from /\ dfUser' = [dfUser EXCEPT ![h].at = to]

-----------------------------------------------------------------------------
(* dev_freq_qos_open adds two requests.  When one fails the file is not open *)
(* and nothing takes back what was made.                                     *)
dev_freq_qos_open(h) ==
    /\ \/ /\ At(h, "closed", "opening") \/ At(h, "opening", "open")
          /\ UNCHANGED leaked
       \/ /\ At(h, "opening", "closed")
          /\ leaked' = TRUE
    /\ dfRequest' = [dfRequest EXCEPT ![h] = DfDefault]
    /\ dfLast' = [dfLast EXCEPT ![h] = DfDefault]
    /\ mixed' = [mixed EXCEPT ![h] = FALSE]
    /\ UNCHANGED <<qos_dev, dfWrites>>

dev_freq_qos_close(h) ==
    /\ At(h, "open", "closed")
    /\ UNCHANGED <<qos_dev, dfRequest, leaked, dfWrites, mixed, dfLast>>

(* dev_freq_qos_write, after it has copied the limits from the user.         *)
CopyLimits(h, lo, hi) ==
    /\ dfUser[h].at = "open" /\ dfWrites < MaxDfWrites
    /\ dfUser' = [dfUser EXCEPT ![h] = [at |-> "store", new |-> [lo |-> InKHz(lo), hi |-> InKHz(hi)]]]
    /\ dfWrites' = dfWrites + 1
    /\ mixed' = [mixed EXCEPT ![h] = @ \/ \E g \in DevfreqUsers \ {h} : dfUser[g].at \in {"store", "min", "max"}]
    /\ UNCHANGED <<qos_dev, dfRequest, leaked, dfLast>>

StoreLimitsFaulty(h) ==
    /\ At(h, "store", "min")
    /\ qos_dev' = [qos_dev EXCEPT !.lo = dfUser[h].new.lo]
    /\ mixed' = [g \in DevfreqUsers |-> mixed[g] \/ (g # h /\ dfUser[g].at \in {"store", "min", "max"})]
    /\ UNCHANGED <<dfRequest, leaked, dfWrites, dfLast>>
StoreLimits(h) ==
    /\ At(h, "store", "min")
    /\ qos_dev' = dfUser[h].new
    /\ mixed' = [g \in DevfreqUsers |-> mixed[g] \/ (g # h /\ dfUser[g].at \in {"store", "min", "max"})]
    /\ UNCHANGED <<dfRequest, leaked, dfWrites, dfLast>>

(* A negative limit is refused, and the request keeps what it had.           *)
dev_pm_qos_update_request(old, new) == IF new < 0 THEN old ELSE new

UpdateMin(h) ==
    /\ At(h, "min", "max")
    /\ dfRequest' = [dfRequest EXCEPT ![h].lo = dev_pm_qos_update_request(@, qos_dev.lo)]
    /\ UNCHANGED <<qos_dev, leaked, dfWrites, mixed, dfLast>>

(* The refresh calls get_dev_status, which not every driver has, after two   *)
(* updates that went through.                                                *)
UpdateMax(h) ==
    /\ dfUser[h].at = "max"
    /\ dfUser' = [dfUser EXCEPT ![h].at = IF qos_dev.lo >= 0 /\ qos_dev.hi >= 0 THEN "refresh" ELSE "open"]
    /\ dfRequest' = [dfRequest EXCEPT ![h].hi = dev_pm_qos_update_request(@, qos_dev.hi)]
    /\ dfLast' = [dfLast EXCEPT ![h] = [lo |-> dev_pm_qos_update_request(@.lo, dfUser[h].new.lo),
                                        hi |-> dev_pm_qos_update_request(@.hi, dfUser[h].new.hi)]]
    /\ UNCHANGED <<qos_dev, leaked, dfWrites, mixed>>

update_devfreq(h) ==
    /\ At(h, "refresh", "open") \/ At(h, "refresh", "crashed")
    /\ UNCHANGED <<qos_dev, dfRequest, leaked, dfWrites, mixed, dfLast>>

DevfreqNext ==
    \E h \in DevfreqUsers :
        \/ dev_freq_qos_open(h) \/ dev_freq_qos_close(h) \/ StoreLimits(h)
        \/ UpdateMin(h) \/ UpdateMax(h) \/ update_devfreq(h)
        \/ \E lo, hi \in Hz : CopyLimits(h, lo, hi)

DevfreqSpec == DevfreqInit /\ [][DevfreqNext]_dfVars

-----------------------------------------------------------------------------
(* The limits on their way from a write to the requests of its file are kept *)
(* in the device, which all files share.  A file that is not in a write still*)
(* requests what its own writes asked for, negative limits left out, unless  *)
(* another file's write overlapped with one of them.                         *)
OwnLimitsUnlessMixed ==
    \A h \in DevfreqUsers :
        dfUser[h].at \in {"open", "refresh"} /\ ~mixed[h] => dfRequest[h] = dfLast[h]
=============================================================================
