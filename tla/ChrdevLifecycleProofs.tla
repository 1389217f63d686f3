------------------------ MODULE ChrdevLifecycleProofs ------------------------
(***************************************************************************)
(* Proofs about ChrdevLifecycle, for any number of CPUs, minor numbers,    *)
(* loads and policy changes.  Each driver has an invariant of its own that *)
(* says what the kernel holds for it while it is loaded and what is left   *)
(* when it is not; no step changes the driver.                             *)
(***************************************************************************)
EXTENDS ChrdevLifecycle, TLAPS

USE DEF Names, Kinds, Calling, Failures

Own(r) == r.load = load /\ r.i = 0

(* When out, cpuhp-qos.c leaves threads only; when it is loaded but created  *)
(* no device, that is all it has, too.                                       *)
CpuhpInv ==
    driver = "cpuhp" =>
        /\ state # "stuck"
        /\ \A r \in held :
              \/ r.kind = "thread"
              \/ state = "in" /\ Own(r) /\ Holds("memory") /\ r.kind # "notifier"
        /\ state = "in" =>
              "node" \in failed \/ Of(load, {"class", "cpuhp", "region", "memory", "cdev", "node"}) \subseteq held
        /\ extra # {} => "node" \in failed

(* The class left behind by smc_helper.c or regulator_test.c comes from a    *)
(* load that failed, the cdev and its memory from one that had no node.      *)
SmcInv ==
    driver \in {"smc", "regulator"} =>
        /\ state = "stuck" => driver = "regulator" /\ "node" \in failed
        /\ state # "stuck" =>
              \A r \in held :
                 \/ state = "in" /\ Own(r) /\ r.kind \in {"class", "region", "memory", "cdev", "node"}
                 \/ state = "out" /\ r.kind = "class" /\ failed \cap {"region", "memory", "cdev"} # {}
                 \/ r.kind \in {"cdev", "memory"} /\ "node" \in failed
        /\ state = "in" =>
              /\ Of(load, {"class", "region", "memory", "cdev"}) \subseteq held
              /\ Holds("node") \/ "node" \in failed
        /\ extra = {}

DevfreqInv ==
    driver = "devfreq" =>
        /\ state = "stuck" => "device" \in failed
        /\ state # "stuck" =>
              \A r \in held :
                 \/ r.kind = "memory"
                 \/ state = "in" /\ r.load = load /\ r.kind \in {"cdev", "node"}
                 \/ state = "in" /\ Own(r) /\ r.kind \in {"class", "region"}
        /\ state = "in" => Of(load, {"class", "region"}) \subseteq held
        /\ extra = {}

(* Unless a CPU was once without its policy, the policy of every CPU is set  *)
(* and pinned while cpufreq-qos.c is loaded with its devices.                *)
PoliciesInv ==
    /\ lacking = {} => kpolicy = Present
    /\ driver # "cpufreq" \/ state = "out" => policy = {} /\ pinned = {}

CpufreqInv ==
    driver = "cpufreq" =>
        /\ state # "stuck" =>
              \A r \in held :
                 \/ r.kind = "region"
                 \/ state = "in" /\ Own(r) /\ r.kind \in {"class", "notifier"}
                 \/ state = "in" /\ r.load = load /\ r.i \in Present /\ r.kind \in {"cdev", "node"}
        /\ state = "in" /\ lacking = {} =>
              \/ policy = Present /\ pinned = Present
              \/ policy = {} /\ pinned = {} /\ "node" \in failed
        /\ state = "stuck" => lacking # {} \/ failed \cap {"cdev", "node"} # {}
        /\ extra # {} => lacking # {} \/ "notifier" \in failed

ChrdevInv == TypeOK /\ CpuhpInv /\ SmcInv /\ DevfreqInv /\ PoliciesInv /\ CpufreqInv

LEMMA ChrdevInvInit == Init => ChrdevInv
<1> SUFFICES ASSUME Init PROVE ChrdevInv
    OBVIOUS
<1>1. TypeOK
    <2>1. 0 \in 0 .. MaxLoads /\ 0 \in 0 .. MaxChanges
        BY BoundsAssumption
    <2>2. QED
        BY <2>1 DEF Init, TypeOK
<1>2. CpuhpInv /\ SmcInv /\ DevfreqInv /\ CpufreqInv
    BY DEF Init, CpuhpInv, SmcInv, DevfreqInv, CpufreqInv
<1>3. PoliciesInv
    BY DEF Init, PoliciesInv
<1>4. QED
    BY <1>1, <1>2, <1>3 DEF ChrdevInv

-----------------------------------------------------------------------------
(* The shape of the state.                                                   *)
LEMMA TypeStep == TypeOK /\ [Next]_vars => TypeOK'
<1> SUFFICES ASSUME TypeOK, [Next]_vars PROVE TypeOK'
    OBVIOUS
<1> USE DriversAssumption, SizesAssumption, BoundsAssumption DEF TypeOK, Resources, Present, Of, OfEach
<1>1. CASE UNCHANGED vars
    BY <1>1 DEF vars, policies
<1>2. ASSUME NEW fail \in Failures \cup {"none"}, LoadModule(fail) PROVE TypeOK'
    <2>1. load + 1 \in 1 .. MaxLoads /\ load' = load + 1 /\ driver' = driver /\ failed' \subseteq Failures
        BY <1>2 DEF LoadModule
    <2>2. CASE driver = "cpuhp" /\ cpu_hp_drv_init(load + 1, fail)
        BY <2>1, <2>2 DEF cpu_hp_drv_init, Loaded, Failed, policies
    <2>3. CASE driver = "cpufreq" /\ cpu_freq_qos_drv_init(load + 1, fail)
        <3>1. state' \in {"out", "in", "stuck"} /\ held' \subseteq Resources /\ extra' \subseteq Kinds \cup {"policy"}
            <4>1. CASE fail \in {"cdev", "node"}
                BY <2>1, <2>3, <4>1 DEF cpu_freq_qos_drv_init, Loaded, Failed, FailAt, Crashes
            <4>2. CASE fail \notin {"cdev", "node"}
                <5>1. extra' \subseteq Kinds \cup {"policy"}
                    BY <2>3, <4>2 DEF cpu_freq_qos_drv_init
                <5>2. state' \in {"out", "in"} /\ held' \subseteq Resources
                    BY <2>1, <2>3, <4>2 DEF cpu_freq_qos_drv_init, Loaded, Failed
                <5>3. QED
                    BY <5>1, <5>2
            <4>3. QED
                BY <4>1, <4>2
        <3>2. UNCHANGED <<kpolicy, lacking, changes>> /\ policy' \subseteq kpolicy /\ pinned' \subseteq Present
            BY <2>3 DEF cpu_freq_qos_drv_init
        <3>3. QED
            BY <2>1, <3>1, <3>2
    <2>4. CASE driver = "devfreq" /\ dev_freq_qos_drv_init(load + 1, fail)
        BY <2>1, <2>4 DEF dev_freq_qos_drv_init, Loaded, Failed, Crashes, policies, devfreq_qos_register_by_compatible
    <2>5. CASE driver \in {"smc", "regulator"} /\ regulator_test_drv_init(load + 1, fail)
        <3>1. UNCHANGED <<extra, kpolicy, policy, pinned, lacking, changes>>
            BY <2>5 DEF regulator_test_drv_init, smc_helper_drv_init, policies
        <3>2. state' \in {"out", "in", "stuck"} /\ held' \subseteq Resources
            BY <2>1, <2>5 DEF regulator_test_drv_init, smc_helper_drv_init, Loaded, Failed, Crashes
        <3>3. QED
            BY <2>1, <3>1, <3>2
    <2>6. QED
        BY <1>2, <2>2, <2>3, <2>4, <2>5 DEF LoadModule, regulator_test_drv_init
<1>3. CASE UnloadModule
    <2>1. UNCHANGED <<driver, load, failed>>
        BY <1>3 DEF UnloadModule
    <2>2. CASE cpu_hp_drv_exit
        BY <2>1, <2>2 DEF cpu_hp_drv_exit, Unloads, policies
    <2>3. CASE cpu_freq_qos_drv_exit
        BY <2>1, <2>3 DEF cpu_freq_qos_drv_exit, Crashes, policies
    <2>4. CASE dev_freq_qos_drv_exit
        BY <2>1, <2>4 DEF dev_freq_qos_drv_exit, Unloads, policies
    <2>5. CASE smc_helper_drv_exit
        BY <2>1, <2>5 DEF smc_helper_drv_exit, Unloads, policies
    <2>6. QED
        BY <1>3, <2>2, <2>3, <2>4, <2>5 DEF UnloadModule, regulator_test_drv_exit
<1>4. ASSUME NEW c \in Present, RemovePolicy(c) \/ CreatePolicy(c) PROVE TypeOK'
    <2>1. changes + 1 \in 0 .. MaxChanges /\ changes' = changes + 1
        BY <1>4 DEF RemovePolicy, CreatePolicy
    <2>2. UNCHANGED <<driver, state, load, held, extra, failed, pinned>>
        BY <1>4 DEF RemovePolicy, CreatePolicy
    <2>3. kpolicy' \subseteq Present /\ policy' \subseteq kpolicy' /\ lacking' \subseteq Present
        BY <1>4 DEF RemovePolicy, CreatePolicy
    <2>4. QED
        BY <2>1, <2>2, <2>3
<1>5. QED
    BY <1>1, <1>2, <1>3, <1>4 DEF Next

-----------------------------------------------------------------------------
(* cpuhp-qos.c.                                                              *)
LEMMA CpuhpStep == TypeOK /\ CpuhpInv /\ [Next]_vars => CpuhpInv'
<1> SUFFICES ASSUME TypeOK, CpuhpInv, [Next]_vars, driver' = "cpuhp" PROVE CpuhpInv'
    BY DEF CpuhpInv
<1>0. driver = "cpuhp"
    BY DEF Next, LoadModule, UnloadModule, RemovePolicy, CreatePolicy, vars
<1> USE <1>0, BoundsAssumption DEF CpuhpInv, Own, Holds, Of
<1>1. CASE UNCHANGED vars
    BY <1>1 DEF vars
<1>2. ASSUME NEW fail \in Failures \cup {"none"}, LoadModule(fail) PROVE CpuhpInv'
    <2>1. state = "out" /\ cpu_hp_drv_init(load + 1, fail) /\ load' = load + 1 /\ load + 1 \in Nat
        BY <1>2 DEF LoadModule, TypeOK
    <2>2. \A r \in held : r.kind = "thread"
        BY <2>1
    <2>3. failed' = IF fail = "none" THEN failed ELSE failed \cup {fail}
        BY <1>2, <2>2 DEF LoadModule, ClassLeft
    <2>4. CASE fail = "none"
        BY <2>1, <2>2, <2>3, <2>4 DEF cpu_hp_drv_init, Loaded
    <2>5. CASE fail # "none"
        BY <2>1, <2>2, <2>3, <2>5 DEF cpu_hp_drv_init, Loaded, Failed
    <2>6. QED
        BY <2>4, <2>5
<1>3. CASE UnloadModule
    <2>1. cpu_hp_drv_exit /\ UNCHANGED <<driver, load, failed>> /\ state = "in"
        BY <1>3 DEF UnloadModule
    <2>2. \A r \in held' : r.kind = "thread"
        BY <2>1 DEF cpu_hp_drv_exit, Unloads, TypeOK, Resources
    <2>3. extra' # {} => "node" \in failed
        BY <2>1 DEF cpu_hp_drv_exit, Unloads
    <2>4. QED
        BY <2>1, <2>2, <2>3 DEF cpu_hp_drv_exit, Unloads
<1>4. ASSUME NEW c \in Present, RemovePolicy(c) \/ CreatePolicy(c) PROVE CpuhpInv'
    BY <1>4 DEF RemovePolicy, CreatePolicy
<1>5. QED
    BY <1>1, <1>2, <1>3, <1>4 DEF Next

-----------------------------------------------------------------------------
(* smc_helper.c and regulator_test.c.                                        *)
LEMMA SmcStep == TypeOK /\ SmcInv /\ [Next]_vars => SmcInv'
<1> SUFFICES ASSUME TypeOK, SmcInv, [Next]_vars, driver' \in {"smc", "regulator"} PROVE SmcInv'
    BY DEF SmcInv
<1>0. driver \in {"smc", "regulator"} /\ driver' = driver
    BY DEF Next, LoadModule, UnloadModule, RemovePolicy, CreatePolicy, vars
<1> USE <1>0, BoundsAssumption DEF SmcInv, Own, Holds, Of
<1>1. CASE UNCHANGED vars
    BY <1>1 DEF vars
<1>2. ASSUME NEW fail \in Failures \cup {"none"}, LoadModule(fail) PROVE SmcInv'
    <2>1. state = "out" /\ load' = load + 1 /\ load + 1 \in Nat
        BY <1>2 DEF LoadModule, TypeOK
    <2>2. \/ smc_helper_drv_init(load + 1, fail)
          \/ driver = "regulator" /\ fail = "node" /\ Crashes /\ UNCHANGED extra
        BY <1>2 DEF LoadModule, regulator_test_drv_init
    <2>3. CASE ClassLeft
        BY <1>2, <2>1, <2>2, <2>3 DEF LoadModule, ClassLeft, smc_helper_drv_init, Failed
    <2>4. CASE ~ClassLeft
        <3>1. failed' = IF fail = "none" THEN failed ELSE failed \cup {fail}
            BY <1>2, <2>4 DEF LoadModule
        <3>2. \A r \in held : r.kind \in {"cdev", "memory"} /\ "node" \in failed
            BY <2>1, <2>4 DEF ClassLeft
        <3>3. CASE smc_helper_drv_init(load + 1, fail) /\ fail \in {"none", "node"}
            BY <2>1, <3>1, <3>2, <3>3 DEF smc_helper_drv_init, Loaded
        <3>4. CASE smc_helper_drv_init(load + 1, fail) /\ fail \notin {"none", "node"}
            BY <2>1, <3>1, <3>2, <3>4 DEF smc_helper_drv_init, Failed
        <3>5. CASE driver = "regulator" /\ fail = "node" /\ Crashes /\ UNCHANGED extra
            BY <2>1, <3>1, <3>2, <3>5 DEF Crashes
        <3>6. QED
            BY <2>2, <3>3, <3>4, <3>5
    <2>5. QED
        BY <2>3, <2>4
<1>3. CASE UnloadModule
    <2>1. smc_helper_drv_exit /\ UNCHANGED <<driver, load, failed>> /\ state = "in"
        BY <1>3 DEF UnloadModule, regulator_test_drv_exit
    <2>2. \A r \in held' : r.kind \in {"cdev", "memory"} /\ "node" \in failed
        BY <2>1 DEF smc_helper_drv_exit, Unloads, TypeOK, Resources
    <2>3. extra' = {}
        BY <2>1 DEF smc_helper_drv_exit, Unloads
    <2>4. QED
        BY <2>1, <2>2, <2>3 DEF smc_helper_drv_exit, Unloads
<1>4. ASSUME NEW c \in Present, RemovePolicy(c) \/ CreatePolicy(c) PROVE SmcInv'
    BY <1>4 DEF RemovePolicy, CreatePolicy
<1>5. QED
    BY <1>1, <1>2, <1>3, <1>4 DEF Next

-----------------------------------------------------------------------------
(* devfreq-qos.c.                                                            *)
LEMMA DevfreqStep == TypeOK /\ DevfreqInv /\ [Next]_vars => DevfreqInv'
<1> SUFFICES ASSUME TypeOK, DevfreqInv, [Next]_vars, driver' = "devfreq" PROVE DevfreqInv'
    BY DEF DevfreqInv
<1>0. driver = "devfreq"
    BY DEF Next, LoadModule, UnloadModule, RemovePolicy, CreatePolicy, vars
<1> USE <1>0, BoundsAssumption, SizesAssumption DEF DevfreqInv, Own, Of
<1>1. CASE UNCHANGED vars
    BY <1>1 DEF vars
<1>2. ASSUME NEW fail \in Failures \cup {"none"}, LoadModule(fail) PROVE DevfreqInv'
    <2>1. state = "out" /\ dev_freq_qos_drv_init(load + 1, fail) /\ load' = load + 1 /\ load + 1 \in Nat
        BY <1>2 DEF LoadModule, TypeOK
    <2>2. \A r \in held : r.kind = "memory"
        BY <2>1
    <2>3. failed' = IF fail = "none" THEN failed ELSE failed \cup {fail}
        BY <1>2, <2>2 DEF LoadModule, ClassLeft
    <2>4. CASE fail \in {"none", "node"}
        BY <2>1, <2>2, <2>3, <2>4
           DEF dev_freq_qos_drv_init, Loaded, OfEach, devfreq_qos_register_by_compatible
    <2>5. CASE fail \notin {"none", "node"}
        BY <2>1, <2>2, <2>3, <2>5 DEF dev_freq_qos_drv_init, Failed, Crashes
    <2>6. QED
        BY <2>4, <2>5
<1>3. CASE UnloadModule
    <2>1. dev_freq_qos_drv_exit /\ UNCHANGED <<driver, load, failed>> /\ state = "in"
        BY <1>3 DEF UnloadModule
    <2>2. \A r \in held' : r.kind = "memory"
        BY <2>1 DEF dev_freq_qos_drv_exit, Unloads, TypeOK, Resources
    <2>3. extra' = {}
        BY <2>1 DEF dev_freq_qos_drv_exit, Unloads
    <2>4. QED
        BY <2>1, <2>2, <2>3 DEF dev_freq_qos_drv_exit, Unloads
<1>4. ASSUME NEW c \in Present, RemovePolicy(c) \/ CreatePolicy(c) PROVE DevfreqInv'
    BY <1>4 DEF RemovePolicy, CreatePolicy
<1>5. QED
    BY <1>1, <1>2, <1>3, <1>4 DEF Next

-----------------------------------------------------------------------------
(* cpufreq-qos.c.                                                            *)
LEMMA PoliciesStep == TypeOK /\ PoliciesInv /\ [Next]_vars => PoliciesInv'
<1> SUFFICES ASSUME TypeOK, PoliciesInv, [Next]_vars PROVE PoliciesInv'
    OBVIOUS
<1> USE DEF PoliciesInv
<1>1. CASE UNCHANGED vars
    BY <1>1 DEF vars, policies
<1>2. ASSUME NEW fail \in Failures \cup {"none"}, LoadModule(fail) PROVE PoliciesInv'
    <2>1. driver' = driver /\ state = "out" /\ policy = {} /\ pinned = {}
        BY <1>2 DEF LoadModule
    <2>2. UNCHANGED <<kpolicy, lacking>>
        BY <1>2 DEF LoadModule, cpu_hp_drv_init, cpu_freq_qos_drv_init, dev_freq_qos_drv_init,
                    regulator_test_drv_init, smc_helper_drv_init, policies
    <2>3. CASE driver = "cpufreq" /\ cpu_freq_qos_drv_init(load + 1, fail)
        BY <2>1, <2>2, <2>3 DEF cpu_freq_qos_drv_init, Loaded
    <2>4. CASE driver # "cpufreq"
        BY <1>2, <2>1, <2>2, <2>4
           DEF LoadModule, cpu_hp_drv_init, dev_freq_qos_drv_init, regulator_test_drv_init,
               smc_helper_drv_init, policies
    <2>5. QED
        BY <1>2, <2>3, <2>4 DEF LoadModule
<1>3. CASE UnloadModule
    <2>1. driver' = driver
        BY <1>3 DEF UnloadModule
    <2>2. CASE driver = "cpufreq" /\ cpu_freq_qos_drv_exit
        BY <2>1, <2>2 DEF cpu_freq_qos_drv_exit, Crashes, policies
    <2>3. CASE driver # "cpufreq"
        BY <1>3, <2>1, <2>3
           DEF UnloadModule, cpu_hp_drv_exit, dev_freq_qos_drv_exit, regulator_test_drv_exit,
               smc_helper_drv_exit, policies
    <2>4. QED
        BY <1>3, <2>2, <2>3 DEF UnloadModule
<1>4. ASSUME NEW c \in Present, RemovePolicy(c) \/ CreatePolicy(c) PROVE PoliciesInv'
    BY <1>4 DEF RemovePolicy, CreatePolicy, Notified
<1>5. QED
    BY <1>1, <1>2, <1>3, <1>4 DEF Next

LEMMA CpufreqStep == TypeOK /\ PoliciesInv /\ CpufreqInv /\ [Next]_vars => CpufreqInv'
<1> SUFFICES ASSUME TypeOK, PoliciesInv, CpufreqInv, [Next]_vars, driver' = "cpufreq" PROVE CpufreqInv'
    BY DEF CpufreqInv
<1>0. driver = "cpufreq"
    BY DEF Next, LoadModule, UnloadModule, RemovePolicy, CreatePolicy, vars
<1> USE <1>0, BoundsAssumption, SizesAssumption DEF CpufreqInv, PoliciesInv, Own, Of, OfEach
<1>1. CASE UNCHANGED vars
    BY <1>1 DEF vars, policies
<1>2. ASSUME NEW fail \in Failures \cup {"none"}, LoadModule(fail) PROVE CpufreqInv'
    <2>1. /\ state = "out" /\ cpu_freq_qos_drv_init(load + 1, fail)
          /\ load' = load + 1 /\ load + 1 \in Nat
          /\ policy = {} /\ pinned = {}
        BY <1>2 DEF LoadModule, TypeOK
    <2>2. \A r \in held : r.kind = "region"
        BY <2>1
    <2>3. failed' = IF fail = "none" THEN failed ELSE failed \cup {fail}
        BY <1>2, <2>2 DEF LoadModule, ClassLeft
    <2>4. CASE fail = "none"
        BY <2>1, <2>2, <2>3, <2>4 DEF cpu_freq_qos_drv_init, Loaded
    <2>5. CASE fail \in {"class", "region"}
        BY <2>1, <2>2, <2>3, <2>5 DEF cpu_freq_qos_drv_init, Failed
    <2>6. CASE fail = "notifier"
        BY <2>1, <2>2, <2>3, <2>6 DEF cpu_freq_qos_drv_init, Failed
    <2>7. CASE fail \in {"cdev", "node"}
        <3>1. UNCHANGED <<extra, policy, pinned, lacking>>
            BY <2>1, <2>7 DEF cpu_freq_qos_drv_init
        <3>2. held' = held /\ state' \in {"out", "in", "stuck"} /\ (state' = "in" => fail = "node")
            BY <2>1, <2>7 DEF cpu_freq_qos_drv_init, FailAt, Loaded, Failed, Crashes
        <3>3. QED
            BY <2>1, <2>2, <2>3, <2>7, <3>1, <3>2
    <2>8. QED
        BY <2>1, <2>4, <2>5, <2>6, <2>7 DEF cpu_freq_qos_drv_init
<1>3. CASE UnloadModule
    <2>1. cpu_freq_qos_drv_exit /\ UNCHANGED <<driver, load, failed>> /\ state = "in"
        BY <1>3 DEF UnloadModule
    <2>2. CASE policy # Present
        <3>1. lacking # {} \/ "node" \in failed
            BY <2>1, <2>2
        <3>2. state' = "stuck" /\ UNCHANGED <<extra, lacking>>
            BY <2>1, <2>2 DEF cpu_freq_qos_drv_exit, Crashes, policies
        <3>3. QED
            BY <2>1, <3>1, <3>2
    <2>3. CASE policy = Present
        <3>1. \A r \in held' : r.kind = "region"
            BY <2>1, <2>3 DEF cpu_freq_qos_drv_exit, TypeOK, Resources
        <3>2. lacking' = lacking /\ state' = "out"
            BY <2>1, <2>3 DEF cpu_freq_qos_drv_exit
        <3>3. lacking = {} => pinned = Present
            BY <2>1, <2>3 DEF Present
        <3>4. QED
            BY <2>1, <2>3, <3>1, <3>2, <3>3 DEF cpu_freq_qos_drv_exit
    <2>4. QED
        BY <2>2, <2>3
<1>4. ASSUME NEW c \in Present, RemovePolicy(c) \/ CreatePolicy(c) PROVE CpufreqInv'
    BY <1>4 DEF RemovePolicy, CreatePolicy
<1>5. QED
    BY <1>1, <1>2, <1>3, <1>4 DEF Next

-----------------------------------------------------------------------------
LEMMA ChrdevInvStep == ChrdevInv /\ [Next]_vars => ChrdevInv'
BY TypeStep, CpuhpStep, SmcStep, DevfreqStep, PoliciesStep, CpufreqStep DEF ChrdevInv

LEMMA ChrdevInvariant == Spec => []ChrdevInv
BY ChrdevInvInit, ChrdevInvStep, PTL DEF Spec

(* The state keeps its shape through any loads, failures and policy changes. *)
THEOREM TypeCorrect == Spec => []TypeOK
<1>1. ChrdevInv => TypeOK
    BY DEF ChrdevInv
<1>2. QED
    BY <1>1, ChrdevInvariant, PTL

(* Whatever failed in which load, a driver that is not loaded has left       *)
(* nothing that calls its code, but the thread of cpuhp-qos.c and the cdev   *)
(* of a smc_helper.c or regulator_test.c that had no node.                   *)
THEOREM NothingCalledBack == Spec => []NothingCallsBack
<1>1. ChrdevInv => NothingCallsBack
    <2> SUFFICES ASSUME ChrdevInv, state = "out", NEW r \in held, r.kind \in Calling
                 PROVE  \/ driver = "cpuhp" /\ r.kind = "thread"
                        \/ driver \in {"smc", "regulator"} /\ r.kind = "cdev" /\ "node" \in failed
        BY DEF NothingCallsBack
    <2>1. driver \in Names
        BY DriversAssumption DEF ChrdevInv, TypeOK
    <2>2. QED
        BY <2>1 DEF ChrdevInv, CpuhpInv, SmcInv, DevfreqInv, CpufreqInv
<1>2. QED
    BY <1>1, ChrdevInvariant, PTL

(* A class that stands in the way of the next load was left by a load of     *)
(* smc_helper.c or regulator_test.c that failed behind class_create.         *)
THEOREM ReloadsPossible == Spec => []ReloadPossible
<1>1. ChrdevInv => ReloadPossible
    <2> SUFFICES ASSUME ChrdevInv, state = "out", NEW r \in held, r.kind = "class"
                 PROVE  driver \in {"smc", "regulator"} /\ failed \cap {"region", "memory", "cdev"} # {}
        BY DEF ReloadPossible, ClassLeft
    <2>1. driver \in Names
        BY DriversAssumption DEF ChrdevInv, TypeOK
    <2>2. QED
        BY <2>1 DEF ChrdevInv, CpuhpInv, SmcInv, DevfreqInv, CpufreqInv
<1>2. QED
    BY <1>1, ChrdevInvariant, PTL

(* A driver crashes, and releases what it does not hold, only after the      *)
(* failures and the missing policies that the property names.                *)
THEOREM CrashesAreExplained == Spec => []CrashesExplained
<1>1. ChrdevInv => CrashesExplained
    <2> SUFFICES ASSUME ChrdevInv PROVE CrashesExplained
        OBVIOUS
    <2>1. driver \in Names
        BY DriversAssumption DEF ChrdevInv, TypeOK
    <2>2. QED
        BY <2>1 DEF ChrdevInv, CpuhpInv, SmcInv, DevfreqInv, CpufreqInv, CrashesExplained
<1>2. QED
    BY <1>1, ChrdevInvariant, PTL
=============================================================================
