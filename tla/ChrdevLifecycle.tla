-------------------------- MODULE ChrdevLifecycle --------------------------
(***************************************************************************)
(* Loading and unloading of the kernel modules that make a character       *)
(* device: qos/cpuhp-qos.c, qos/cpufreq-qos.c, qos/devfreq-qos.c,          *)
(* smc/smc_helper.c and regulator_test/regulator_test.c.                   *)
(*                                                                         *)
(* A behaviour loads and unloads one of them again and again.  Each load is*)
(* one step: init runs to its end, or to the first call that fails, and    *)
(* then through its error path.  What the kernel holds for the module is a *)
(* set of resources, each with the load that acquired it, because the      *)
(* module's own variables are new in each load and what an earlier one left*)
(* behind is out of its reach.                                             *)
(*                                                                         *)
(* cpufreq-qos.c also keeps a policy pointer per CPU, which the kernel's   *)
(* policy notifier sets and clears while the module is loaded.             *)
(*                                                                         *)
(* An operator whose name ends in Faulty is its neighbour with a plausible *)
(* slip in it; no behaviour uses it.                                       *)
(***************************************************************************)
EXTENDS Naturals

CONSTANTS
    Drivers,      \* the drivers to load
    Last,         \* the present CPUs are 0 .. Last
    NR_DEVFREQS,  \* minor numbers of devfreq-qos.c
    MaxLoads,     \* bound: loads
    MaxChanges    \* bound: policies created or removed

Names == {"cpuhp", "cpufreq", "devfreq", "smc", "regulator"}
ASSUME DriversAssumption == Drivers \subseteq Names
ASSUME SizesAssumption == Last \in Nat /\ NR_DEVFREQS \in Nat \ {0}
ASSUME BoundsAssumption == MaxLoads \in Nat /\ MaxChanges \in Nat

Present == 0 .. Last
Kinds == {"class", "region", "cdev", "node", "memory", "cpuhp", "thread", "notifier"}
Failures == Kinds \cup {"device"}  \* of which call, or that a device was not there
Calling == {"cdev", "cpuhp", "thread", "notifier"}  \* they run code of the module
Resources == [kind : Kinds, i : Nat, load : 1 .. MaxLoads]

VARIABLES
    driver,
    state,    \* the module: not loaded, loaded, or stuck because it crashed
    load,     \* the number of this load
    held,     \* what the kernel holds for the module, now and from before
    extra,    \* history: kinds of resources released without being held
    failed,   \* history: what has failed in any load
    kpolicy,  \* the CPUs for which the kernel has a cpufreq policy
    policy,   \* the CPUs whose cpu_data->policy is set
    pinned,   \* the policies of which cpufreq-qos.c holds a reference
    lacking,  \* history: the CPUs that were without a policy at some time
    changes   \* policies created or removed

policies == <<kpolicy, policy, pinned, lacking, changes>>
vars == <<driver, state, load, held, extra, failed, policies>>

TypeOK ==
    /\ driver \in Drivers
    /\ state \in {"out", "in", "stuck"}
    /\ load \in 0 .. MaxLoads
    /\ held \subseteq Resources
    /\ extra \subseteq Kinds \cup {"policy"}
    /\ failed \subseteq Failures
    /\ kpolicy \subseteq Present /\ policy \subseteq kpolicy /\ pinned \subseteq Present
    /\ lacking \subseteq Present
    /\ changes \in 0 .. MaxChanges

Init ==
    /\ driver \in Drivers
    /\ state = "out" /\ load = 0
    /\ held = {} /\ extra = {} /\ failed = {}
    /\ kpolicy \in SUBSET Present
    /\ policy = {} /\ pinned = {}
    /\ lacking = Present \ kpolicy
    /\ changes = 0

-----------------------------------------------------------------------------
(* Resources of load n: single ones have index 0. *)
Of(n, kinds) == [kind : kinds, i : {0}, load : {n}]
OfEach(n, I, kinds) == [kind : kinds, i : I, load : {n}]
Holds(kind) == [kind |-> kind, i |-> 0, load |-> load] \in held

(* insmod reports success or failure, and S is what is held then. *)
Loaded(S) == state' = "in" /\ held' = held \cup S
Failed(S) == state' = "out" /\ held' = held \cup S
Crashes == state' = "stuck" /\ UNCHANGED held  \* held says nothing after a crash

(* rmmod. *)
Unloads(S) ==
    /\ state' = "out"
    /\ held' = held \ S
    /\ extra' = extra \cup {r.kind : r \in S \ held}

(* A class of this name left by an earlier load makes class_create fail. *)
ClassLeft == \E r \in held : r.kind = "class"

-----------------------------------------------------------------------------
(* cpuhp-qos.c.  The error path after kthread_run does not stop the thread.  *)
(* When device_create fails its error is read after the pointer was cleared, *)
(* so the error path runs and 0 is returned.                                 *)
cpu_hp_drv_init(n, fail) ==
    LET left == IF fail \in {"class", "cpuhp", "thread"} THEN {} ELSE Of(n, {"thread"}) IN
    /\ fail \in {"none", "class", "cpuhp", "thread", "region", "memory", "cdev", "node"}
    /\ \/ /\ fail = "none"
          /\ Loaded(Of(n, {"class", "cpuhp", "thread", "region", "memory", "cdev", "node"}))
       \/ fail = "node" /\ Loaded(left)
       \/ fail \notin {"none", "node"} /\ Failed(left)
    /\ UNCHANGED <<extra, policies>>

cpu_hp_drv_exitFaulty ==
    /\ Unloads(Of(load, {"region"})
               \cup IF Holds("memory") THEN Of(load, {"node", "cdev", "memory", "class"}) ELSE {})
    /\ UNCHANGED policies
cpu_hp_drv_exit ==
    /\ Unloads(Of(load, {"region", "cpuhp"})
               \cup IF Holds("memory") THEN Of(load, {"node", "cdev", "memory", "class"}) ELSE {})
    /\ UNCHANGED policies

-----------------------------------------------------------------------------
(* cpufreq-qos.c.  The label FAIL, reached at CPU c, goes through all present*)
(* CPUs; cpufreq_cpu_put crashes at one without a policy, that is, at one    *)
(* that was not reached or for which the kernel has none.                    *)
FailAt(c, ret) ==
    IF c < Last \/ kpolicy # Present THEN Crashes
    ELSE IF ret = 0 THEN Loaded({}) ELSE Failed({})

cpu_freq_qos_drv_init(n, fail) ==
    /\ fail \in {"none", "class", "region", "notifier", "cdev", "node"}
    /\ \/ /\ fail = "none"
          /\ Loaded(Of(n, {"class", "region", "notifier"}) \cup OfEach(n, Present, {"cdev", "node"}))
          /\ policy' = kpolicy /\ pinned' = kpolicy
          /\ UNCHANGED extra
       \/ fail \in {"class", "region"} /\ Failed({}) /\ UNCHANGED <<extra, policy, pinned>>
       \/ /\ fail = "notifier"
          /\ Failed(Of(n, {"region"}))
          /\ extra' = extra \cup {"notifier"}
          /\ UNCHANGED <<policy, pinned>>
       \/ /\ fail \in {"cdev", "node"}
          /\ \E c \in Present : FailAt(c, IF fail = "node" THEN 0 ELSE 1)
          /\ UNCHANGED <<extra, policy, pinned>>
    /\ UNCHANGED <<kpolicy, lacking, changes>>

(* The region is looked up under the number of the last CPU, not of CPU 0.   *)
cpu_freq_qos_drv_exit ==
    IF policy # Present
    THEN Crashes /\ UNCHANGED <<extra, policies>>
    ELSE /\ state' = "out"
         /\ held' = held \ (Of(load, {"class", "notifier"} \cup IF Last = 0 THEN {"region"} ELSE {})
                            \cup OfEach(load, Present, {"cdev", "node"}))
         /\ extra' = IF pinned = Present THEN extra ELSE extra \cup {"policy"}
         /\ policy' = {} /\ pinned' = {}
         /\ UNCHANGED <<kpolicy, lacking, changes>>

(* The kernel removes or creates a policy and calls perf_qos_adjust_notify.  *)
(* The removal of a pinned policy waits for the reference: none is created   *)
(* for its CPU after that.                                                   *)
Notified == driver = "cpufreq" /\ state = "in" /\ Holds("notifier")

RemovePolicyFaulty(c) ==
    /\ c \in kpolicy /\ changes < MaxChanges
    /\ kpolicy' = kpolicy \ {c}
    /\ lacking' = lacking \cup {c}
    /\ changes' = changes + 1
    /\ UNCHANGED <<driver, state, load, held, extra, failed, policy, pinned>>
RemovePolicy(c) ==
    /\ c \in kpolicy /\ changes < MaxChanges
    /\ kpolicy' = kpolicy \ {c}
    /\ policy' = policy \ {c}
    /\ lacking' = lacking \cup {c}
    /\ changes' = changes + 1
    /\ UNCHANGED <<driver, state, load, held, extra, failed, pinned>>

CreatePolicy(c) ==
    /\ c \notin kpolicy \cup pinned /\ changes < MaxChanges
    /\ kpolicy' = kpolicy \cup {c}
    /\ policy' = IF Notified THEN policy \cup {c} ELSE policy
    /\ changes' = changes + 1
    /\ UNCHANGED <<driver, state, load, held, extra, failed, pinned, lacking>>

-----------------------------------------------------------------------------
(* devfreq-qos.c.  init tries each compatible; one that fails leaves nothing,*)
(* and registering stops before the last minor number.  A node for which the *)
(* kernel has no devfreq device crashes it: the error pointer is not NULL.   *)
(* A registered device's memory is never freed.                              *)
devfreq_qos_register_by_compatible(n, m) == OfEach(n, 0 .. m - 1, {"cdev", "node", "memory"})

dev_freq_qos_drv_initFaulty(n, fail) ==
    /\ fail \in {"none", "class", "region", "node", "device"}
    /\ \/ /\ fail \in {"none", "node"}
          /\ \E m \in 0 .. NR_DEVFREQS - 1 :
                Loaded(Of(n, {"class", "region"}) \cup devfreq_qos_register_by_compatible(n, m))
       \/ fail = "device" /\ Crashes
       \/ fail = "class" /\ Failed({})
       \/ fail = "region" /\ Failed(Of(n, {"class"}))
    /\ UNCHANGED <<extra, policies>>
dev_freq_qos_drv_init(n, fail) ==
    /\ fail \in {"none", "class", "region", "node", "device"}
    /\ \/ /\ fail \in {"none", "node"}
          /\ \E m \in 0 .. NR_DEVFREQS - 1 :
                Loaded(Of(n, {"class", "region"}) \cup devfreq_qos_register_by_compatible(n, m))
       \/ fail = "device" /\ Crashes
       \/ fail \in {"class", "region"} /\ Failed({})
    /\ UNCHANGED <<extra, policies>>

dev_freq_qos_drv_exit ==
    /\ Unloads(Of(load, {"class", "region"}) \cup {r \in held : r.load = load /\ r.kind \in {"cdev", "node"}})
    /\ UNCHANGED policies

-----------------------------------------------------------------------------
(* smc_helper.c.  The class stays when a later call fails.  device_create may*)
(* fail without consequences until exit, which finds the device by its node. *)
smc_helper_drv_init(n, fail) ==
    /\ fail \in {"none", "class", "region", "memory", "cdev", "node"}
    /\ \/ fail = "none" /\ Loaded(Of(n, {"class", "region", "memory", "cdev", "node"}))
       \/ fail = "node" /\ Loaded(Of(n, {"class", "region", "memory", "cdev"}))
       \/ fail = "class" /\ Failed({})
       \/ fail \in {"region", "memory", "cdev"} /\ Failed(Of(n, {"class"}))
    /\ UNCHANGED <<extra, policies>>

smc_helper_drv_exitFaulty ==
    /\ Unloads(Of(load, {"region", "class", "node", "cdev", "memory"}))
    /\ UNCHANGED policies
smc_helper_drv_exit ==
    /\ Unloads(Of(load, {"region", "class"})
               \cup IF Holds("node") THEN Of(load, {"node", "cdev", "memory"}) ELSE {})
    /\ UNCHANGED policies

(* regulator_test.c: the same, and without its node it may pass NULL to      *)
(* devm_regulator_get, which crashes if it finds the regulator.              *)
regulator_test_drv_init(n, fail) ==
    \/ smc_helper_drv_init(n, fail)
    \/ fail = "node" /\ Crashes /\ UNCHANGED <<extra, policies>>

regulator_test_drv_exit == smc_helper_drv_exit

-----------------------------------------------------------------------------
LoadModule(fail) ==
    LET n == load + 1 IN
    /\ state = "out" /\ load < MaxLoads
    /\ ClassLeft => fail = "class"
    /\ \/ driver = "cpuhp" /\ cpu_hp_drv_init(n, fail)
       \/ driver = "cpufreq" /\ cpu_freq_qos_drv_init(n, fail)
       \/ driver = "devfreq" /\ dev_freq_qos_drv_init(n, fail)
       \/ driver = "smc" /\ smc_helper_drv_init(n, fail)
       \/ driver = "regulator" /\ regulator_test_drv_init(n, fail)
    /\ load' = n
    /\ failed' = IF fail = "none" \/ ClassLeft THEN failed ELSE failed \cup {fail}
    /\ UNCHANGED driver

UnloadModule ==
    /\ state = "in"
    /\ \/ driver = "cpuhp" /\ cpu_hp_drv_exit
       \/ driver = "cpufreq" /\ cpu_freq_qos_drv_exit
       \/ driver = "devfreq" /\ dev_freq_qos_drv_exit
       \/ driver = "smc" /\ smc_helper_drv_exit
       \/ driver = "regulator" /\ regulator_test_drv_exit
    /\ UNCHANGED <<driver, load, failed>>

Next ==
    \/ \E fail \in Failures \cup {"none"} : LoadModule(fail)
    \/ UnloadModule
    \/ \E c \in Present : RemovePolicy(c) \/ CreatePolicy(c)

Spec == Init /\ [][Next]_vars

-----------------------------------------------------------------------------
(* Properties.                                                               *)

(* Nothing that runs code of the module is left when the module is gone.     *)
(* Exceptions: nobody ever stops core_ctl, and without its node the cdev of  *)
(* smc_helper.c and regulator_test.c is not found again.                     *)
NothingCallsBack ==
    state = "out" => \A r \in held : r.kind \in Calling =>
        \/ driver = "cpuhp" /\ r.kind = "thread"
        \/ driver \in {"smc", "regulator"} /\ r.kind = "cdev" /\ "node" \in failed

(* A load fails only because something fails in it; after a failed load of   *)
(* smc_helper.c or regulator_test.c no other can succeed, as the class stays.*)
ReloadPossible ==
    state = "out" /\ ClassLeft =>
        /\ driver \in {"smc", "regulator"}
        /\ failed \cap {"region", "memory", "cdev"} # {}

(* Loading and unloading crash only in the one driver whose clean-up needs a *)
(* policy for every CPU, and in the two that use a device they have not got; *)
(* nothing is released that is not held unless something failed in a load or *)
(* a policy came or went.                                                    *)
CrashesExplained ==
    /\ state = "stuck" =>
        \/ driver = "cpufreq" /\ (lacking # {} \/ failed \cap {"cdev", "node"} # {})
        \/ driver = "regulator" /\ "node" \in failed
        \/ driver = "devfreq" /\ "device" \in failed
    /\ extra # {} =>
        \/ driver = "cpuhp" /\ "node" \in failed
        \/ driver = "cpufreq" /\ (lacking # {} \/ "notifier" \in failed)

(* "Not fatal" (cpuhp-qos.c:319, cpufreq-qos.c:300): a module whose          *)
(* device_create failed is loaded and serves its device number.              *)
NotFatal ==
    state = "in" /\ failed \subseteq {"node"} /\ driver \in {"cpuhp", "cpufreq"} =>
        \E r \in held : r.kind = "cdev" /\ r.load = load
=============================================================================
