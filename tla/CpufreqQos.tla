------------------------------ MODULE CpufreqQos ------------------------------
(***************************************************************************)
(* kernel_module/qos/cpufreq-qos.c, the files of one CPU's device: each    *)
(* open file has two frequency requests in the policy that the CPU had when*)
(* it was opened, while cpufreq removes and creates policies.  Load and    *)
(* unload are in ChrdevLifecycle; open files keep the module in.           *)
(***************************************************************************)
EXTENDS Integers

CONSTANTS
    CpufreqUsers,  \* open files
    MaxPolicy      \* bound: policies are numbered 1 .. MaxPolicy

VARIABLES
    atLoad,       \* the policy that the CPU had at load, 0 if none
    pinnedPolicy, \* the policy of which the load got a reference, or 0
    cpuPolicy,    \* cpu_data->policy, 0 for NULL
    leaving,      \* a policy that was announced as removed and is still allocated, or 0
    created,      \* the number of policies so far
    freed,        \* the policies freed
    cfUser,       \* for each file: where it is, the policies of its requests, the one it writes with
    request,      \* for each file, the values of its two requests
    cfUsed        \* history: the freed policies that were used

cfVars == <<atLoad, pinnedPolicy, cpuPolicy, leaving, created, freed, cfUser, request, cfUsed>>

(* What a user writes: a value that is refused, the default, and another.    *)
CfValues == {-1, 0, 1}
Default == [lo |-> 0, hi |-> 1]
ClosedFile == [at |-> "closed", lo |-> 0, hi |-> 0, with |-> 0]

CpufreqTypeOK ==
    /\ {atLoad, pinnedPolicy, cpuPolicy, leaving, created} \subseteq 0 .. MaxPolicy
    /\ freed \cup cfUsed \subseteq 1 .. MaxPolicy
    /\ cfUser \in [CpufreqUsers -> [at : {"closed", "opening", "open", "writing", "crashed"},
                                    lo : 0 .. MaxPolicy, hi : 0 .. MaxPolicy, with : 0 .. MaxPolicy]]
    /\ request \in [CpufreqUsers -> [lo : CfValues, hi : CfValues]]

CpufreqInit ==
    /\ atLoad = 0 /\ pinnedPolicy = 0 /\ cpuPolicy = 0 /\ leaving = 0 /\ created = 0 /\ freed = {}
    /\ cfUser = [h \in CpufreqUsers |-> ClosedFile]
    /\ request = [h \in CpufreqUsers |-> Default]
    /\ cfUsed = {}

(* The module was loaded while the CPU had a policy, of which cpufreq_cpu_get*)
(* takes a reference.                                                        *)
cpufreq_cpu_getFaulty ==
    /\ created = 0 /\ created' = 1
    /\ cpuPolicy' = 1 /\ atLoad' = 1
    /\ UNCHANGED <<pinnedPolicy, leaving, freed, cfUser, request, cfUsed>>
cpufreq_cpu_get ==
    /\ created = 0 /\ created' = 1
    /\ cpuPolicy' = 1 /\ pinnedPolicy' = 1 /\ atLoad' = 1
    /\ UNCHANGED <<leaving, freed, cfUser, request, cfUsed>>

-----------------------------------------------------------------------------
(* perf_qos_adjust_notify.  A removal then waits for the last reference, so  *)
(* that a pinned policy stays allocated and no other one is made after it.   *)
CREATE_POLICY ==
    /\ cpuPolicy = 0 /\ leaving = 0 /\ created < MaxPolicy
    /\ created' = created + 1 /\ cpuPolicy' = created + 1
    /\ UNCHANGED <<atLoad, pinnedPolicy, leaving, freed, cfUser, request, cfUsed>>

REMOVE_POLICY ==
    /\ cpuPolicy # 0
    /\ cpuPolicy' = 0 /\ leaving' = cpuPolicy
    /\ UNCHANGED <<atLoad, pinnedPolicy, created, freed, cfUser, request, cfUsed>>

FreePolicy ==
    /\ leaving # 0 /\ leaving # pinnedPolicy
    /\ freed' = freed \cup {leaving} /\ leaving' = 0
    /\ UNCHANGED <<atLoad, pinnedPolicy, cpuPolicy, created, cfUser, request, cfUsed>>

-----------------------------------------------------------------------------
Uses(ps) == cfUsed' = cfUsed \cup (ps \cap freed)

(* cpu_freq_qos_open reads the pointer for each request; NULL is not looked  *)
(* for and crashes the process.  kzalloc failing changes nothing.            *)
cpu_freq_qos_open(h) ==
    /\ \/ /\ cfUser[h].at = "closed"
          /\ cfUser' = [cfUser EXCEPT ![h] = IF cpuPolicy = 0 THEN [ClosedFile EXCEPT !.at = "crashed"]
                                             ELSE [ClosedFile EXCEPT !.at = "opening", !.lo = cpuPolicy]]
       \/ /\ cfUser[h].at = "opening"
          /\ cfUser' = [cfUser EXCEPT ![h].at = IF cpuPolicy = 0 THEN "crashed" ELSE "open",
                                      ![h].hi = cpuPolicy]
    /\ request' = [request EXCEPT ![h] = Default]
    /\ UNCHANGED <<atLoad, pinnedPolicy, cpuPolicy, leaving, created, freed, cfUsed>>

cpu_freq_qos_close(h) ==
    /\ cfUser[h].at = "open"
    /\ cfUser' = [cfUser EXCEPT ![h] = ClosedFile]
    /\ Uses({cfUser[h].lo, cfUser[h].hi})
    /\ UNCHANGED <<atLoad, pinnedPolicy, cpuPolicy, leaving, created, freed, request>>

(* The read takes the targets of the policy of its first request.            *)
cpu_freq_qos_read(h) ==
    /\ cfUser[h].at = "open"
    /\ Uses({cfUser[h].lo})
    /\ UNCHANGED <<atLoad, pinnedPolicy, cpuPolicy, leaving, created, freed, cfUser, request>>

(* cpu_freq_qos_write reads the pointer first; a write of another size or    *)
(* at another position returns before that matters.                          *)
WriteBegins(h) ==
    /\ cfUser[h].at = "open" /\ cpuPolicy # 0
    /\ cfUser' = [cfUser EXCEPT ![h].at = "writing", ![h].with = cpuPolicy]
    /\ UNCHANGED <<atLoad, pinnedPolicy, cpuPolicy, leaving, created, freed, request, cfUsed>>

(* It updates both requests, which refuses negative values, under the lock of*)
(* the policy it has read, and refreshes that one.                           *)
freq_qos_update_request(old, new) == IF new < 0 THEN old ELSE new

cpu_freq_qos_write(h, lo, hi) ==
    /\ cfUser[h].at = "writing"
    /\ cfUser' = [cfUser EXCEPT ![h].at = "open", ![h].with = 0]
    /\ request' = [request EXCEPT ![h].lo = freq_qos_update_request(@, lo),
                                  ![h].hi = freq_qos_update_request(@, hi)]
    /\ Uses({cfUser[h].lo, cfUser[h].hi, cfUser[h].with})
    /\ UNCHANGED <<atLoad, pinnedPolicy, cpuPolicy, leaving, created, freed>>

CpufreqNext ==
    \/ cpufreq_cpu_get \/ CREATE_POLICY \/ REMOVE_POLICY \/ FreePolicy
    \/ \E h \in CpufreqUsers :
          \/ cpu_freq_qos_open(h) \/ cpu_freq_qos_close(h) \/ cpu_freq_qos_read(h) \/ WriteBegins(h)
          \/ \E lo, hi \in CfValues : cpu_freq_qos_write(h, lo, hi)

CpufreqSpec == CpufreqInit /\ [][CpufreqNext]_cfVars

-----------------------------------------------------------------------------
(* A file goes on using the policy it was opened with, and a write the one   *)
(* it has read, whatever the notifier does in between.  The reference that   *)
(* the load takes makes that safe for the policy the CPU had then, which is  *)
(* never used after it was freed: only policies created later are.           *)
PinnedPolicyIsSafe == atLoad \notin cfUsed
=============================================================================
