# code_snippet in TLA+

TLA+ specifications of the components of this repository that keep state or
run concurrently, TLC configurations that model-check them on small instances,
and TLAPS proofs of the properties that matter most.

code_snippet is a collection: small Linux kernel modules with the programs that
exercise them, an RPC protocol over UDP, socket and system programs, and
algorithm and exam programs. Its parts hardly interact with each other. Each
interacts with something outside the repository: the kernel's CPU hotplug, the
scheduler, the firmware, a network. The models contain that other side only as
far as the code meets it; those definitions are marked `external` in
`PROJECT.json`.

## 1. Inventory

### Kernel modules (`src/kernel_module`)

| Component | State | Operations | What is hard | What makes it correct |
|---|---|---|---|---|
| `qos/cpuhp-qos.c` | range `min..max`, count of online CPUs, spinlock, thread `core_ctl` | write and read of the device; the loop of the thread; hotplug callbacks; load, unload | sleep against wake-up, decisions used after unlock, refused hotplug, sysfs hotplug | no lost wake-up, true count, whole reads, number of CPUs ends in the range |
| `completion/complete-uaf.c` | heap object with a pointer to a completion on the reader's stack; pending kill | read of the proc file; `completion_thread` | killed wait racing `complete()`; freed and reused memory | no write to a dead frame, no use of a freed object, the read returns |
| `qos/cpufreq-qos.c` | policy pointer per CPU; two requests per open file | open, close, read, write, policy notifier, load, unload | policy removed under open handles; half-failed open and write | requests live exactly as long as the handle |
| `qos/devfreq-qos.c` | min, max per device; two requests per open file; minor counter | open, close, read, write, registration | two writers share the device's fields; minor numbers | the last write's limits are those of one writer |
| `smc/smc_helper.c`, `smc/utils/smc.c` | one queue of results under a mutex | write (call), read; the `smc` program | all clients share the queue; killed clients leave results | a client gets its own result, each result once |
| `regulator_test/regulator_test.c` | as `smc_helper.c` | as `smc_helper.c` | the same | the same |
| `workqueue_test/work-test.c`, `unbond_test.c` | per-CPU timers, work items, threads | hotplug callbacks, timers, probes, unload | unload and hotplug racing timers and work | nothing runs after it was freed |
| `timer/timer-debugobject-test.c` | one timer, work items, stop flag | load, unload | work that arms the timer again | the timer is dead at unload |
| `sdei/sdei-test.c` | event, one completion per CPU | rounds of signalling with a time-out | an event later than its time-out | a round is completed by its own event, unless one of a timed-out wait is still outstanding or readers meet |
| `lockdep/lockdep-rwlock.c` | two rwlocks | timer handler, initialisation | lock order against an interrupt | no deadlock |
| `char_drv`, `hello`, `hw_breakpoint`, `backtrace`, `regrw_*` | one registration | load, unload | partial failure of load | what was registered is unregistered |
| `bh_test`, `rt-cfs-quota` | | | they do not compile | |

### User space

| Component | State | Operations | What is hard | What makes it correct |
|---|---|---|---|---|
| `rpc_intf` | client loop counter; server's `rq` and `clientaddr` | send, receive, run a command | UDP loses, duplicates and corrupts; return values ignored; uninitialised locals | answers belong to requests, clients finish |
| `socket/fpga_socket` | descriptor, static frame buffer | open, read, write in chunks | counts header bytes as payload, unsigned result of `send` | frames the link carries, each with its address |
| `socket/tcp`, `socket/udp` | buffers, descriptors | echo, select, epoll | short and merged reads, stale buffer, lost datagrams | a client gets back what it sent |
| `system_manager/service_monitor.c` | pid of the service | fork, wait, restart | failing fork | the service is pulled up again |
| `algorithm/*` | lists, stacks, trees | insert, delete, push, pop, sort, convert | empty, full, last element | they implement sequences and reference definitions |
| `exam/*` | none | pure functions | boundaries | reference definitions |
| `log`, `config_file`, `hook`, `hardware`, `linux_app`, `openssl_demo`, `init_example`, other socket samples | little or none | straight-line I/O | | |

`PROJECT.json` lists every part with its status, and under `hazards` each place
where something can go wrong that a test would hardly reach.

## 2. What is modelled

Conventions. A CONSTANT whose name begins with `Max` is a bound, checked in the
guard of the action it limits. A definition keeps the name of the C function it
stands for where it stands for a whole function. An operator ending in `Faulty`
is a plausible slip in the definition after it; no behaviour uses it, and
substituting it must break the property it is listed with.

### `CpuHpQos`: `kernel_module/qos/cpuhp-qos.c`

* `min`, `max`, `online_cpus`, `lock` are the fields of `cpuhp_stat`; `tpc`,
  `tstate` and `ctl` are where `core_ctl` is, its task state, and what
  `do_core_ctl` decided; `mask` and `hp` are the kernel's online mask and the
  hotplug operation in flight; `upc`, `buf` are the users.
* A write is `WriteMin`, `WriteMax` (two stores under the lock) and `WriteWake`
  (after the unlock); a read is `ReadMin` and `ReadMax`. Lengths and offsets
  that the code rejects change nothing and have no step.
* `try_core_ctl` is cut where the lock is taken or another task can get in
  between: `SetInterruptible`, `Check`, `Schedule`, `Relock`, then `do_core_ctl`
  with its snapshot and `CoreCtlCall` for `add_cpu` and `remove_cpu`.
* `cpufreq_hp_online` and `cpufreq_hp_offline` are the callbacks. `Start`,
  `HotplugDone`, `HotplugFails` and `AdminHotplug` are the kernel's part:
  operations are serial, one can be refused before or after the driver's
  callback (then the opposite callback runs), and sysfs can start one.
* `unsigned int` counts modulo `Word`. The conversions between `s32` and
  `unsigned int` are modelled, because a negative minimum becomes a huge one.

### `CompletionUaf`: `kernel_module/completion/complete-uaf.c`

* One index per call of `complete_uaf_test_proc_show` and its thread. `heap`
  maps addresses to the object allocated there, and addresses are reused;
  `done[r]` is the completion in r's stack frame.
* Reader: `Alloc`, `Spawn`, `WaitKillable`, `ReaderXchg`, `WaitFix`, and the two
  failures. Thread: `KillCaller`, `ThreadXchg`, `Complete`, `FreeWork`.
  `use_fix` is chosen at `Init`.
* What a reader finds in freed memory is nondeterministic; in memory that was
  allocated again it is the new owner's field.

### `RpcIntf`: `rpc_intf`

* `round` and `cpc` are each client's loop; `rq` and `addrlen` are the locals
  `rq` and `clientaddr.len` of the server, both uninitialised at `Init`; `net`
  is the bag of datagrams under way.
* `ClientSend` and `ClientRecv` are one turn of the client's loop, cut at the
  blocking `recv`; `ServerTurn` is one turn of the server's loop. Both go on
  when a receive fails, as the code does.
* `Lose`, `Duplicate` and `Corrupt` are UDP; a bag has no order, so reordering
  needs no action. A corrupted datagram fails the checksum; one that happens to
  keep it is left out.
* If the server goes on with an `rq` it never received, the length and the data
  pointer in it are arbitrary: it may crash, or send data of an arbitrary length
  (`wild`), which the client copies to a pointer it never set and may crash too.

### `SmcHelper`: `kernel_module/smc`

* `cmdb_head` is the queue of results, named by the number of the call that
  made them. `Call` and `Enqueue` are `smc_write` before and under the mutex;
  `Read` is `smc_read`, all of it under the mutex.
* A client is the `smc` program: it uses stdio, so its command is written when
  it first reads, and the read asks for a whole block (`Block`, 128 results in
  the code) although it wants one. `Killed` is a signal between the two system
  calls. `smc_read` copies all results to the start of the buffer, so the
  client prints the last one.

### `ChrdevLifecycle`: load and unload of five drivers

* `qos/cpuhp-qos.c`, `qos/cpufreq-qos.c`, `qos/devfreq-qos.c`,
  `smc/smc_helper.c` and `regulator_test/regulator_test.c`. A load is one step:
  init up to its end or to the first call that fails (`fail`), and then its
  error path. `held` is what the kernel holds for the module, each resource with
  the load that acquired it: a module's variables are new in each load, so what
  an earlier load left is out of reach.
* An unload releases what the exit function finds, which depends on what it
  looks resources up by: a pointer, the class, or a device number.
* For `cpufreq-qos.c`, `kpolicy` are the CPUs that have a cpufreq policy,
  `policy` those whose `cpu_data->policy` is set and `pinned` those whose policy
  the driver got a reference to. `RemovePolicy` and `CreatePolicy` are the kernel
  calling `perf_qos_adjust_notify`.
* Where the code passes NULL or an error pointer to a kernel function that uses
  it, the module is stuck (`Crashes`).

### `CpufreqQos` and `DevfreqQos`: open files of the QoS devices

* `CpufreqQos` is the device of one CPU. `cpuPolicy` is `cpu_data->policy`,
  which `CREATE_POLICY` and `REMOVE_POLICY` set and clear; `leaving` is a policy
  that the kernel has announced as removed and still waits to free. An open
  file (`cfUser`) remembers the policy each of its requests is in; a write
  remembers the one it read (`WriteBegins`) and uses it later. `pinnedPolicy` is
  the one the load has a reference to: `cpufreq_cpu_get` is never undone while
  the module is in.
* `DevfreqQos` is one device. A write is cut at its stores: the limits go into
  the device (`StoreLimits`), and the requests of the file are then made from
  there (`UpdateMin`, `UpdateMax`). The division by `HZ_PER_KHZ` is modelled,
  because -999 Hz is not refused.

### Test modules with timers, work items and interrupts

* `TimerTest` (`timer-debugobject-test.c`): a timer that arms itself, work items
  that arm it too, a stop flag that unload never sets.
* `SdeiTest` (`sdei-test.c`): readers go over the CPUs, each with one completion
  and one firmware event that can come after the time-out. Readers share the
  completions. The firmware delivers an event only while the handler is
  registered, and an unregistration fails while the handler runs. History
  variables follow each signal into the event that carries it (a pending event
  takes up further signals) and note who was alone on its CPU, whose reset found
  an event outstanding, and where a wait timed out.
* `LockdepRwlock` (`lockdep-rwlock.c`): load and timer handler, lock by lock; an
  interrupt on the CPU of the load stops it until the handler has ended.
* `WorkTest` (`work-test.c`): entries with timer, work item and thread; CPUs that
  come up while the entries are loaded and freed one by one. `WorkListing` is
  the seq_file of the same module, with buffers that may be full at any entry.
* `UnboundTest` (`unbond_test.c`): the same per CPU, with the probe on
  `workqueue_offline_cpu`, and hotplug that waits for the CPU lock which the
  load takes twice.

### Stacks and lists

`Stack` and `List` say what a stack and a list promise: a sequence, and the
answer of each operation (`Answers` is the shape of an answer). `SeqStack` and
`LinkStack`, `SeqList` and `LinkList` are the four implementations, and each maps
its variables to those of the abstract module by `INSTANCE ... WITH`: an array
and a counter, or a chain of nodes in a heap whose free nodes hold anything.
The code leaves the promise in one place: deleting a value that is not in the
linked list follows NULL. That state (`llMade = "crashed"`) is final, and the
mapping lets the list end there as if it were destroyed, so the refinement says
that every other operation keeps the promise.

### Programs

* `SortPrograms`, `ArrayPrograms` and `ExpressionPrograms` hold the programs that
  read their input and print a result. Each is an operator; a behaviour is one
  step that chooses the program and its input. `SortPrograms` is `sort.c` and the
  merge of `05_mergeArray.c`, written to be proved about: a loop is `Loop`, the
  function that applies the loop's body as often as the code does, and the
  recursion of `quick_sort` is a recursive function. `ArrayPrograms`, which
  extends it with the searches, and `ExpressionPrograms` use folds and RECURSIVE
  operators.
* `FpgaSocket`: `fpga_open`, `fpga_read`, and `fpga_write` with one step per
  chunk; a frame is its length, the part of the caller's buffer it carries, and
  whose address it has.
* `TcpEcho`: the server serves one connection after the other with one buffer;
  TCP hands over bytes in pieces of any size. `UdpEcho`: datagrams that are lost
  or delayed.
* `ServiceMonitor`: monitor, service, failing `fork` and `execl`, signals.

### Composition

The components share no state, so they are not composed with each other.
`ChrdevLifecycle` is the part of a driver's life around the part that the other
modules model: `CpuHpQos`, `SmcHelper`, `CpufreqQos` and `DevfreqQos` begin where
a load has succeeded. `MCKernelTests` and `MCUserland` put several small modules
side by side for TLC: the initial state chooses one, the others rest.

## 3. Runs

| Run | Instance | Question |
|---|---|---|
| `CpuHpQosSafety` | 3 CPUs, 2 users, 2 writes out of 5 ranges (impossible and negative ones included), any initial mask, 1 refusal, 1 sysfs operation | Is a wake-up lost, the count wrong, a read torn, and what kills the thread? |
| `CpuHpQosSettles` | the same without sysfs, ranges the machine can meet | Does the number of CPUs end in the last range with the thread asleep? |
| `CpuHpQosHoles` | 1 write, which asks for all 3 CPUs, 1 sysfs operation | Fails: see findings. |
| `CompletionUafFix` | 3 readers in 2 processes, 2 addresses, `use_fix` off and on | What does `use_fix` protect, and do reads return? |
| `CompletionUafGoodCase` | the same | Fails: see findings. |
| `RpcIntf` | 2 clients, 3 commands of which one is unknown, 1 loss, 1 duplicate, 1 corruption | What keeps answers in step, how often do commands run, who finishes? |
| `SmcHelper` | 3 clients, 5 calls, blocks of 2 results | Whose result does a run print, and is one lost or taken twice? |
| `ChrdevLifecycle` | 5 drivers, 3 loads, 2 CPUs, 3 minor numbers, any initial policies, 2 changes of policies | What does an unload leave behind, when can a load succeed again, what crashes? |
| `ChrdevNotFatal` | the same | Fails: see findings. |
| `KernelTests` | one of eight modules: 2 CPUs, 2 readers and 3 reads (`TimerTest`, `SdeiTest`); 3 entries over 2 CPUs, 2 CPUs coming up (`WorkTest`); 5 entries (`WorkListing`); 2 CPUs, 2 hotplug operations (`UnboundTest`); 2 files, 3 policies (`CpufreqQos`); 2 files, 2 writes (`DevfreqQos`) | What is quiet when it is freed, whose event completes a wait, whose limits and policies are used, are the locks released? |
| `Userland` | one of eleven: stacks of 2 and 3, lists of 2 and 3 nodes, all arrays of up to 4 values to sort and to search, all expressions of up to 4 numbers, all lines of up to 10 brackets, 12 frame lengths around the limits, 2 clients of each server, a monitor with 2 failures, stops and signals | Do the implementations keep the abstract promises, the algorithms their reference definitions, the servers their answers, the monitor its service? |
| `FpgaFrames` | 12 frame lengths around the limits | Fails: see findings. |

Why the bounds are enough. Two users suffice to tear a read or to have a
wake-up pending beside a check; two writes let a second range arrive while the
thread acts on the first. Three CPUs give a middle one, which is what makes
contiguity a question. Three readers give two threads of one process (so that
the kill meant for one interrupts the other) and one outside it; two addresses
make reuse happen while a third reader waits. One fault of each kind on the
network is enough to put answers out of step, and the gap in the known commands
is there as in `rpc_cmd_list`. Five calls and blocks of two make a queue longer
than a block, with results of killed runs in front. Three loads let a second
load meet what a failed or a finished one left and a third see the result; two
CPUs separate the last CPU from CPU 0, and a failure at the first CPU from one
at the last. Three policies of `cpufreq` let a file opened with the second meet
the third; two writes are the least that overlap. Two reads of `sdei-test.c` make
a late event, the third one a reader beside it; three entries of `work-test.c`
put two on one CPU. The frame lengths are the limits and their neighbours. A
list or a stack is filled, emptied and overfilled. The numbers 37 and 42, which
occur in expressions of up to 3 numbers, are the codes of `%` and `*`, which one of
the programs confuses with them. The properties that are
also proved hold without any of these bounds.

Symmetry is used only where there is no liveness property. A run checks at
most one type invariant; the types of the modules without one in a run are part
of the proofs (those with a `TypeCorrect` or a type in their invariant) or written in the module for the
reader.

Deadlock. `CpuHpQos` checks it. The others switch it off because their programs
end: all reads have returned, all clients are done or wait for a lost datagram,
all calls are made.

### Properties

`CpuHpQos`. `NoLostWakeup`: `core_ctl` never sleeps beside a violated range
unless a writer still has its wake-up to do. `OnlineCount`: the count is the
size of the mask, through refusals and roll-backs. `NeverTorn`: a read returns
one written pair. `OnlyImpossibleMinKillsThread`: `add_cpu` gets the number of
a CPU that does not exist only after such a minimum was written. `Contiguous`,
`CallsHaveEffect`: without sysfs the decision taken before the unlock is still
right after it. `Settles`: liveness of the loop.

`CompletionUaf`. `NoDeadFrame`: with `use_fix` the frame is there when
`complete()` writes to it. `ThreadOwnsWork`: the thread's object is its own
until it frees it. `SuccessMeansCompleted`: with `use_fix`, success follows
`complete()`. `ReadReturns`: a waiting read returns, unless another reader has
written to a freed object.

`RpcIntf`. `AnswersInStep`: loss and reordering alone cannot put answers out of
step with requests. `RepliesToAsker`: unless a datagram was corrupted, an
answer goes to a client that has sent that command. `RunsBounded`: how often a
command can run. `Finishes`: clients finish unless a datagram was lost, the
address length happened to start too small, or a corrupted datagram made a
program use uninitialised data.

`SmcHelper`. `PrintsOwn`: a run prints its own result or none as long as no
other run queued one before its read and the queue fits in a block, whatever
killed runs have left there. `TakenOnce`, `EmptyMeansTaken`: results are not
duplicated and not lost in the queue.

`ChrdevLifecycle`. `NothingCallsBack`: nothing that would run code of the module
(a character device, hotplug callbacks, a thread, a notifier) is left when the
module is gone, except the thread of `cpuhp-qos.c` and the character device of
a driver whose `device_create` failed; these exceptions are what the code does,
and they are why an unload there is not safe. `ReloadPossible`: only a failed
load of `smc_helper.c` or `regulator_test.c` leaves a class behind that makes
all later loads fail. `CrashesExplained`: a crash, or the release of something
not held, has one of the named causes.

`TimerTest.RearmingEnds`: nothing of the module is armed or queued after
`del_timer_sync`, unless a work item was left that nobody cancels.
`SdeiTest.OkIsOwnUnlessLate`: a wait that succeeds answers the signal of its own
round. The code does not keep this without exception, and the property names the
two: another reader was on the same CPU during the round (they share its
completion), or the event of an earlier wait was still outstanding when the round
reset the completion. In the second case the late event completes the new round,
and "sdei callback ok" answers the signal that timed out. The property also says
that such an event is left only where a wait has timed out, that one handled
before the reset is forgotten, and that in every case the handler of the CPU has
completed since the reset.
`LockdepRwlock.LocksReleased`: load and handler both end, wherever the interrupt
hits. `WorkTest.FreedEntryIsQuiet`: no timer, work item, thread or callback uses a
freed entry. `WorkListing.ListingMissesOnePerFullRead`: no entry is shown twice,
and each full buffer costs exactly one. `UnboundTest.OnlyProbeRequeues`: at the
end of unload only the forgotten probe can have queued items again.
`CpufreqQos.PinnedPolicyIsSafe`: the policy the load found is never used after it
was freed. `DevfreqQos.OwnLimitsUnlessMixed`: a file requests what its own writes
asked for, unless another write overlapped.

`StacksImplementStack`, `ListsImplementList`: the refinements. `SortsAgree`,
`SearchesFind`, `TreesKeepOrder`: results against reference definitions.
`NotationsAgree`: the expression programs agree on what an expression means, as far
as they do: value on the stack and value of the tree for expressions without `%`,
conversion of an infix expression that does not begin with a bracket, of one that
`expressionOperation` prints (behind another operand), printing where no number is
the code of an operator, brackets that nest no deeper than the stack. The variable
`ch`, which is not set at first, has every relevant value; the conversion is claimed
unless it holds a character that the first operator, or the end, tests. What the
programs do outside these conditions is not claimed to be right; see the end of
section 4. `FramesFit`: frames have lengths the link carries and stay in
both buffers. `EchoIsOwn`, `WaitingIsAnswered`: a client gets back its own bytes.
`PulledUpAgain`: liveness of the monitor unless a fork failed.

### Fairness

* `CpuHpQos`: weak fairness for the steps of a system call that has begun, for
  the thread's steps that need no lock and for the end of a hotplug operation:
  the scheduler runs runnable tasks. Strong fairness for the steps that take the
  spinlock: kernel spinlocks are queued, so a waiter gets its turn although
  others take the lock in between. Nobody is obliged to write, read or hotplug,
  and failures are never obliged to happen.
* `CompletionUaf`: weak fairness for a read that has begun and for its thread.
* `RpcIntf`: weak fairness for the clients and the server. The network is not
  obliged to lose, duplicate or corrupt; a datagram that is not lost waits in
  the socket buffer, so it arrives when it is read.
* `LockdepRwlock`: weak fairness for a load that has begun, for a timer that is
  armed and for the handler. No lock is contended again and again, so strong
  fairness is not needed.
* `ServiceMonitor`: weak fairness for the monitor and for the child before it
  has become the service. The service may run for ever.
* The other modules state no liveness.

## 4. Findings

* `CpuHpQosHoles`: `do_core_ctl` takes `online_cpus` for a CPU number
  (`cpuhp-qos.c:140`). In the run sysfs takes CPU 0 or CPU 1 of
  three offline, so that the count is 2, and all three are requested. The count
  then names CPU 2, which is still online: `add_cpu(2)` returns at once, and the
  loop goes round for ever without reaching the range, against "keep running until
  oneline cpu number is in min ~ max" (`cpuhp-qos.c:154`).
* `CompletionUafGoodCase`: with `use_fix` the reader still exchanges a pointer
  in the work object after the thread may have freed it (`complete-uaf.c:123`),
  against "There is no error." (`README.org:143-151`).
* `ChrdevNotFatal`: when `device_create` fails, `cpuhp-qos.c:323` overwrites the
  pointer it then takes the error from. The path marked "Not fatal"
  (`cpuhp-qos.c:319`) releases the character device and everything else but the
  thread, and load reports success.
* `FpgaFrames`: `do_write_fpga_ram` puts the address of a chunk into the frame
  and then copies the caller's buffer over it (`fpga_socket.c:111`), so that a
  frame after the first one has data or zeros where its address belongs,
  against "Caculate Data Address for every write" (`fpga_socket.c:98`).

Three more comments say more than the code does. The programs are run on all small
inputs, and `NotationsAgree` claims agreement only outside these cases:

* `expressionConvert.c:6` promises the conversion of infix expressions, but one that
  begins with a bracket ends in "Error!": after its closing bracket the stack is
  empty, and the stale `ch` is taken for a bracket (lines 81-97, 108-111).
* `algorithm/stack/app/bracketMatch.c:6` and `exam/haier/bracketMatch.c:5` promise
  the number of pairs of matching brackets, but beyond 16 open ones a push is lost,
  so that a matching line yields -1, and a line with too many opening brackets
  can be counted as matching.
* `postfixExpression.c:19` refers to `expressionOperation` for the same problem, but
  only the latter knows `%` (`main.c:87-89`, `114`): the former reports it as an
  unknown operator, leaves both operands on the stack and prints a value all the
  same. `expressionConvert.c` skips it too.

Other places where the code surprises are not findings, because nothing in the
repository says otherwise; they are stated as exceptions in the properties above,
and each at its line under `hazards` in `PROJECT.json`.

## 5. Proofs

The theorems hold for every value of the constants that satisfies the named
assumptions of the component's module. All invariants were also checked by TLC
as part of the runs where they are listed there.

**`CpuHpQosProofs`**: `TypeCorrect`, `WakeupNotLost`, `CountCorrect`,
`ReadsNotTorn`, `ThreadSurvives`, in this order, since each uses the ones before.
`NoLostWakeup` is inductive once types are known: whatever changes the range or
the count either wakes the thread or leaves a writer's wake-up pending.
`OnlineCount` needs that the CPU of a running
operation is in the mask (`InFlight`). `NeverTorn` is mutual exclusion
(`LockInv`): half a request is stored only while a writer holds the lock.
`ThreadSurvives` combines the count with the whole pair that `Decide` compared
it with. Assumptions: at least one CPU, `N <= NR_CPUS < Word \div 2`, requests
are pairs of `s32`, some CPU is online at load.

Two more theorems of this module have hypotheses, those of the run
`CpuHpQosSettles`. `StaysContiguous` assumes `OnlyCoreCtlHotplugs` (no sysfs
hotplug, and the first CPUs online at load): in the finding `CpuHpQosHoles` sysfs
makes the hole that it excludes. Its invariant `FirstOnes` follows the mask
through an operation whose notifier has run or not; `Chosen` says that the CPU the
thread holds in its hand is still the border of the mask. `CallsAreNotStale` also
assumes `OnlyMeetable`, every request has a minimum of at most the number of CPUs
and a maximum of at least one, compared as unsigned numbers as the code does; the
run `CpuHpQosSafety` has the ranges that break this and `ThreadSurvives` says what
they do. The range may change between decision and call; what must not change is
the count, and only the thread changes that.

`NumberComesNearer` is the safety half of `Settles`, also under `OnlyCoreCtlHotplugs`.
Between two rounds of its loop the thread has nothing begun that leads away from the
range; while the stored range stays as it is, what it begins leads towards it
(`Directed`), and each CPU counted makes the distance to the range
smaller, unless it belongs to a roll-back. A write between the decision and the callback
may make one operation lead away, which is why `min` and `max` are held fixed;
a range with `min > max` cannot be met and only keeps the direction.

**`CompletionUafProofs`**: `TypeCorrect`, `FrameAlive`, `WorkOwned`,
`SuccessTrue`, `WaitsAreServed`. The first four follow from one invariant. `OwnInv` says who owns each allocated object,
`StageInv` how the steps of a reader and of its thread are ordered, `FrameInv`
that a non-NULL pointer in an object is its owner's and that the owner is then
still before its exchange. The hard case is a reader that exchanges in memory
it does not own any more: it can only find or destroy the new owner's pointer,
and it never reaches its own frame again. `WaitsAreServed` is the safety half of
`ReadReturns`, under the same condition that no late exchange has robbed anybody:
its invariant `ServedInv` follows the pointer to the reader's frame from the object
into the thread's hands and from there to `complete()`, so that a reader in
either of its waits has its completion, its signal, or a thread that is about to
send one. Assumption: "NULL" and "nobody" are
not readers.

**`SmcHelperProofs`**: `TypeCorrect`, `OwnPrinted`, `ResultTakenOnce`,
`ResultNotLost`. The invariant follows every result through the one place it is
in (held by the run, queued once, or taken) and says that behind the result of
a run that is still clean there is nothing in the queue (`LastIsOwn`).
Assumptions: `Block` is positive, `MaxCalls` is a natural number.

**`KernelTestsProofs`**: the eight small kernel modules. `TimerStaysDeleted`: after
the proc file is gone nobody queues a work item. `NeverWaitForEachOther`:
the two locks of `lockdep-rwlock.c` exclude, and until load and handler are both done
one of them can go on: the load holds the spinlock only with interrupts off
and the handler only after it has interrupted (`LockInv`), so whoever has the spinlock
needs nothing more from the other than the end of a read. It is the safety half of
`LocksReleased`. `OkIsOwn`: the invariant
`CompletedSince` says that a completion which a reader could find done was
completed after that reader reset it; since the reset forgets for its own reader
only, it is the counter, which is reset for all, that makes it hold for readers
that share a completion. `OwnRound` follows the signal of a reader that is alone
on its CPU, from a reset that found no event, through the event to the completion.
`Awaited` counts: where no wait has timed out, the events and completions of a CPU
are no more than its waiting readers, so no event can stay behind. Readers are
assumed to be finitely many. `PolicyOfLoadIsSafe`: the policy of the load is the
pinned one, and what is freed was created before. `RequestsAreOwn`: until another
write overlaps, the device holds what the write stored there (`OwnOnTheWay`),
and between the two updates exactly the first request is new (`Halfway`).

`FreedEntriesStayQuiet`, `ProbeAloneRequeues`, `ListingMisses`: the unload of
`work-test.c` is safe because of its order: the
hotplug callbacks go first (`CallbacksGoFirst`), so that no CPU coming up can
rebind what `TakenDown` says is already stopped, cancelled or synchronised, entry
by entry. For `unbond_test.c` the invariant is that what belongs to an offline CPU
is quiet (`OfflineIsQuiet`) and how far the unload has come (`UnloadOrder`): the
forgotten probe is the one way round. The listing's invariant counts: as many
entries below the position are not listed (`Missed`) as reads were ended by a full
buffer. Assumptions: numbers of entries and bounds are natural, at least one CPU.

**`SortProofs`**: `ProgramsSort`, for arrays of every length up to `MaxArray` and
values up to `MaxValue`: the three sorts and the merge agree with the reference
definitions. Both are any natural numbers, so it holds for all arrays.

Induction is stated for the set of the numbers where something holds, so that it needs
no operator as a parameter, and shown by a least counterexample (`UpTo`); from it comes the rule for loops
(`LoopInvariant`), by which `bubble_sort`, `insert_sort`, `partition` and `mergeArray`
have their invariants (`PassInv`, `PassesInv`, `InsertInv`, `PartInv`, `MergeInv`). In `partition` what
moves is a hole, so `PartInv` is about the array with the pivot put back into
the hole. That a result has the same values is a permutation with its inverse
(`Rearranged`), which makes steps compose; that each value occurs as often is a
bijection between its places (`RearrangedBag`). Since `quick_sort` is a recursive
function whose definition only chooses one, `SorterExists` first shows that there is one,
and `SorterSorts` goes by the length of the range.

**`ChrdevLifecycleProofs`**: `TypeCorrect`, `NothingCalledBack`,
`ReloadsPossible`, `CrashesAreExplained`. One invariant per driver says exactly
which resources it can hold outside and inside a load, given which step failed;
the three properties follow from all of them. `CpufreqInv` needs `PoliciesInv`, that no
CPU is without a policy before one was seen to lack it, and that nothing is set
or pinned outside a load. Assumptions: the drivers are the five
named ones, there is a last CPU and a positive number of minors.

**`RpcIntfProofs`**: `TypeCorrect`, `AnswersAreInStep`, `RepliesGoToAsker`,
`RunsAreBounded`, `NobodyWaitsForNothing`. The network is a bag, so the module first proves what adding,
taking and replacing one datagram does to a bag and to the set of its copies; one
exchange of the server is a replacement. `AnswersInStep` is not inductive: it
needs `OneUnderWay`, that without duplicates and corruption each client has at
most one datagram under way, about its present round, and waits for it.
`AboutOwn` carries `RepliesToAsker` over requests, which become answers.
`RunsBounded` compares a counter with what clients have done; its invariant
`Accounted` adds the copies of a command still under way to its runs, so that a
run moves one from one term to the other, and a fault can add one only by raising
the counter of faults. `NobodyWaitsForNothing` is the safety half of `Finishes`, with
its hypothesis that `clientaddr.len` starts usable: until something is lost or crashes, a
client that waits has its request or an answer under way, through duplicates and
corrupted datagrams (`WaitingHasOne`), and nothing crashes before a datagram was
corrupted, because only then a program goes on with data that was never set
(`OnlySetData`). Assumptions: known commands are among `0 .. LastCmd`, the clients
are finitely many (else there is nothing to count), bounds are natural numbers.

**`UserlandProofs`**: four refinements, three invariants and one action property.

* `ArrayIsStack`: `SeqStack` implements `Stack`. `Below`, the part of the array
  under `top`, is the abstract stack; each operation is shown to be the abstract
  operation of the same name with the same answer. What earlier pops left above
  `top` does not matter, which is the point of the mapping.
* `ArrayIsList`: `SeqList` implements `List` in the same way. The extra work is
  the search: the code's index is the least one with the value (`IndexIsFirst`,
  which exists by well-foundedness of the naturals) and the abstract list's first
  occurrence is the same place (`FirstIsIndex`).
* `NodesAreStack`, `NodesAreList`: `LinkStack` implements `Stack` and `LinkList`
  implements `List`. Both mappings follow the `next` pointers (`Walk`, the recursive
  function of both modules). That it has, for every memory, the values its
  definition says (`WalkIsChain`) and that any record of the same steps agrees with it
  (`ChainIsWalk`) is shown by a least counterexample in place of induction. Then
  three lemmas about any memory say what a line becomes when a node is put in
  front (`PutInFront`), taken out (`TakeOut`) or all pointers are turned
  (`TurnRound`); the invariants say that the nodes of the structure are a line
  without repetition (`IsLine`) of allocated nodes. The list that is deleted from
  without the value being there ends the program, which the mapping shows as its end.
* `FramesAlwaysFit`: frame lengths and the place in the caller's buffer, for any
  set of frame lengths.
* `EchoesAreOwn`: the server has one buffer for all connections and never clears
  it, so the invariant must say whose bytes are in it. `OneServed`: at most
  one connection is served, and each waiting one is another. `HungUpIsOver`: a client that was
  hung up on waits for no connection, and if it is still served it reads no more.
  `NothingBetween`: what a client got, what is on the way to it, what is in the buffer
  and what is on the way to the server are together, in this order, what it typed; for
  one that was hung up on only the end is missing. The lemmas before it regroup concatenations.
* `WaitersAreAnswered`: `OneLineUnderWay` and `WaitingHasOne`, at most and at least
  one datagram for a client that waits.
* `EveryStepPullsUp`: the safety half of `PulledUpAgain`. An ended service is waited
  for, and each step of the monitor and its child brings the next run strictly nearer
  (`StepsToRun`), unless a `fork` or `execl` fails in it, whatever signals arrive.

Assumptions: capacities and buffer sizes are natural numbers, data of the array stack and
list are integers, the head node and NULL are no nodes `malloc` returns, lines are sequences of bytes.

Only model-checked:

* the liveness properties (`Settles`, `ReadReturns`, `Finishes`, `LocksReleased`,
  `PulledUpAgain`): the prover does not do liveness under fairness. Of each the safety
  half is proved (`NumberComesNearer`, `WaitsAreServed`, `NobodyWaitsForNothing`,
  `NeverWaitForEachOther`, `EveryStepPullsUp`): steps lead the right way, and
  nobody waits for what cannot come;
* `SearchesFind`, `NotationsAgree`, `TreesKeepOrder`: `ArrayPrograms` and
  `ExpressionPrograms` use RECURSIVE operators and folds over data, which the
  prover does not handle, so nothing that reaches them holds a theorem;
* what the violation runs refute.

## 6. Not modelled

In the components above: the loading of `complete-uaf.c`, and the opening and
binding of sockets (assumed to succeed); what runs while a driver is being
loaded or unloaded (a load and an unload are one step each); symbolic links in
sysfs; arguments the code rejects without
a change of state; bad user buffers (`-EFAULT`); memory the code never frees
(`smc_read` unlinks a result without freeing it, `complete-uaf.c` never drops a
pid reference); the byte layout and the checksum arithmetic of `rpc_intf`.

In the components added last: the kretprobe handlers of `work-test.c`, which only
print; `dev_freq_qos_read` (114-143), which changes nothing; `server_select.c` and
`server_epoll.c`, which receive and print; malformed expressions, and expressions
deep enough to fill the stacks of the converter; frames shorter than 60 bytes,
which the network does not deliver; SIGKILL of the monitor; `matrixMultiplication.c`.

Left out altogether: modules that do not compile (`bh_test`, `rt-cfs-quota`,
`server_fork.c`, `config_data.c`); programs that do straight-line I/O on devices
or sockets outside the repository and keep no state (`hardware`, the other
socket samples); text parsing and formatting.

## 7. Plan

Everything planned is modelled but the byte layout of `rpc_intf`, where no message
carries data. Every invariant of the runs whose module the prover can read is
proved, and so are the four refinements. Left for proofs: versions of the
searches and the expression programs with recursive functions in place of
RECURSIVE operators, as `SortPrograms` has them for the sorts.
