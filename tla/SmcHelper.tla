----------------------------- MODULE SmcHelper -----------------------------
(***************************************************************************)
(* smc_helper.c and its command line client utils/smc.c: a write makes one *)
(* secure monitor call and queues its result, a read takes results from    *)
(* the queue.  All users of the device share the one queue.                *)
(*                                                                         *)
(* A call is named by a number, which is also its result.  A client runs   *)
(* smc again and again; a run makes at most one call and is named by it.   *)
(* Through stdio, fwrite of the command keeps it in the FILE's buffer,     *)
(* fread first writes it out and then asks for a whole block of results.   *)
(*                                                                         *)
(* An operator whose name ends in Faulty is its neighbour with a plausible *)
(* slip in it; no behaviour uses it.                                       *)
(***************************************************************************)
EXTENDS Naturals, Sequences

CONSTANTS
    Clients,
    Block,     \* the results that fit in the block fread asks for
    MaxCalls   \* bound: calls made in a behaviour

ASSUME BlockAssumption == Block \in Nat \ {0}
ASSUME CallsAssumption == MaxCalls \in Nat

Calls == 1 .. MaxCalls

VARIABLES
    cmdb_head,  \* the queue of results
    calls,      \* the secure monitor calls made so far
    pc,         \* each client: no run, result not queued yet, or before its read
    mine,       \* the call of each client's last run, 0 if it made none
    got,        \* what that run printed, as a set
    clean,      \* history: since its result was queued, no other run queued one
                \* and the queue has fitted in a block
    taken       \* history: which result was taken from the queue by which run

vars == <<cmdb_head, calls, pc, mine, got, clean, taken>>

TypeOK ==
    /\ cmdb_head \in Seq(Calls)
    /\ calls \in 0 .. MaxCalls
    /\ pc \in [Clients -> {"idle", "called", "queued"}]
    /\ mine \in [Clients -> 0 .. MaxCalls]
    /\ got \in [Clients -> SUBSET Calls]
    /\ clean \in [Clients -> BOOLEAN]
    /\ taken \subseteq Calls \X Calls

Init ==
    /\ cmdb_head = << >>
    /\ calls = 0
    /\ pc = [c \in Clients |-> "idle"]
    /\ mine = [c \in Clients |-> 0]
    /\ got = [c \in Clients |-> {}]
    /\ clean = [c \in Clients |-> FALSE]
    /\ taken = {}

-----------------------------------------------------------------------------
(* smc_write without memory: fread gives up before it reads. *)
AllocFails(c) ==
    /\ pc[c] = "idle"
    /\ mine' = [mine EXCEPT ![c] = 0]
    /\ got' = [got EXCEPT ![c] = {}]
    /\ UNCHANGED <<cmdb_head, calls, pc, clean, taken>>

(* smc_write up to the return from the secure monitor. *)
Call(c) ==
    /\ pc[c] = "idle" /\ calls < MaxCalls
    /\ calls' = calls + 1
    /\ mine' = [mine EXCEPT ![c] = calls + 1]
    /\ got' = [got EXCEPT ![c] = {}]
    /\ pc' = [pc EXCEPT ![c] = "called"]
    /\ UNCHANGED <<cmdb_head, clean, taken>>

(* list_add_tail under the mutex. *)
list_add_tailFaulty(i) == cmdb_head' = <<i>>
list_add_tail(i) == cmdb_head' = Append(cmdb_head, i)

EnqueueFaulty(c) ==
    /\ pc[c] = "called"
    /\ list_add_tail(0)
    /\ clean' = [d \in Clients |->
                    IF d = c THEN TRUE ELSE clean[d] /\ pc[d] # "queued"]
    /\ pc' = [pc EXCEPT ![c] = "queued"]
    /\ UNCHANGED <<calls, mine, got, taken>>
Enqueue(c) ==
    /\ pc[c] = "called"
    /\ list_add_tail(mine[c])
    /\ clean' = [d \in Clients |->
                    IF d = c THEN TRUE ELSE clean[d] /\ pc[d] # "queued"]
    /\ pc' = [pc EXCEPT ![c] = "queued"]
    /\ UNCHANGED <<calls, mine, got, taken>>

(* How many results one read takes: as many as there are and fit. *)
TakenByRead == IF Len(cmdb_head) <= Block THEN Len(cmdb_head) ELSE Block

(* Each result is copied to the start of the buffer, over the one before, so *)
(* the client sees the last; with none it sees the end of the file.          *)
CopiedFaulty(n) == IF n = 0 THEN {} ELSE {cmdb_head[1]}
Copied(n) == IF n = 0 THEN {} ELSE {cmdb_head[n]}

list_delFaulty(n) == cmdb_head' = cmdb_head
list_del(n) == cmdb_head' = SubSeq(cmdb_head, n + 1, Len(cmdb_head))

Read(c) ==
    /\ pc[c] = "queued"
    /\ got' = [got EXCEPT ![c] = Copied(TakenByRead)]
    /\ taken' = taken \cup {<<cmdb_head[k], mine[c]>> : k \in 1 .. TakenByRead}
    /\ list_del(TakenByRead)
    /\ clean' = [clean EXCEPT ![c] = @ /\ Len(cmdb_head) <= Block]
    /\ pc' = [pc EXCEPT ![c] = "idle"]
    /\ UNCHANGED <<calls, mine>>

(* A signal ends the run between its write and its read; it cannot interrupt *)
(* either.  The result stays in the queue.                                   *)
Killed(c) ==
    /\ pc[c] = "queued"
    /\ mine' = [mine EXCEPT ![c] = 0]
    /\ pc' = [pc EXCEPT ![c] = "idle"]
    /\ UNCHANGED <<cmdb_head, calls, got, clean, taken>>

Next == \E c \in Clients :
    AllocFails(c) \/ Call(c) \/ Enqueue(c) \/ Read(c) \/ Killed(c)

Spec == Init /\ [][Next]_vars

-----------------------------------------------------------------------------
(* Properties.                                                               *)

(* Results of runs that were killed stay in the queue in front of later ones *)
(* and nothing in a result says whose it is.  Because smc_read copies all it *)
(* takes to one place, a run still prints its own result or none, as long as *)
(* no other run queued a result before its read and the queue fits in a      *)
(* block.                                                                    *)
PrintsOwn ==
    \A c \in Clients : pc[c] = "idle" /\ clean[c] /\ mine[c] # 0 => got[c] \subseteq {mine[c]}

(* No result is taken from the queue by two runs. *)
TakenOnce == \A s, t \in taken : s[1] = t[1] => s = t

(* A result cannot get lost in the queue: a run that made its call and read  *)
(* nothing lost it to another run.                                           *)
EmptyMeansTaken ==
    \A c \in Clients : pc[c] = "idle" /\ mine[c] # 0 /\ got[c] = {} =>
        \E t \in taken : t[1] = mine[c] /\ t[2] # mine[c]
=============================================================================
