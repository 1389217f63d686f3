----------------------------- MODULE MCCpuHpQos -----------------------------
(* Instances of CpuHpQos for TLC. *)
EXTENDS CpuHpQos, TLC

\* Requests a careless client may send: below, inside, above and outside what
\* the machine has, a negative min, and a range with min > max.
AnyRequests == {<<0, 1>>, <<2, 2>>, <<2, 1>>, <<4, 4>>, <<-1, 2>>}

\* Every request the machine can meet.
MeetableRequests == {r \in (0 .. N) \X (1 .. NR_CPUS) : r[1] <= r[2]}
FewMeetableRequests == {<<0, 1>>, <<3, 3>>, <<2, 4>>}
AllCpusRequested == {<<N, N>>}

\* Loaded on a machine with all CPUs online, or with some of them offline.
AnyMask == SUBSET CPUs \ {{}}
ContiguousMasks == {0 .. n : n \in CPUs}
AllOnline == {CPUs}

\* Users are interchangeable.
UserSymmetry == Permutations(Users)
=============================================================================
