-------------------------- MODULE MCCompletionUaf --------------------------
(* An instance of CompletionUaf for TLC: two threads of one process and a    *)
(* second process read, and two heap addresses are reused among them.        *)
EXTENDS CompletionUaf, TLC

CONSTANTS r1, r2, r3, shared, single, a1, a2

TheReaders == {r1, r2, r3}
TheProcs == {shared, single}
TheProcOf == (r1 :> shared) @@ (r2 :> shared) @@ (r3 :> single)
TheAddrs == {a1, a2}
=============================================================================
