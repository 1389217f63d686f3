------------------------------- MODULE Answers -------------------------------
(* What an operation on a stack or list returns: 0 and the values it visits  *)
(* or stores through its pointer, or -1.                                     *)
Done(values) == [ok |-> TRUE, values |-> values]
Failed == [ok |-> FALSE, values |-> <<>>]
=============================================================================
