------------------------------- MODULE SeqStack -------------------------------
(***************************************************************************)
(* algorithm/stack/seqstack/seqstack.c: a stack in an array.               *)
(***************************************************************************)
EXTENDS Integers, Sequences, Answers

CONSTANTS
    StackData,  \* the values pushed
    stackMax    \* the capacity given to stack_init

ASSUME SeqStackAssumption == stackMax \in Nat /\ StackData \subseteq Int

VARIABLES
    made,    \* stack_init succeeded and stack_destory was not called
    buf,     \* the array; calloc clears it
    top,     \* the index of the next value
    result   \* what the last operation returned: its values, or failed

seqStackVars == <<made, buf, top, result>>
Cells == 0 .. stackMax - 1

SeqStackInit ==
    /\ made = FALSE /\ top = 0 /\ result = Done(<<>>)
    /\ buf = [i \in Cells |-> 0]

stack_init ==
    /\ ~made /\ made' = TRUE
    /\ top' = 0 /\ buf' = [i \in Cells |-> 0] /\ result' = Done(<<>>)

stack_destory ==
    /\ made /\ made' = FALSE
    /\ top' = 0 /\ buf' = [i \in Cells |-> 0] /\ result' = Done(<<>>)

stack_isempty == top = 0
stack_isfull == top = stackMax

stack_push(d) ==
    /\ made
    /\ IF stack_isfull
       THEN result' = Failed /\ UNCHANGED <<buf, top>>
       ELSE buf' = [buf EXCEPT ![top] = d] /\ top' = top + 1 /\ result' = Done(<<>>)
    /\ UNCHANGED made

stack_popFaulty ==
    /\ made
    /\ IF stack_isempty
       THEN result' = Failed /\ UNCHANGED top
       ELSE top' = top - 1 /\ result' = Done(<<buf[top % stackMax]>>)
    /\ UNCHANGED <<made, buf>>
stack_pop ==
    /\ made
    /\ IF stack_isempty
       THEN result' = Failed /\ UNCHANGED top
       ELSE top' = top - 1 /\ result' = Done(<<buf[top - 1]>>)
    /\ UNCHANGED <<made, buf>>

stack_foreach ==
    /\ made /\ result' = Done([k \in 1 .. top |-> buf[top - k]])
    /\ UNCHANGED <<made, buf, top>>

SeqStackNext ==
    stack_init \/ stack_destory \/ (\E d \in StackData : stack_push(d)) \/ stack_pop \/ stack_foreach

SeqStackSpec == SeqStackInit /\ [][SeqStackNext]_seqStackVars

-----------------------------------------------------------------------------
(* The array below top is the stack: every operation does to it, and returns,*)
(* what the same operation of the abstract stack does, values left above top *)
(* by earlier pops notwithstanding.                                          *)
Below == [k \in 1 .. top |-> buf[k - 1]]
Abstract == INSTANCE Stack WITH MemoryMayLack <- FALSE,
                                Data <- StackData, max <- stackMax,
                                there <- made, contents <- Below, answer <- result
ImplementsStack == Abstract!StackSpec
=============================================================================
