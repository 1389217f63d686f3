-------------------------------- MODULE Stack --------------------------------
(***************************************************************************)
(* What the stacks of algorithm/stack promise: a stack of at most max      *)
(* values, whose operations tell whether they could be done.               *)
(***************************************************************************)
EXTENDS Naturals, Sequences, SequencesExt, Answers

CONSTANTS
    Data,   \* the values pushed
    max,    \* the capacity given to stack_init
    MemoryMayLack

VARIABLES
    there,     \* a stack was made and is not destroyed
    contents,  \* its values, the bottom first
    answer     \* what the last operation returned: its values, or failed

stackVars == <<there, contents, answer>>

StackInit == there = FALSE /\ contents = <<>> /\ answer = Done(<<>>)

Create == ~there /\ there' = TRUE /\ contents' = <<>> /\ answer' = Done(<<>>)
Destroy == there /\ there' = FALSE /\ contents' = <<>> /\ answer' = Done(<<>>)

Push(d) == there /\ Len(contents) < max /\ contents' = Append(contents, d) /\ answer' = Done(<<>>) /\ UNCHANGED there
Pop == there /\ contents # <<>> /\ contents' = Front(contents) /\ answer' = Done(<<Last(contents)>>) /\ UNCHANGED there
Visit == there /\ answer' = Done(Reverse(contents)) /\ UNCHANGED <<there, contents>>

(* A push fails when the stack is full or memory is; a pop when it is empty. *)
PushFails == there /\ (Len(contents) = max \/ MemoryMayLack) /\ answer' = Failed /\ UNCHANGED <<there, contents>>
PopFails == there /\ contents = <<>> /\ answer' = Failed /\ UNCHANGED <<there, contents>>

StackNext == Create \/ Destroy \/ (\E d \in Data : Push(d)) \/ Pop \/ Visit \/ PushFails \/ PopFails

StackSpec == StackInit /\ [][StackNext]_stackVars
=============================================================================
