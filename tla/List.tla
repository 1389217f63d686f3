--------------------------------- MODULE List ---------------------------------
(***************************************************************************)
(* What the lists of algorithm/list promise: a sequence of at most max     *)
(* values, in the order foreach visits them, of which delete and modify    *)
(* take the first that is equal to the one they are given.                 *)
(***************************************************************************)
EXTENDS Naturals, Sequences, SequencesExt, Answers

CONSTANTS
    Data,      \* the values
    max,       \* the capacity given to list_init
    AtFront,   \* insert puts a value in front of the others, or behind them
    MemoryMayLack

VARIABLES
    there,     \* a list was made and is not destroyed
    contents,
    answer     \* what the last operation returned, and the values it visited

listSpecVars == <<there, contents, answer>>

ListSpecInit == there = FALSE /\ contents = <<>> /\ answer = Done(<<>>)

Create == ~there /\ there' = TRUE /\ contents' = <<>> /\ answer' = Done(<<>>)
Destroy == there /\ there' = FALSE /\ contents' = <<>> /\ answer' = Done(<<>>)

Insert(d) ==
    /\ there /\ Len(contents) < max
    /\ contents' = IF AtFront THEN <<d>> \o contents ELSE Append(contents, d)
    /\ answer' = Done(<<>>)
    /\ UNCHANGED there
InsertFails == there /\ (Len(contents) = max \/ MemoryMayLack) /\ answer' = Failed /\ UNCHANGED <<there, contents>>

(* The index of the first value equal to d, or 0.                            *)
First(d) == SelectInSeq(contents, LAMBDA e : e = d)

Delete(d) ==
    /\ there /\ contents' = IF First(d) = 0 THEN contents ELSE RemoveAt(contents, First(d))
    /\ answer' = IF First(d) # 0 THEN Done(<<>>) ELSE Failed
    /\ UNCHANGED there
Modify(old, new) ==
    /\ there /\ contents' = IF First(old) = 0 THEN contents ELSE ReplaceAt(contents, First(old), new)
    /\ answer' = IF First(old) # 0 THEN Done(<<>>) ELSE Failed
    /\ UNCHANGED there
Search(d) ==
    /\ there /\ answer' = IF First(d) # 0 THEN Done(<<d>>) ELSE Failed
    /\ UNCHANGED <<there, contents>>
Reversal == there /\ contents' = Reverse(contents) /\ answer' = Done(<<>>) /\ UNCHANGED there
Visit == there /\ answer' \in {Done(contents), Done(Reverse(contents))} /\ UNCHANGED <<there, contents>>

ListSpecNext ==
    \/ Create \/ Destroy \/ InsertFails \/ Reversal \/ Visit
    \/ \E d \in Data : Insert(d) \/ Delete(d) \/ Search(d) \/ \E new \in Data : Modify(d, new)

ListSpec == ListSpecInit /\ [][ListSpecNext]_listSpecVars
=============================================================================
