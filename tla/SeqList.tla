-------------------------------- MODULE SeqList --------------------------------
(***************************************************************************)
(* algorithm/list/seqlist/seqlist.c: a list in an array.                   *)
(***************************************************************************)
EXTENDS Integers, Sequences, FiniteSets, Answers

CONSTANTS
    SlData,    \* the values
    SlMax      \* the capacity given to list_init

ASSUME SeqListAssumption == SlMax \in Nat /\ SlData \subseteq Int

VARIABLES
    slMade,    \* list_init succeeded and list_destory was not called
    slBuf,     \* the array; calloc clears it
    slTop,     \* the number of values
    slResult   \* what the last operation returned, and the values it visited

seqListVars == <<slMade, slBuf, slTop, slResult>>
SlCells == 0 .. SlMax - 1

SeqListInit ==
    slMade = FALSE /\ slTop = 0 /\ slResult = Done(<<>>) /\ slBuf = [i \in SlCells |-> 0]

sl_list_init ==
    /\ ~slMade /\ slMade' = TRUE
    /\ slTop' = 0 /\ slBuf' = [i \in SlCells |-> 0] /\ slResult' = Done(<<>>)

sl_list_destory ==
    /\ slMade /\ slMade' = FALSE
    /\ slTop' = 0 /\ slResult' = Done(<<>>) /\ UNCHANGED slBuf

sl_list_insert(d) ==
    /\ slMade
    /\ IF slTop = SlMax
       THEN slResult' = Failed /\ UNCHANGED <<slBuf, slTop>>
       ELSE slBuf' = [slBuf EXCEPT ![slTop] = d] /\ slTop' = slTop + 1 /\ slResult' = Done(<<>>)
    /\ UNCHANGED slMade

(* The first index below top that holds d, or top.                           *)
IndexOf(d) ==
    LET found == {i \in 0 .. slTop - 1 : slBuf[i] = d}
    IN  IF found = {} THEN slTop ELSE CHOOSE i \in found : \A j \in found : i <= j

(* The values behind the deleted one move down by one.                       *)
sl_list_deleteFaulty(d) ==
    /\ slMade
    /\ LET i == IndexOf(d)
       IN  IF i = slTop
           THEN slResult' = Failed /\ UNCHANGED <<slBuf, slTop>>
           ELSE /\ slBuf' = [j \in SlCells |-> IF j \in i .. slTop - 3 THEN slBuf[j + 1] ELSE slBuf[j]]
                /\ slTop' = slTop - 1 /\ slResult' = Done(<<>>)
    /\ UNCHANGED slMade
sl_list_delete(d) ==
    /\ slMade
    /\ LET i == IndexOf(d)
       IN  IF i = slTop
           THEN slResult' = Failed /\ UNCHANGED <<slBuf, slTop>>
           ELSE /\ slBuf' = [j \in SlCells |-> IF j \in i .. slTop - 2 THEN slBuf[j + 1] ELSE slBuf[j]]
                /\ slTop' = slTop - 1 /\ slResult' = Done(<<>>)
    /\ UNCHANGED slMade

sl_list_modify(old, new) ==
    /\ slMade
    /\ IF IndexOf(old) = slTop
       THEN slResult' = Failed /\ UNCHANGED slBuf
       ELSE slBuf' = [slBuf EXCEPT ![IndexOf(old)] = new] /\ slResult' = Done(<<>>)
    /\ UNCHANGED <<slMade, slTop>>

sl_list_search(d) ==
    /\ slMade
    /\ slResult' = IF IndexOf(d) = slTop THEN Failed ELSE Done(<<d>>)
    /\ UNCHANGED <<slMade, slBuf, slTop>>

SlBelow == [k \in 1 .. slTop |-> slBuf[k - 1]]

sl_list_foreach == slMade /\ slResult' = Done(SlBelow) /\ UNCHANGED <<slMade, slBuf, slTop>>

SeqListNext ==
    \/ sl_list_init \/ sl_list_destory \/ sl_list_foreach
    \/ \E d \in SlData :
          sl_list_insert(d) \/ sl_list_delete(d) \/ sl_list_search(d) \/ \E new \in SlData : sl_list_modify(d, new)

SeqListSpec == SeqListInit /\ [][SeqListNext]_seqListVars

-----------------------------------------------------------------------------
(* The array below top is the list, in the order of the insertions: every    *)
(* operation does to it, and returns, what that of the abstract list does,   *)
(* at the limits of the array and with equal values in it.                   *)
SlAbstract == INSTANCE List WITH Data <- SlData, max <- SlMax, AtFront <- FALSE, MemoryMayLack <- FALSE,
                                 there <- slMade, contents <- SlBelow, answer <- slResult
SeqListIsList == SlAbstract!ListSpec
=============================================================================
