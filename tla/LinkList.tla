-------------------------------- MODULE LinkList --------------------------------
(***************************************************************************)
(* algorithm/list/single_linklist/single_linklist.c: a list of nodes behind*)
(* a head node that holds no value.                                        *)
(***************************************************************************)
EXTENDS Integers, Sequences, Answers

CONSTANTS
    LlData,   \* the values
    LlMax,    \* the capacity given to list_init
    LlNodes,  \* the memory: nodes that malloc can return
    LlHead,   \* the head node
    LlNULL

ASSUME LinkListAssumption == LlMax \in Nat /\ LlHead \notin LlNodes /\ LlNULL \notin LlNodes

VARIABLES
    llMade,   \* none, live, crashed
    llNext,   \* for each node, its successor
    llValue,  \* for each node, its value
    llUsed,   \* the nodes allocated
    llLen,    \* list->len
    llResult  \* what the last operation returned, and the values it visited

linkListVars == <<llMade, llNext, llValue, llUsed, llLen, llResult>>

(* The node that is k steps behind the head node, and the steps to the last. *)
LlBehind(k) ==
    LET node[i \in 0 .. k] == IF i = 0 THEN LlHead ELSE llNext[node[i - 1]]
    IN  node[k]

LinkListInit ==
    /\ llMade = "none" /\ llLen = 0 /\ llUsed = {} /\ llResult = Done(<<>>)
    /\ llNext = [n \in LlNodes \cup {LlHead} |-> LlNULL]
    /\ llValue \in [LlNodes -> LlData]

ll_list_init ==
    /\ llMade = "none" /\ llMade' = "live"
    /\ llNext' = [llNext EXCEPT ![LlHead] = LlNULL]
    /\ llLen' = 0 /\ llResult' = Done(<<>>)
    /\ UNCHANGED <<llValue, llUsed>>

LlChain == {LlBehind(k) : k \in 1 .. llLen}

ll_list_destory ==
    /\ llMade = "live" /\ llMade' = "none"
    /\ llUsed' = llUsed \ LlChain
    /\ llLen' = 0 /\ llResult' = Done(<<>>)
    /\ UNCHANGED <<llNext, llValue>>

(* The node is allocated first: a full list leaks it.                        *)
ll_list_insertFaulty(d) ==
    /\ llMade = "live"
    /\ \/ \E node \in LlNodes \ llUsed :
             /\ llUsed' = llUsed \cup {node}
             /\ llValue' = [llValue EXCEPT ![node] = d]
             /\ IF llLen > LlMax
                THEN llResult' = Failed /\ UNCHANGED <<llNext, llLen>>
                ELSE /\ llNext' = [llNext EXCEPT ![LlHead] = node, ![node] = llNext[LlHead]]
                     /\ llLen' = llLen + 1 /\ llResult' = Done(<<>>)
       \/ /\ llUsed = LlNodes
          /\ llResult' = Failed
          /\ UNCHANGED <<llNext, llValue, llUsed, llLen>>
    /\ UNCHANGED llMade
ll_list_insert(d) ==
    /\ llMade = "live"
    /\ \/ \E node \in LlNodes \ llUsed :
             /\ llUsed' = llUsed \cup {node}
             /\ llValue' = [llValue EXCEPT ![node] = d]
             /\ IF llLen >= LlMax
                THEN llResult' = Failed /\ UNCHANGED <<llNext, llLen>>
                ELSE /\ llNext' = [llNext EXCEPT ![LlHead] = node, ![node] = llNext[LlHead]]
                     /\ llLen' = llLen + 1 /\ llResult' = Done(<<>>)
       \/ /\ llUsed = LlNodes
          /\ llResult' = Failed
          /\ UNCHANGED <<llNext, llValue, llUsed, llLen>>
    /\ UNCHANGED llMade

(* The step at which d is found, or the step past the last node.             *)
StepTo(d) ==
    LET found == {k \in 1 .. llLen : llValue[LlBehind(k)] = d}
    IN  IF found = {} THEN llLen + 1 ELSE CHOOSE k \in found : \A j \in found : k <= j

(* The loop ends at the node before the one to delete; when there is none,   *)
(* that is the last node, which is not NULL, and its successor's successor   *)
(* is read through a null pointer.                                           *)
ll_list_delete(d) ==
    /\ llMade = "live"
    /\ IF StepTo(d) > llLen
       THEN llMade' = "crashed" /\ llLen' = 0 /\ llResult' = Done(<<>>) /\ UNCHANGED <<llNext, llUsed>>
       ELSE LET node == LlBehind(StepTo(d) - 1)
                tmp == llNext[node]
            IN  /\ llNext' = [llNext EXCEPT ![node] = llNext[tmp]]
                /\ llUsed' = llUsed \ {tmp}
                /\ llLen' = llLen - 1 /\ llResult' = Done(<<>>)
                /\ UNCHANGED llMade
    /\ UNCHANGED llValue

ll_list_modify(old, new) ==
    /\ llMade = "live"
    /\ IF StepTo(old) > llLen
       THEN llResult' = Failed /\ UNCHANGED llValue
       ELSE llValue' = [llValue EXCEPT ![LlBehind(StepTo(old))] = new] /\ llResult' = Done(<<>>)
    /\ UNCHANGED <<llMade, llNext, llUsed, llLen>>

ll_list_search(d) ==
    /\ llMade = "live"
    /\ llResult' = IF StepTo(d) > llLen THEN Failed ELSE Done(<<d>>)
    /\ UNCHANGED <<llMade, llNext, llValue, llUsed, llLen>>

(* Each node in turn becomes the first one.                                  *)
ll_list_reverse ==
    /\ llMade = "live"
    /\ LET step == [n \in LlChain |-> CHOOSE k \in 1 .. llLen : n = LlBehind(k)]
       IN  llNext' = [n \in LlNodes \cup {LlHead} |->
              IF n \in LlChain THEN IF step[n] = 1 THEN LlNULL ELSE LlBehind(step[n] - 1)
              ELSE IF n = LlHead /\ llLen > 0 THEN LlBehind(llLen)
              ELSE llNext[n]]
    /\ llResult' = Done(<<>>)
    /\ UNCHANGED <<llMade, llValue, llUsed, llLen>>

Values == [k \in 1 .. llLen |-> llValue[LlBehind(k)]]
Backwards == [k \in 1 .. llLen |-> llValue[LlBehind(llLen + 1 - k)]]

ll_list_foreach == llMade = "live" /\ llResult' = Done(Values) /\ UNCHANGED <<llMade, llNext, llValue, llUsed, llLen>>
list_foreach_reversingly ==
    llMade = "live" /\ llResult' = Done(Backwards) /\ UNCHANGED <<llMade, llNext, llValue, llUsed, llLen>>

LinkListNext ==
    \/ ll_list_init \/ ll_list_destory \/ ll_list_reverse \/ ll_list_foreach \/ list_foreach_reversingly
    \/ \E d \in LlData :
          ll_list_insert(d) \/ ll_list_delete(d) \/ ll_list_search(d) \/ \E new \in LlData : ll_list_modify(d, new)

LinkListSpec == LinkListInit /\ [][LinkListNext]_linkListVars

-----------------------------------------------------------------------------
(* The nodes behind the head are the list, the newest value first: every     *)
(* operation, with nodes reused in any order and leaked ones around, is one  *)
(* of the abstract list, until the deletion of a value that is not there ends*)
(* the program.                                                              *)
LlAbstract == INSTANCE List WITH Data <- LlData, max <- LlMax, AtFront <- TRUE, MemoryMayLack <- TRUE,
                                 there <- llMade = "live", contents <- Values, answer <- llResult
LinkListIsList == LlAbstract!ListSpec
=============================================================================
