------------------------------- MODULE LinkStack -------------------------------
(***************************************************************************)
(* algorithm/stack/linkstack/linkstack.c: a stack in a list of nodes with  *)
(* a head node that holds no value.                                        *)
(***************************************************************************)
EXTENDS Naturals, Sequences, FiniteSets, Answers

CONSTANTS
    LsData,   \* the values pushed
    LsMax,    \* the capacity given to stack_init
    LsNodes,  \* the memory: nodes that malloc can return
    LsHead,   \* the head node
    LsNULL

ASSUME LinkStackAssumption == LsMax \in Nat /\ LsHead \notin LsNodes /\ LsNULL \notin LsNodes

VARIABLES
    lsMade,   \* none, live, crashed
    lsNext,   \* for each node, its successor
    lsValue,  \* for each node, its value
    lsUsed,   \* the nodes allocated
    len,      \* stack->len
    lsResult  \* what the last operation returned: its values, or failed

linkStackVars == <<lsMade, lsNext, lsValue, lsUsed, len, lsResult>>

(* The node that is k steps behind the head node.                            *)
Behind(k) ==
    LET node[i \in 0 .. k] == IF i = 0 THEN LsHead ELSE lsNext[node[i - 1]]
    IN  node[k]

LinkStackInit ==
    /\ lsMade = "none" /\ len = 0 /\ lsUsed = {} /\ lsResult = Done(<<>>)
    /\ lsNext = [n \in LsNodes \cup {LsHead} |-> LsNULL]
    /\ lsValue \in [LsNodes -> LsData]

(* stack_init has no return statement: its caller gets the stack, or a value *)
(* that is no pointer to one, and crashes at the first use.                  *)
ls_stack_init ==
    /\ lsMade = "none" /\ lsMade' \in {"live", "crashed"}
    /\ lsNext' = [lsNext EXCEPT ![LsHead] = LsNULL]
    /\ len' = 0 /\ lsResult' = Done(<<>>)
    /\ UNCHANGED <<lsValue, lsUsed>>

ls_stack_destory ==
    /\ lsMade = "live" /\ lsMade' = "none"
    /\ lsUsed' = lsUsed \ {Behind(k) : k \in 1 .. len}
    /\ len' = 0 /\ lsResult' = Done(<<>>)
    /\ UNCHANGED <<lsNext, lsValue>>

ls_stack_pushFaulty(d) ==
    /\ lsMade = "live"
    /\ \/ /\ len < LsMax
          /\ \E new \in LsNodes \ lsUsed :
                /\ lsNext' = [lsNext EXCEPT ![LsHead] = new, ![new] = new]
                /\ lsValue' = [lsValue EXCEPT ![new] = d]
                /\ lsUsed' = lsUsed \cup {new}
          /\ len' = len + 1 /\ lsResult' = Done(<<>>)
       \/ /\ len = LsMax \/ lsUsed = LsNodes
          /\ lsResult' = Failed
          /\ UNCHANGED <<lsNext, lsValue, lsUsed, len>>
    /\ UNCHANGED lsMade
ls_stack_push(d) ==
    /\ lsMade = "live"
    /\ \/ /\ len < LsMax
          /\ \E new \in LsNodes \ lsUsed :
                /\ lsNext' = [lsNext EXCEPT ![LsHead] = new, ![new] = lsNext[LsHead]]
                /\ lsValue' = [lsValue EXCEPT ![new] = d]
                /\ lsUsed' = lsUsed \cup {new}
          /\ len' = len + 1 /\ lsResult' = Done(<<>>)
       \/ /\ len = LsMax \/ lsUsed = LsNodes
          /\ lsResult' = Failed
          /\ UNCHANGED <<lsNext, lsValue, lsUsed, len>>
    /\ UNCHANGED lsMade

ls_stack_pop ==
    /\ lsMade = "live"
    /\ IF len = 0
       THEN lsResult' = Failed /\ UNCHANGED <<lsNext, lsUsed, len>>
       ELSE LET tmp == lsNext[LsHead]
            IN  /\ lsNext' = [lsNext EXCEPT ![LsHead] = lsNext[tmp]]
                /\ lsResult' = Done(<<lsValue[tmp]>>)
                /\ lsUsed' = lsUsed \ {tmp}
                /\ len' = len - 1
    /\ UNCHANGED <<lsMade, lsValue>>

ls_stack_foreach ==
    /\ lsMade = "live"
    /\ lsResult' = Done([k \in 1 .. len |-> lsValue[Behind(k)]])
    /\ UNCHANGED <<lsMade, lsNext, lsValue, lsUsed, len>>

LinkStackNext ==
    \/ ls_stack_init \/ ls_stack_destory \/ ls_stack_pop \/ ls_stack_foreach
    \/ \E d \in LsData : ls_stack_push(d)

LinkStackSpec == LinkStackInit /\ [][LinkStackNext]_linkStackVars

-----------------------------------------------------------------------------
(* The nodes behind the head are the stack, the top first, for as long as it *)
(* was made: every operation is one of the abstract stack, whatever nodes    *)
(* malloc returns and with whatever is left in them.                         *)
Linked == IF lsMade = "live" THEN [k \in 1 .. len |-> lsValue[Behind(len + 1 - k)]] ELSE <<>>
LinkAbstract == INSTANCE Stack WITH MemoryMayLack <- TRUE,
                                Data <- LsData, max <- LsMax, there <- lsMade = "live",
                                    contents <- Linked, answer <- lsResult
LinkImplementsStack == LinkAbstract!StackSpec
=============================================================================
