------------------------------ MODULE MCUserland ------------------------------
(***************************************************************************)
(* The programs outside the kernel for TLC: every behaviour is one of them,*)
(* chosen in the initial state, while the others rest in their own.        *)
(***************************************************************************)
EXTENDS SeqStack, LinkStack, SeqList, LinkList, ArrayPrograms, ExpressionPrograms,
        FpgaSocket, TcpEcho, UdpEcho, ServiceMonitor

VARIABLE program

MCQuitWord == <<"q", "t">>
MCTcpLines == {<<"q", "t", "n">>, <<"x", "n">>}

all == <<seqStackVars, linkStackVars, seqListVars, linkListVars, sortVars, arrayVars,
         expressionVars, fpgaVars, tcpVars, udpVars, monitorVars>>

Init ==
    /\ program \in {"seqstack", "linkstack", "seqlist", "linklist", "sorts", "arrays", "expressions",
                    "fpga", "tcp", "udp", "monitor"}
    /\ SeqStackInit /\ LinkStackInit /\ SeqListInit /\ LinkListInit /\ SortInit /\ ArrayInit /\ ExpressionInit
    /\ FpgaInit /\ TcpInit /\ UdpInit /\ MonitorInit
    \* what memory holds before it is allocated matters to its own program only
    /\ program = "linkstack" \/ \A n \in LsNodes : lsValue[n] = 1
    /\ program = "linklist" \/ \A n \in LlNodes : llValue[n] = 1

SeqStackRuns == program = "seqstack" /\ SeqStackNext
    /\ UNCHANGED <<program, linkStackVars, seqListVars, linkListVars, sortVars, arrayVars,
                   expressionVars, fpgaVars, tcpVars, udpVars, monitorVars>>
LinkStackRuns == program = "linkstack" /\ LinkStackNext
    /\ UNCHANGED <<program, seqStackVars, seqListVars, linkListVars, sortVars, arrayVars,
                   expressionVars, fpgaVars, tcpVars, udpVars, monitorVars>>
SeqListRuns == program = "seqlist" /\ SeqListNext
    /\ UNCHANGED <<program, seqStackVars, linkStackVars, linkListVars, sortVars, arrayVars,
                   expressionVars, fpgaVars, tcpVars, udpVars, monitorVars>>
LinkListRuns == program = "linklist" /\ LinkListNext
    /\ UNCHANGED <<program, seqStackVars, linkStackVars, seqListVars, sortVars, arrayVars,
                   expressionVars, fpgaVars, tcpVars, udpVars, monitorVars>>
Sorts == program = "sorts" /\ SortNext
    /\ UNCHANGED <<program, seqStackVars, linkStackVars, seqListVars, linkListVars, arrayVars,
                   expressionVars, fpgaVars, tcpVars, udpVars, monitorVars>>
Arrays_ == program = "arrays" /\ ArrayNext
    /\ UNCHANGED <<program, seqStackVars, linkStackVars, seqListVars, linkListVars, sortVars, expressionVars,
                   fpgaVars, tcpVars, udpVars, monitorVars>>
Expressions == program = "expressions" /\ ExpressionNext
    /\ UNCHANGED <<program, seqStackVars, linkStackVars, seqListVars, linkListVars, sortVars, arrayVars,
                   fpgaVars, tcpVars, udpVars, monitorVars>>
Fpga == program = "fpga" /\ FpgaNext
    /\ UNCHANGED <<program, seqStackVars, linkStackVars, seqListVars, linkListVars, sortVars, arrayVars,
                   expressionVars, tcpVars, udpVars, monitorVars>>
Tcp == program = "tcp" /\ TcpNext
    /\ UNCHANGED <<program, seqStackVars, linkStackVars, seqListVars, linkListVars, sortVars, arrayVars,
                   expressionVars, fpgaVars, udpVars, monitorVars>>
Udp == program = "udp" /\ UdpNext
    /\ UNCHANGED <<program, seqStackVars, linkStackVars, seqListVars, linkListVars, sortVars, arrayVars,
                   expressionVars, fpgaVars, tcpVars, monitorVars>>
Monitor == program = "monitor" /\ MonitorNext
    /\ UNCHANGED <<program, seqStackVars, linkStackVars, seqListVars, linkListVars, sortVars, arrayVars,
                   expressionVars, fpgaVars, tcpVars, udpVars>>

Next ==
    \/ SeqStackRuns \/ LinkStackRuns \/ SeqListRuns \/ LinkListRuns \/ Sorts \/ Arrays_ \/ Expressions
    \/ Fpga \/ Tcp \/ Udp \/ Monitor

Spec == Init /\ [][Next]_<<program, all>> /\ MonitorFairness

-----------------------------------------------------------------------------
(* Both stacks of algorithm/stack are the abstract stack, and both lists of  *)
(* algorithm/list the abstract list, under the mappings of their modules.    *)
StacksImplementStack == ImplementsStack /\ LinkImplementsStack
ListsImplementList == SeqListIsList /\ LinkListIsList
=============================================================================
