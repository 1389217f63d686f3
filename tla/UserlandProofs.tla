--------------------------- MODULE UserlandProofs ---------------------------
(***************************************************************************)
(* Proofs about the programs outside the kernel, for any frames, clients,  *)
(* lines, values and capacities.                                           *)
(***************************************************************************)
EXTENDS SeqStack, SeqList, LinkStack, LinkList, FpgaSocket, TcpEcho, UdpEcho, ServiceMonitor,
        SequenceTheorems, WellFoundedInduction, TLAPS

-----------------------------------------------------------------------------
(* algorithm/stack/seqstack implements the abstract stack.                  *)
SeqStackInv ==
    /\ made \in BOOLEAN
    /\ top \in 0 .. stackMax
    /\ buf \in [Cells -> Int]

LEMMA SeqStackInvInit == SeqStackInit => SeqStackInv
<1>1. [i \in Cells |-> 0] \in [Cells -> Int]
    OBVIOUS
<1>2. SeqStackInit => made \in BOOLEAN
    BY Zenon DEF SeqStackInit
<1>3. SeqStackInit => top \in 0 .. stackMax
    BY SeqStackAssumption DEF SeqStackInit
<1>4. QED
    BY <1>1, <1>2, <1>3 DEF SeqStackInit, SeqStackInv

LEMMA StackAnswers == Abstract!Failed = Failed /\ \A values : Abstract!Done(values) = Done(values)
BY DEF Abstract!Failed, Abstract!Done, Failed, Done

LEMMA SeqStackInvStep == SeqStackInv /\ [SeqStackNext]_seqStackVars => SeqStackInv'
<1> SUFFICES ASSUME SeqStackInv, [SeqStackNext]_seqStackVars PROVE SeqStackInv'
    OBVIOUS
<1> USE SeqStackAssumption DEF SeqStackInv
<1>1. CASE UNCHANGED seqStackVars
    BY <1>1 DEF seqStackVars
<1>2. CASE stack_init \/ stack_destory
    <2>1. made' \in BOOLEAN /\ top' = 0 /\ buf' = [i \in Cells |-> 0]
        BY <1>2 DEF stack_init, stack_destory
    <2>2. QED
        BY <2>1
<1>3. ASSUME NEW d \in StackData, stack_push(d) PROVE SeqStackInv'
    BY <1>3 DEF stack_push, stack_isfull, Cells
<1>4. CASE stack_pop
    BY <1>4 DEF stack_pop, stack_isempty
<1>5. CASE stack_foreach
    BY <1>5 DEF stack_foreach
<1>6. QED
    BY <1>1, <1>2, <1>3, <1>4, <1>5 DEF SeqStackNext

BelowIsSeq == Below \in Seq(Int) /\ Len(Below) = top /\ \A k \in 1 .. top : Below[k] = buf[k - 1]

LEMMA ArrayBelow == SeqStackInv => BelowIsSeq
BY SeqStackAssumption DEF SeqStackInv, BelowIsSeq, Below, Cells

LEMMA NothingBelow == top = 0 => Below = <<>>
BY DEF Below

LEMMA SeqStackStepIsStackStep ==
    SeqStackInv /\ [SeqStackNext]_seqStackVars => [Abstract!StackNext]_(Abstract!stackVars)
<1> SUFFICES ASSUME SeqStackInv, [SeqStackNext]_seqStackVars PROVE [Abstract!StackNext]_(Abstract!stackVars)
    OBVIOUS
<1> USE StackAnswers
<1>0. SeqStackInv'
    BY SeqStackInvStep
<1>a. /\ Below \in Seq(Int) /\ Len(Below) = top /\ \A k \in 1 .. top : Below[k] = buf[k - 1]
      /\ top \in 0 .. stackMax /\ stackMax \in Nat
    BY ArrayBelow, SeqStackAssumption DEF SeqStackInv, BelowIsSeq
<1>b. Below' \in Seq(Int) /\ Len(Below') = top' /\ \A k \in 1 .. top' : Below'[k] = buf'[k - 1]
    <2>1. BelowIsSeq'
        BY <1>0, ArrayBelow, PTL
    <2>2. QED
        BY <2>1 DEF BelowIsSeq
<1>1. CASE UNCHANGED seqStackVars
    BY <1>1 DEF seqStackVars, Abstract!stackVars, Below
<1>2. CASE stack_init
    <2>1. Below' = <<>>
        BY <1>2, <1>b DEF stack_init
    <2>2. Abstract!Create
        BY <1>2, <2>1 DEF stack_init, Abstract!Create
    <2>3. QED
        BY <2>2 DEF Abstract!StackNext
<1>3. CASE stack_destory
    <2>1. Below' = <<>>
        BY <1>3, <1>b DEF stack_destory
    <2>2. Abstract!Destroy
        BY <1>3, <2>1 DEF stack_destory, Abstract!Destroy
    <2>3. QED
        BY <2>2 DEF Abstract!StackNext
<1>4. ASSUME NEW d \in StackData, stack_push(d) PROVE Abstract!StackNext
    <2>1. CASE stack_isfull
        <3>1. Below' = Below
            BY <1>4, <2>1 DEF stack_push, Below
        <3>2. Abstract!PushFails
            BY <1>4, <2>1, <3>1, <1>a DEF stack_push, stack_isfull, Abstract!PushFails
        <3>3. QED
            BY <3>2 DEF Abstract!StackNext
    <2>2. CASE ~stack_isfull
        <3>1. top < stackMax /\ top' = top + 1 /\ buf' = [buf EXCEPT ![top] = d] /\ result' = Done(<<>>)
            BY <1>4, <2>2, <1>a DEF stack_push, stack_isfull
        <3>2. d \in Int
            BY SeqStackAssumption
        <3>3. Below' = Append(Below, d)
            <4>1. /\ Append(Below, d) \in Seq(Int) /\ Len(Append(Below, d)) = top + 1
                  /\ \A k \in 1 .. top : Append(Below, d)[k] = buf[k - 1]
                  /\ Append(Below, d)[top + 1] = d
                BY <1>a, <3>2, AppendProperties
            <4>2. \A k \in 1 .. top + 1 : buf'[k - 1] = IF k = top + 1 THEN d ELSE buf[k - 1]
                BY <3>1, <1>a DEF SeqStackInv, Cells
            <4>3. \A k \in 1 .. top + 1 : Below'[k] = Append(Below, d)[k]
                <5> TAKE k \in 1 .. top + 1
                <5>1. Below'[k] = buf'[k - 1]
                    BY <1>b, <3>1
                <5>2. QED
                    BY <1>a, <4>1, <4>2, <5>1
            <4>4. QED
                BY <1>b, <3>1, <4>1, <4>3, SeqEqual
        <3>4. Abstract!Push(d)
            BY <1>4, <1>a, <3>1, <3>3 DEF stack_push, Abstract!Push
        <3>5. QED
            BY <3>4 DEF Abstract!StackNext
    <2>3. QED
        BY <2>1, <2>2
<1>5. CASE stack_pop
    <2>1. CASE stack_isempty
        <3>1. Below' = Below /\ Below = <<>>
            BY <1>5, <2>1, <1>a DEF stack_pop, stack_isempty, Below
        <3>2. Abstract!PopFails
            BY <1>5, <2>1, <3>1 DEF stack_pop, Abstract!PopFails
        <3>3. QED
            BY <3>2 DEF Abstract!StackNext
    <2>2. CASE ~stack_isempty
        <3>1. top > 0 /\ top' = top - 1 /\ buf' = buf /\ result' = Done(<<buf[top - 1]>>)
            BY <1>5, <2>2, <1>a DEF stack_pop, stack_isempty
        <3>2. Below' = Abstract!Front(Below)
            <4>1. \A i \in 1 .. top - 1 : Below[i] \in Int
                BY <1>a, ElementOfSeq
            <4>2. /\ SubSeq(Below, 1, top - 1) \in Seq(Int) /\ Len(SubSeq(Below, 1, top - 1)) = top - 1
                  /\ \A k \in 1 .. top - 1 : SubSeq(Below, 1, top - 1)[k] = Below[k]
                BY <1>a, <3>1, <4>1, SubSeqProperties
            <4>3. \A k \in 1 .. top - 1 : Below'[k] = SubSeq(Below, 1, top - 1)[k]
                <5> TAKE k \in 1 .. top - 1
                <5>1. Below'[k] = buf'[k - 1]
                    BY <1>b, <3>1
                <5>2. QED
                    BY <1>a, <3>1, <4>2, <5>1
            <4>4. Below' = SubSeq(Below, 1, top - 1)
                BY <1>b, <3>1, <4>2, <4>3, SeqEqual
            <4>5. QED
                BY <4>4, <1>a DEF Abstract!Front
        <3>3. Abstract!Last(Below) = buf[top - 1]
            BY <1>a, <3>1 DEF Abstract!Last
        <3>4. Abstract!Pop
            BY <1>5, <1>a, <3>1, <3>2, <3>3 DEF stack_pop, Abstract!Pop
        <3>5. QED
            BY <3>4 DEF Abstract!StackNext
    <2>3. QED
        BY <2>1, <2>2
<1>6. CASE stack_foreach
    <2>1. Below' = Below
        BY <1>6 DEF stack_foreach, Below
    <2>2. [k \in 1 .. top |-> buf[top - k]] = Abstract!Reverse(Below)
        BY <1>a DEF Abstract!Reverse
    <2>3. Abstract!Visit
        BY <1>6, <2>1, <2>2 DEF stack_foreach, Abstract!Visit
    <2>4. QED
        BY <2>3 DEF Abstract!StackNext
<1>7. QED
    BY <1>1, <1>2, <1>3, <1>4, <1>5, <1>6 DEF SeqStackNext

(* seqstack.c: whatever is pushed and popped, and whatever earlier pops left *)
(* in the array above top, its operations do and return what those of the    *)
(* abstract stack do, and refuse when the abstract ones do.                  *)
THEOREM ArrayIsStack == SeqStackSpec => ImplementsStack
<1>1. SeqStackInit => Abstract!StackInit
    BY NothingBelow, StackAnswers DEF SeqStackInit, Abstract!StackInit
<1>2. QED
    BY <1>1, SeqStackInvInit, SeqStackInvStep, SeqStackStepIsStackStep, PTL
    DEF SeqStackSpec, ImplementsStack, Abstract!StackSpec

-----------------------------------------------------------------------------
(* algorithm/list/seqlist implements the abstract list.                      *)
SeqListInv ==
    /\ slMade \in BOOLEAN
    /\ slTop \in 0 .. SlMax
    /\ slBuf \in [SlCells -> Int]

LEMMA LeastExists ==
    ASSUME NEW T \in SUBSET Nat, T # {}
    PROVE  \E x \in T : \A y \in T : x <= y
<1>1. \E x \in T : \A y \in T : ~(<<y, x>> \in OpToRel(<, Nat))
    BY NatLessThanWellFounded, WFMin
<1>2. PICK x \in T : \A y \in T : ~(<<y, x>> \in OpToRel(<, Nat))
    BY <1>1
<1>3. ASSUME NEW y \in T PROVE x <= y
    <2>1. x \in Nat /\ y \in Nat
        OBVIOUS
    <2>2. <<y, x>> \in Nat \X Nat /\ (y < x => <<y, x>> \in OpToRel(<, Nat))
        BY <2>1 DEF OpToRel
    <2>3. ~(y < x)
        BY <1>2, <2>2
    <2>4. QED
        BY <2>1, <2>3
<1>4. QED
    BY <1>3

LEMMA ListAnswers == SlAbstract!Failed = Failed /\ \A values : SlAbstract!Done(values) = Done(values)
BY DEF SlAbstract!Failed, SlAbstract!Done, Failed, Done

(* Where d is first.                                                         *)
LEMMA IndexIsFirst ==
    ASSUME NEW d
    PROVE  slTop \in Nat =>
               \/ IndexOf(d) = slTop /\ \A i \in 0 .. slTop - 1 : slBuf[i] # d
               \/ /\ IndexOf(d) \in 0 .. slTop - 1 /\ slBuf[IndexOf(d)] = d
                  /\ \A i \in 0 .. IndexOf(d) - 1 : slBuf[i] # d
<1> SUFFICES ASSUME slTop \in Nat
             PROVE  \/ IndexOf(d) = slTop /\ \A i \in 0 .. slTop - 1 : slBuf[i] # d
                    \/ /\ IndexOf(d) \in 0 .. slTop - 1 /\ slBuf[IndexOf(d)] = d
                       /\ \A i \in 0 .. IndexOf(d) - 1 : slBuf[i] # d
    OBVIOUS
<1> DEFINE found == {i \in 0 .. slTop - 1 : slBuf[i] = d}
<1>1. IndexOf(d) = IF found = {} THEN slTop ELSE CHOOSE i \in found : \A j \in found : i <= j
    BY DEF IndexOf
<1>2. CASE found = {}
    BY <1>1, <1>2
<1>3. CASE found # {}
    <2>1. found \in SUBSET Nat
        OBVIOUS
    <2>2. \E i \in found : \A j \in found : i <= j
        BY <1>3, <2>1, LeastExists
    <2>3. IndexOf(d) \in found /\ \A j \in found : IndexOf(d) <= j
        BY <1>1, <1>3, <2>2
    <2>4. QED
        BY <2>3
<1>4. QED
    BY <1>2, <1>3

LEMMA SeqListInvInit == SeqListInit => SeqListInv
<1>1. [i \in SlCells |-> 0] \in [SlCells -> Int]
    OBVIOUS
<1>2. SeqListInit => slMade \in BOOLEAN
    BY Zenon DEF SeqListInit
<1>3. SeqListInit => slTop \in 0 .. SlMax
    BY SeqListAssumption DEF SeqListInit
<1>4. QED
    BY <1>1, <1>2, <1>3 DEF SeqListInit, SeqListInv

LEMMA SeqListInvStep == SeqListInv /\ [SeqListNext]_seqListVars => SeqListInv'
<1> SUFFICES ASSUME SeqListInv, [SeqListNext]_seqListVars PROVE SeqListInv'
    OBVIOUS
<1> USE SeqListAssumption DEF SeqListInv
<1>1. CASE UNCHANGED seqListVars
    BY <1>1 DEF seqListVars
<1>2. CASE sl_list_init \/ sl_list_destory
    <2>1. /\ slMade' \in BOOLEAN /\ slTop' = 0
          /\ slBuf' = [i \in SlCells |-> 0] \/ slBuf' = slBuf
        BY <1>2 DEF sl_list_init, sl_list_destory
    <2>2. QED
        BY <2>1
<1>3. ASSUME NEW d \in SlData, sl_list_insert(d) PROVE SeqListInv'
    BY <1>3 DEF sl_list_insert, SlCells
<1>4. ASSUME NEW d \in SlData, sl_list_delete(d) PROVE SeqListInv'
    <2>1. CASE IndexOf(d) = slTop
        BY <1>4, <2>1 DEF sl_list_delete
    <2>2. CASE IndexOf(d) # slTop
        <3>1. IndexOf(d) \in 0 .. slTop - 1
            BY <2>2, IndexIsFirst
        <3>2. /\ slBuf' = [j \in SlCells |-> IF j \in IndexOf(d) .. slTop - 2 THEN slBuf[j + 1] ELSE slBuf[j]]
              /\ slTop' = slTop - 1 /\ UNCHANGED slMade
            BY <1>4, <2>2 DEF sl_list_delete
        <3>3. slBuf' \in [SlCells -> Int]
            BY <3>1, <3>2 DEF SlCells
        <3>4. QED
            BY <3>1, <3>2, <3>3
    <2>3. QED
        BY <2>1, <2>2
<1>5. ASSUME NEW d \in SlData, NEW new \in SlData, sl_list_modify(d, new) PROVE SeqListInv'
    BY <1>5 DEF sl_list_modify
<1>6. ASSUME NEW d \in SlData, sl_list_search(d) PROVE SeqListInv'
    BY <1>6 DEF sl_list_search
<1>7. CASE sl_list_foreach
    BY <1>7 DEF sl_list_foreach
<1>8. QED
    BY <1>1, <1>2, <1>3, <1>4, <1>5, <1>6, <1>7 DEF SeqListNext

SlBelowIsSeq == SlBelow \in Seq(Int) /\ Len(SlBelow) = slTop /\ \A k \in 1 .. slTop : SlBelow[k] = slBuf[k - 1]

LEMMA ListBelow == SeqListInv => SlBelowIsSeq
BY SeqListAssumption DEF SeqListInv, SlBelowIsSeq, SlBelow, SlCells

(* The abstract list counts from one, and has 0 for nowhere.                 *)
LEMMA FirstIsIndex ==
    ASSUME SeqListInv, NEW d
    PROVE  \/ IndexOf(d) = slTop /\ SlAbstract!First(d) = 0
           \/ IndexOf(d) \in 0 .. slTop - 1 /\ SlAbstract!First(d) = IndexOf(d) + 1
<1> DEFINE I == {i \in 1 .. Len(SlBelow) : SlBelow[i] = d}
<1>1. SlAbstract!First(d) = IF I # {} THEN SlAbstract!Min(I) ELSE 0
    BY DEF SlAbstract!First, SlAbstract!SelectInSeq
<1>2. slTop \in Nat /\ Len(SlBelow) = slTop /\ \A k \in 1 .. slTop : SlBelow[k] = slBuf[k - 1]
    BY ListBelow, SeqListAssumption DEF SlBelowIsSeq, SeqListInv
<1>3. CASE IndexOf(d) = slTop
    <2>1. \A i \in 0 .. slTop - 1 : slBuf[i] # d
        BY <1>2, <1>3, IndexIsFirst
    <2>2. I = {}
        BY <1>2, <2>1
    <2>3. QED
        BY <1>1, <1>3, <2>2
<1>4. CASE IndexOf(d) # slTop
    <2>1. /\ IndexOf(d) \in 0 .. slTop - 1 /\ slBuf[IndexOf(d)] = d
          /\ \A i \in 0 .. IndexOf(d) - 1 : slBuf[i] # d
        BY <1>2, <1>4, IndexIsFirst
    <2>2. PICK n \in Nat : n = IndexOf(d) + 1
        BY <1>2, <2>1
    <2>3. n \in I /\ \A j \in I : n <= j
        <3>1. n \in 1 .. slTop /\ SlBelow[n] = d
            BY <1>2, <2>1, <2>2
        <3>2. ASSUME NEW j \in I PROVE n <= j
            <4>1. j \in 1 .. slTop /\ slBuf[j - 1] = d
                BY <1>2
            <4>2. ~(j - 1 \in 0 .. IndexOf(d) - 1)
                BY <2>1, <4>1
            <4>3. QED
                BY <1>2, <2>1, <2>2, <4>1, <4>2
        <3>3. QED
            BY <1>2, <3>1, <3>2
    <2>4. SlAbstract!Min(I) \in I /\ \A j \in I : SlAbstract!Min(I) <= j
        BY <2>3 DEF SlAbstract!Min
    <2>5. I \subseteq Nat
        BY <1>2
    <2> HIDE DEF I
    <2>6. PICK m \in Nat : m = SlAbstract!Min(I)
        BY <2>4, <2>5
    <2>7. m <= n /\ n <= m
        BY <2>3, <2>4, <2>6
    <2>8. SlAbstract!Min(I) = n
        BY <2>6, <2>7
    <2>9. QED
        BY <1>1, <2>1, <2>2, <2>3, <2>8
<1>5. QED
    BY <1>3, <1>4

LEMMA SeqListStepIsListStep ==
    SeqListInv /\ [SeqListNext]_seqListVars => [SlAbstract!ListSpecNext]_(SlAbstract!listSpecVars)
<1> SUFFICES ASSUME SeqListInv, [SeqListNext]_seqListVars PROVE [SlAbstract!ListSpecNext]_(SlAbstract!listSpecVars)
    OBVIOUS
<1> USE ListAnswers
<1>0. SeqListInv' /\ SlBelowIsSeq /\ SlBelowIsSeq'
    BY SeqListInvStep, ListBelow, PTL
<1>a. /\ SlBelow \in Seq(Int) /\ Len(SlBelow) = slTop /\ \A k \in 1 .. slTop : SlBelow[k] = slBuf[k - 1]
      /\ slTop \in 0 .. SlMax /\ SlMax \in Nat /\ slBuf \in [SlCells -> Int]
    BY <1>0, SeqListAssumption DEF SeqListInv, SlBelowIsSeq
<1>b. SlBelow' \in Seq(Int) /\ Len(SlBelow') = slTop' /\ \A k \in 1 .. slTop' : SlBelow'[k] = slBuf'[k - 1]
    BY <1>0 DEF SlBelowIsSeq
<1>1. CASE UNCHANGED seqListVars
    BY <1>1 DEF seqListVars, SlAbstract!listSpecVars, SlBelow
<1>2. CASE sl_list_init
    <2>1. SlBelow' = <<>>
        BY <1>2, <1>b DEF sl_list_init
    <2>2. SlAbstract!Create
        BY <1>2, <2>1 DEF sl_list_init, SlAbstract!Create
    <2>3. QED
        BY <2>2 DEF SlAbstract!ListSpecNext
<1>3. CASE sl_list_destory
    <2>1. SlBelow' = <<>>
        BY <1>3, <1>b DEF sl_list_destory
    <2>2. SlAbstract!Destroy
        BY <1>3, <2>1 DEF sl_list_destory, SlAbstract!Destroy
    <2>3. QED
        BY <2>2 DEF SlAbstract!ListSpecNext
<1>4. ASSUME NEW d \in SlData, sl_list_insert(d) PROVE SlAbstract!ListSpecNext
    <2>1. CASE slTop = SlMax
        <3>1. SlBelow' = SlBelow
            BY <1>4, <2>1 DEF sl_list_insert, SlBelow
        <3>2. SlAbstract!InsertFails
            BY <1>4, <2>1, <3>1, <1>a DEF sl_list_insert, SlAbstract!InsertFails
        <3>3. QED
            BY <3>2 DEF SlAbstract!ListSpecNext
    <2>2. CASE slTop # SlMax
        <3>1. slTop < SlMax /\ slTop' = slTop + 1 /\ slBuf' = [slBuf EXCEPT ![slTop] = d] /\ slResult' = Done(<<>>)
            BY <1>4, <2>2, <1>a DEF sl_list_insert
        <3>2. SlBelow' = Append(SlBelow, d)
            <4>1. /\ Append(SlBelow, d) \in Seq(Int) /\ Len(Append(SlBelow, d)) = slTop + 1
                  /\ \A k \in 1 .. slTop : Append(SlBelow, d)[k] = slBuf[k - 1]
                  /\ Append(SlBelow, d)[slTop + 1] = d
                BY <1>a, SeqListAssumption, AppendProperties
            <4>2. \A k \in 1 .. slTop + 1 : slBuf'[k - 1] = IF k = slTop + 1 THEN d ELSE slBuf[k - 1]
                BY <3>1, <1>a DEF SlCells
            <4>3. \A k \in 1 .. slTop + 1 : SlBelow'[k] = Append(SlBelow, d)[k]
                <5> TAKE k \in 1 .. slTop + 1
                <5>1. SlBelow'[k] = slBuf'[k - 1]
                    BY <1>b, <3>1
                <5>2. QED
                    BY <1>a, <4>1, <4>2, <5>1
            <4>4. QED
                BY <1>b, <3>1, <4>1, <4>3, SeqEqual
        <3>3. SlAbstract!Insert(d)
            BY <1>4, <1>a, <3>1, <3>2 DEF sl_list_insert, SlAbstract!Insert
        <3>4. QED
            BY <3>3 DEF SlAbstract!ListSpecNext
    <2>3. QED
        BY <2>1, <2>2
<1>5. ASSUME NEW d \in SlData, sl_list_delete(d) PROVE SlAbstract!ListSpecNext
    <2>1. CASE IndexOf(d) = slTop
        <3>1. SlBelow' = SlBelow
            BY <1>5, <2>1 DEF sl_list_delete, SlBelow
        <3>2. SlAbstract!First(d) = 0
            BY <1>a, <2>1, FirstIsIndex
        <3>3. SlAbstract!Delete(d)
            BY <1>5, <2>1, <3>1, <3>2 DEF sl_list_delete, SlAbstract!Delete
        <3>4. QED
            BY <3>3 DEF SlAbstract!ListSpecNext
    <2>2. CASE IndexOf(d) # slTop
        <3>1. PICK n \in 0 .. slTop - 1 : n = IndexOf(d) /\ SlAbstract!First(d) = n + 1
            BY <2>2, FirstIsIndex
        <3>2. /\ slBuf' = [j \in SlCells |-> IF j \in n .. slTop - 2 THEN slBuf[j + 1] ELSE slBuf[j]]
              /\ slTop' = slTop - 1 /\ slResult' = Done(<<>>)
            BY <1>5, <2>2, <3>1 DEF sl_list_delete
        <3>3. SlBelow' = SubSeq(SlBelow, 1, n) \o SubSeq(SlBelow, n + 2, slTop)
            <4> DEFINE front == SubSeq(SlBelow, 1, n)
                       back == SubSeq(SlBelow, n + 2, slTop)
            <4>1. \A i \in 1 .. slTop : SlBelow[i] \in Int
                BY <1>a, ElementOfSeq
            <4>2. front \in Seq(Int) /\ Len(front) = n /\ \A k \in 1 .. n : front[k] = slBuf[k - 1]
                BY <1>a, <4>1, SubSeqProperties
            <4>3. /\ back \in Seq(Int) /\ Len(back) = slTop - n - 1
                  /\ \A k \in 1 .. slTop - n - 1 : back[k] = slBuf[n + k]
                BY <1>a, <4>1, SubSeqProperties
            <4> HIDE DEF front, back
            <4>4. /\ front \o back \in Seq(Int) /\ Len(front \o back) = slTop - 1
                  /\ \A k \in 1 .. slTop - 1 : (front \o back)[k] = IF k <= n THEN front[k] ELSE back[k - n]
                <5>1. Len(front) + Len(back) = slTop - 1
                    BY <1>a, <4>2, <4>3
                <5>2. /\ front \o back \in Seq(Int) /\ Len(front \o back) = Len(front) + Len(back)
                      /\ \A k \in 1 .. Len(front) + Len(back) :
                            (front \o back)[k] = IF k <= Len(front) THEN front[k] ELSE back[k - Len(front)]
                    BY <4>2, <4>3, ConcatProperties
                <5>3. QED
                    BY <4>2, <5>1, <5>2
            <4>5. \A k \in 1 .. slTop - 1 : SlBelow'[k] = (front \o back)[k]
                <5> TAKE k \in 1 .. slTop - 1
                <5>1. SlBelow'[k] = slBuf'[k - 1]
                    BY <1>b, <3>2
                <5>2. slBuf'[k - 1] = IF k <= n THEN slBuf[k - 1] ELSE slBuf[k]
                    BY <1>a, <3>2 DEF SlCells
                <5>0. k \in Int /\ n \in Int /\ slTop \in Int
                    BY <1>a
                <5>3. CASE k <= n
                    BY <4>2, <4>4, <5>1, <5>2, <5>3
                <5>4. CASE ~(k <= n)
                    <6>1. k - n \in 1 .. slTop - n - 1 /\ n + (k - n) = k
                        BY <5>0, <5>4
                    <6>2. back[k - n] = slBuf[k]
                        BY <4>3, <6>1
                    <6>3. QED
                        BY <4>4, <5>1, <5>2, <5>4, <6>2
                <5>5. QED
                    BY <5>3, <5>4, Zenon
            <4>6. SlBelow' = front \o back
                BY <1>b, <3>2, <4>4, <4>5, SeqEqual
            <4>7. QED
                BY <4>6 DEF front, back
        <3>4. SlAbstract!RemoveAt(SlBelow, n + 1) = SubSeq(SlBelow, 1, n) \o SubSeq(SlBelow, n + 2, slTop)
            BY <1>a DEF SlAbstract!RemoveAt
        <3>5. SlAbstract!Delete(d)
            <4>1. SlAbstract!First(d) # 0 /\ SlBelow' = SlAbstract!RemoveAt(SlBelow, SlAbstract!First(d))
                <5>1. n + 1 # 0
                    BY <1>a
                <5>2. QED
                    BY <3>1, <3>3, <3>4, <5>1, Zenon
            <4>2. slMade /\ UNCHANGED slMade
                BY <1>5 DEF sl_list_delete
            <4>3. QED
                BY <3>2, <4>1, <4>2 DEF SlAbstract!Delete
        <3>6. QED
            BY <3>5 DEF SlAbstract!ListSpecNext
    <2>3. QED
        BY <2>1, <2>2
<1>6. ASSUME NEW d \in SlData, sl_list_search(d) PROVE SlAbstract!ListSpecNext
    <2>1. SlBelow' = SlBelow
        BY <1>6 DEF sl_list_search, SlBelow
    <2>2. IndexOf(d) = slTop <=> SlAbstract!First(d) = 0
        BY <1>a, FirstIsIndex
    <2>3. SlAbstract!Search(d)
        BY <1>6, <2>1, <2>2 DEF sl_list_search, SlAbstract!Search
    <2>4. QED
        BY <2>3 DEF SlAbstract!ListSpecNext
<1>7. ASSUME NEW d \in SlData, NEW new \in SlData, sl_list_modify(d, new) PROVE SlAbstract!ListSpecNext
    <2>1. CASE IndexOf(d) = slTop
        <3>1. SlBelow' = SlBelow
            BY <1>7, <2>1 DEF sl_list_modify, SlBelow
        <3>2. SlAbstract!First(d) = 0
            BY <1>a, <2>1, FirstIsIndex
        <3>3. SlAbstract!Modify(d, new)
            BY <1>7, <2>1, <3>1, <3>2 DEF sl_list_modify, SlAbstract!Modify
        <3>4. QED
            BY <3>3 DEF SlAbstract!ListSpecNext
    <2>2. CASE IndexOf(d) # slTop
        <3>1. PICK n \in 0 .. slTop - 1 : n = IndexOf(d) /\ SlAbstract!First(d) = n + 1
            BY <2>2, FirstIsIndex
        <3>2. slBuf' = [slBuf EXCEPT ![n] = new] /\ slTop' = slTop /\ slResult' = Done(<<>>)
            BY <1>7, <2>2, <3>1 DEF sl_list_modify
        <3>3. SlBelow' = [SlBelow EXCEPT ![n + 1] = new]
            <4>1. n + 1 \in 1 .. Len(SlBelow) /\ new \in Int
                BY <1>a, SeqListAssumption
            <4>2. /\ [SlBelow EXCEPT ![n + 1] = new] \in Seq(Int) /\ Len([SlBelow EXCEPT ![n + 1] = new]) = slTop
                  /\ \A k \in 1 .. slTop : [SlBelow EXCEPT ![n + 1] = new][k] = IF k = n + 1 THEN new ELSE SlBelow[k]
                BY <1>a, <4>1, ExceptSeq
            <4>3. \A k \in 1 .. slTop : SlBelow'[k] = IF k = n + 1 THEN new ELSE SlBelow[k]
                <5> TAKE k \in 1 .. slTop
                <5>1. SlBelow'[k] = slBuf'[k - 1]
                    BY <1>b, <3>2
                <5>2. slBuf'[k - 1] = IF k = n + 1 THEN new ELSE slBuf[k - 1]
                    BY <1>a, <3>2 DEF SlCells
                <5>3. QED
                    BY <1>a, <5>1, <5>2
            <4>4. QED
                BY <1>b, <3>2, <4>2, <4>3, SeqEqual
        <3>4. SlAbstract!Modify(d, new)
            BY <1>7, <3>1, <3>2, <3>3 DEF sl_list_modify, SlAbstract!Modify, SlAbstract!ReplaceAt
        <3>5. QED
            BY <3>4 DEF SlAbstract!ListSpecNext
    <2>3. QED
        BY <2>1, <2>2
<1>8. CASE sl_list_foreach
    <2>1. SlBelow' = SlBelow
        BY <1>8 DEF sl_list_foreach, SlBelow
    <2>2. SlAbstract!Visit
        BY <1>8, <2>1 DEF sl_list_foreach, SlAbstract!Visit
    <2>3. QED
        BY <2>2 DEF SlAbstract!ListSpecNext
<1>9. QED
    BY <1>1, <1>2, <1>3, <1>4, <1>5, <1>6, <1>7, <1>8 DEF SeqListNext

(* seqlist.c: its operations do and return what those of the abstract list   *)
(* do, with any values equal, at both ends of the array and when it is full. *)
THEOREM ArrayIsList == SeqListSpec => SeqListIsList
<1>1. SeqListInit => SlAbstract!ListSpecInit
    <2>1. slTop = 0 => SlBelow = <<>>
        BY DEF SlBelow
    <2>2. QED
        BY <2>1, ListAnswers DEF SeqListInit, SlAbstract!ListSpecInit
<1>2. QED
    BY <1>1, SeqListInvInit, SeqListInvStep, SeqListStepIsListStep, PTL
    DEF SeqListSpec, SeqListIsList, SlAbstract!ListSpec

-----------------------------------------------------------------------------
(* A walk along the successors, and a record of one.                         *)
Walk(next, first, k) ==
    LET node[i \in 0 .. k] == IF i = 0 THEN first ELSE next[node[i - 1]]
    IN  node[k]
IsChain(f, next, first, n) == f[0] = first /\ \A i \in 1 .. n : f[i] = next[f[i - 1]]

LEMMA BehindIsWalk == \A k : Behind(k) = Walk(lsNext, LsHead, k)
BY DEF Behind, Walk

LEMMA BehindIsWalkNext == \A k : Behind(k)' = Walk(lsNext', LsHead, k)
BY DEF Behind, Walk

LEMMA ChainIsWalk ==
    ASSUME NEW f, NEW next, NEW first, NEW n \in Nat, IsChain(f, next, first, n)
    PROVE  \A i \in 0 .. n : Walk(next, first, i) = f[i]
<1> SUFFICES ASSUME NEW k \in 0 .. n PROVE Walk(next, first, k) = f[k]
    OBVIOUS
<1> DEFINE Step(g) == [i \in 0 .. k |-> IF i = 0 THEN first ELSE next[g[i - 1]]]
           node == CHOOSE g : g = Step(g)
           sofar == [i \in 0 .. k |-> f[i]]
<1>1. Walk(next, first, k) = node[k]
    BY DEF Walk
<1>2. sofar = Step(sofar)
    <2>1. \A i \in 0 .. k : f[i] = IF i = 0 THEN first ELSE next[sofar[i - 1]]
        BY DEF IsChain
    <2>2. QED
        BY <2>1
<1>3. node = Step(node)
    BY <1>2
<1> HIDE DEF node
<1> DEFINE wrong == {i \in 0 .. k : node[i] # f[i]}
<1>4. wrong = {}
    <2> SUFFICES ASSUME wrong # {} PROVE FALSE
        OBVIOUS
    <2>1. PICK m \in wrong : \A j \in wrong : m <= j
        <3>1. wrong \in SUBSET Nat
            OBVIOUS
        <3> HIDE DEF wrong
        <3>2. QED
            BY <3>1, LeastExists
    <2>2. m \in 0 .. k /\ node[m] # f[m]
        BY <2>1
    <2>3. node[m] = IF m = 0 THEN first ELSE next[node[m - 1]]
        BY <1>3, <2>2
    <2>4. m # 0
        BY <2>2, <2>3 DEF IsChain
    <2>5. m - 1 \in 0 .. k /\ ~(m <= m - 1)
        BY <2>2, <2>4
    <2>6. node[m - 1] = f[m - 1]
        BY <2>1, <2>5
    <2>7. QED
        BY <2>2, <2>3, <2>4, <2>6 DEF IsChain
<1>5. k \in 0 .. k
    OBVIOUS
<1>6. QED
    BY <1>1, <1>4, <1>5

LEMMA WalkIsChain ==
    ASSUME NEW next, NEW first, NEW n \in Nat
    PROVE  /\ Walk(next, first, 0) = first
           /\ \A i \in 1 .. n : Walk(next, first, i) = next[Walk(next, first, i - 1)]
<1> DEFINE none == {k \in Nat : \A f : ~IsChain(f, next, first, k)}
<1>1. none = {}
    <2> SUFFICES ASSUME none # {} PROVE FALSE
        OBVIOUS
    <2>1. PICK m \in none : \A j \in none : m <= j
        <3>1. none \in SUBSET Nat
            OBVIOUS
        <3> HIDE DEF none
        <3>2. QED
            BY <3>1, LeastExists
    <2>2. m # 0
        <3>1. IsChain([i \in {0} |-> first], next, first, 0)
            BY DEF IsChain
        <3>2. QED
            BY <3>1, <2>1
    <2>3. m - 1 \in Nat /\ ~(m <= m - 1)
        BY <2>1, <2>2
    <2>4. PICK f : IsChain(f, next, first, m - 1)
        BY <2>1, <2>3
    <2> DEFINE g == [i \in 0 .. m |-> IF i = m THEN next[f[m - 1]] ELSE f[i]]
    <2>5. g[0] = first
        BY <2>1, <2>2, <2>4 DEF IsChain
    <2>6. ASSUME NEW i \in 1 .. m PROVE g[i] = next[g[i - 1]]
        <3>1. i - 1 \in 0 .. m /\ i - 1 # m /\ g[i - 1] = f[i - 1]
            BY <2>1, <2>3
        <3>2. CASE i = m
            BY <3>1, <3>2
        <3>3. CASE i # m
            <4>1. i \in 1 .. m - 1
                BY <2>1, <3>3
            <4>2. QED
                BY <2>4, <3>1, <3>3, <4>1 DEF IsChain
        <3>4. QED
            BY <3>2, <3>3
    <2>7. IsChain(g, next, first, m)
        BY <2>5, <2>6 DEF IsChain
    <2>8. QED
        BY <2>1, <2>7
<1>2. PICK f : IsChain(f, next, first, n)
    BY <1>1
<1>3. \A i \in 0 .. n : Walk(next, first, i) = f[i]
    BY <1>2, ChainIsWalk
<1>4. 0 \in 0 .. n /\ \A i \in 1 .. n : i \in 0 .. n /\ i - 1 \in 0 .. n
    OBVIOUS
<1>5. QED
    BY <1>2, <1>3, <1>4 DEF IsChain

(* The first n nodes behind first, and first itself, are different nodes.    *)
IsLine(next, first, n) ==
    /\ \A k \in 0 .. n : Walk(next, first, k) \in DOMAIN next
    /\ \A j, k \in 0 .. n : Walk(next, first, j) = Walk(next, first, k) => j = k

PutIn(next, first, new) == [next EXCEPT ![first] = new, ![new] = next[first]]
TakenOut(next, first, s) == [next EXCEPT ![Walk(next, first, s - 1)] = next[Walk(next, first, s)]]

(* A new node put behind first is the first one of the line.                 *)
LEMMA PutInFront ==
    ASSUME NEW next, NEW first, NEW n \in Nat, NEW new \in DOMAIN next, IsLine(next, first, n),
           \A k \in 0 .. n : Walk(next, first, k) # new,
           NEW next2, next2 = PutIn(next, first, new)
    PROVE  /\ Walk(next2, first, 1) = new
           /\ \A k \in 1 .. n : Walk(next2, first, k + 1) = Walk(next, first, k)
<1> DEFINE W(k) == Walk(next, first, k)
           f == [i \in 0 .. n + 1 |-> IF i = 0 THEN first ELSE IF i = 1 THEN new ELSE W(i - 1)]
<1>1. W(0) = first /\ \A i \in 1 .. n : W(i) = next[W(i - 1)]
    BY WalkIsChain
<1>2. first \in DOMAIN next /\ first # new
    <2>1. 0 \in 0 .. n
        OBVIOUS
    <2>2. QED
        BY <1>1, <2>1 DEF IsLine
<1>3. next2[first] = new /\ next2[new] = next[first] /\ \A x \in DOMAIN next \ {first, new} : next2[x] = next[x]
    BY <1>2 DEF PutIn
<1>4. ASSUME NEW i \in 1 .. n + 1 PROVE f[i] = next2[f[i - 1]]
    <2>1. CASE i = 1
        <3>1. f[i - 1] = first /\ f[i] = new
            BY <2>1
        <3>2. QED
            BY <1>3, <3>1
    <2>2. CASE i = 2
        <3>1. f[i - 1] = new /\ f[i] = W(1) /\ 1 \in 1 .. n
            BY <2>2
        <3>2. QED
            BY <1>1, <1>3, <3>1
    <2>3. CASE i > 2
        <3>1. /\ f[i - 1] = W(i - 2) /\ f[i] = W(i - 1)
              /\ i - 1 \in 1 .. n /\ i - 2 \in 0 .. n /\ i - 2 # 0 /\ (i - 1) - 1 = i - 2
            BY <2>3
        <3>2. W(i - 1) = next[W(i - 2)]
            BY <1>1, <3>1
        <3>3. W(i - 2) \in DOMAIN next \ {first, new}
            <4>1. 0 \in 0 .. n
                OBVIOUS
            <4>2. QED
                BY <1>1, <3>1, <4>1 DEF IsLine
        <3>4. QED
            BY <1>3, <3>1, <3>2, <3>3
    <2>4. QED
        BY <2>1, <2>2, <2>3
<1>5. IsChain(f, next2, first, n + 1)
    <2>1. f[0] = first
        OBVIOUS
    <2>2. QED
        BY <1>4, <2>1 DEF IsChain
<1>6. \A i \in 0 .. n + 1 : Walk(next2, first, i) = f[i]
    <2> HIDE DEF f
    <2>1. QED
        BY <1>5, ChainIsWalk
<1>7. ASSUME NEW k \in 1 .. n PROVE Walk(next2, first, k + 1) = W(k)
    <2>1. k + 1 \in 0 .. n + 1 /\ k + 1 # 0 /\ k + 1 # 1 /\ (k + 1) - 1 = k
        OBVIOUS
    <2>2. f[k + 1] = W(k)
        BY <2>1
    <2>3. QED
        BY <1>6, <2>1, <2>2
<1>8. 1 \in 0 .. n + 1 /\ f[1] = new
    OBVIOUS
<1>9. QED
    BY <1>6, <1>7, <1>8

(* The node s steps behind first is taken out.                               *)
LEMMA TakeOut ==
    ASSUME NEW next, NEW first, NEW n \in Nat, NEW s \in 1 .. n, IsLine(next, first, n),
           NEW next2, next2 = TakenOut(next, first, s)
    PROVE  \A k \in 1 .. n - 1 :
               Walk(next2, first, k) = Walk(next, first, IF k < s THEN k ELSE k + 1)
<1> DEFINE W(k) == Walk(next, first, k)
           f == [i \in 0 .. n - 1 |-> IF i < s THEN W(i) ELSE W(i + 1)]
<1>1. W(0) = first /\ \A i \in 1 .. n : W(i) = next[W(i - 1)]
    BY WalkIsChain
<1>2. s - 1 \in 0 .. n
    OBVIOUS
<1>3. next2[W(s - 1)] = next[W(s)] /\ \A x \in DOMAIN next \ {W(s - 1)} : next2[x] = next[x]
    BY <1>2 DEF IsLine, TakenOut
<1>4. \A k \in 0 .. n : k # s - 1 => next2[W(k)] = next[W(k)]
    BY <1>2, <1>3 DEF IsLine
<1>5. ASSUME NEW i \in 1 .. n - 1 PROVE f[i] = next2[f[i - 1]]
    <2>1. CASE i < s
        <3>1. f[i] = W(i) /\ f[i - 1] = W(i - 1) /\ i \in 1 .. n /\ i - 1 \in 0 .. n /\ i - 1 # s - 1
            BY <2>1
        <3>2. QED
            BY <1>1, <1>4, <3>1
    <2>2. CASE i = s
        <3>1. f[i] = W(s + 1) /\ f[i - 1] = W(s - 1) /\ s + 1 \in 1 .. n /\ (s + 1) - 1 = s
            BY <2>2
        <3>2. QED
            BY <1>1, <1>3, <3>1
    <2>3. CASE i > s
        <3>1. /\ f[i] = W(i + 1) /\ f[i - 1] = W(i) /\ i + 1 \in 1 .. n /\ (i + 1) - 1 = i
              /\ i \in 0 .. n /\ i # s - 1
            BY <2>3
        <3>2. QED
            BY <1>1, <1>4, <3>1
    <2>4. QED
        BY <2>1, <2>2, <2>3
<1>6. IsChain(f, next2, first, n - 1)
    <2>1. f[0] = first
        BY <1>1
    <2>2. QED
        BY <1>5, <2>1 DEF IsChain
<1>7. \A i \in 0 .. n - 1 : Walk(next2, first, i) = f[i]
    <2> HIDE DEF f
    <2>1. n - 1 \in Nat
        OBVIOUS
    <2>2. QED
        BY <1>6, <2>1, ChainIsWalk
<1>8. ASSUME NEW k \in 1 .. n - 1 PROVE Walk(next2, first, k) = Walk(next, first, IF k < s THEN k ELSE k + 1)
    <2>1. k \in 0 .. n - 1
        OBVIOUS
    <2>2. Walk(next2, first, k) = f[k]
        BY <1>7, <2>1
    <2>3. f[k] = W(IF k < s THEN k ELSE k + 1)
        BY <2>1
    <2>4. QED
        BY <2>2, <2>3
<1>9. QED
    BY <1>8

(* Every node points to the one that was before it, and first to the last.   *)
LEMMA TurnRound ==
    ASSUME NEW next, NEW first, NEW n \in Nat, IsLine(next, first, n), NEW next2,
           n > 0 => next2[first] = Walk(next, first, n),
           \A k \in 2 .. n : next2[Walk(next, first, k)] = Walk(next, first, k - 1)
    PROVE  \A k \in 1 .. n : Walk(next2, first, k) = Walk(next, first, n + 1 - k)
<1> DEFINE W(k) == Walk(next, first, k)
           f == [i \in 0 .. n |-> IF i = 0 THEN first ELSE W(n + 1 - i)]
<1>1. ASSUME NEW i \in 1 .. n PROVE f[i] = next2[f[i - 1]]
    <2>1. CASE i = 1
        <3>1. f[i] = W(n) /\ f[i - 1] = first /\ n > 0
            BY <2>1
        <3>2. QED
            BY <3>1
    <2>2. CASE i # 1
        <3>1. /\ f[i] = W(n + 1 - i) /\ f[i - 1] = W(n + 2 - i)
              /\ n + 2 - i \in 2 .. n /\ (n + 2 - i) - 1 = n + 1 - i
            <4>1. n + 1 - (i - 1) = n + 2 - i
                OBVIOUS
            <4>2. f[i - 1] = W(n + 1 - (i - 1))
                BY <2>2
            <4>3. QED
                BY <2>2, <4>1, <4>2
        <3>2. QED
            BY <3>1
    <2>3. QED
        BY <2>1, <2>2
<1>2. IsChain(f, next2, first, n)
    <2>1. f[0] = first
        OBVIOUS
    <2>2. QED
        BY <1>1, <2>1 DEF IsChain
<1>3. \A i \in 0 .. n : Walk(next2, first, i) = f[i]
    <2> HIDE DEF f
    <2>1. QED
        BY <1>2, ChainIsWalk
<1>4. QED
    BY <1>3

(* Changing the line keeps it one.                                           *)
LEMMA LineInFront ==
    ASSUME NEW next, NEW first, NEW n \in Nat, NEW new \in DOMAIN next, IsLine(next, first, n),
           \A k \in 0 .. n : Walk(next, first, k) # new,
           NEW next2, next2 = PutIn(next, first, new)
    PROVE  IsLine(next2, first, n + 1)
<1> DEFINE W(k) == Walk(next, first, k)
           V(k) == Walk(next2, first, k)
<1>1. /\ V(1) = new /\ \A k \in 1 .. n : V(k + 1) = W(k)
      /\ W(0) = first /\ V(0) = first
    <2>1. W(0) = first /\ V(0) = first
        BY WalkIsChain
    <2>2. V(1) = new /\ \A k \in 1 .. n : V(k + 1) = W(k)
        BY PutInFront
    <2>3. QED
        BY <2>1, <2>2
<1>2. /\ \A k \in 0 .. n : W(k) \in DOMAIN next
      /\ \A j, k \in 0 .. n : W(j) = W(k) => j = k
    BY DEF IsLine
<1>3. \A k \in 0 .. n : W(k) # new
    OBVIOUS
<1>4. DOMAIN next2 = DOMAIN next
    BY DEF PutIn
<1> HIDE DEF W, V
<1>5. \A k \in 0 .. n + 1 : k > 1 => k - 1 \in 1 .. n /\ (k - 1) + 1 = k
    OBVIOUS
<1>6. \A k \in 0 .. n + 1 : V(k) = IF k = 1 THEN new ELSE IF k = 0 THEN W(0) ELSE W(k - 1)
    <2> TAKE k \in 0 .. n + 1
    <2>1. CASE k > 1
        <3>1. V((k - 1) + 1) = W(k - 1)
            BY <1>1, <1>5, <2>1
        <3>2. QED
            BY <1>5, <2>1, <3>1
    <2>2. CASE k = 0 \/ k = 1
        BY <1>1, <2>2
    <2>3. QED
        BY <2>1, <2>2
<1>7. ASSUME NEW k \in 0 .. n + 1 PROVE V(k) \in DOMAIN next2
    <2>1. k = 1 \/ k = 0 \/ k - 1 \in 0 .. n
        OBVIOUS
    <2>2. 0 \in 0 .. n
        OBVIOUS
    <2>3. QED
        BY <1>2, <1>4, <1>6, <2>1, <2>2
<1>8. ASSUME NEW j \in 0 .. n + 1, NEW k \in 0 .. n + 1, V(j) = V(k) PROVE j = k
    <2> DEFINE at(i) == IF i = 0 THEN 0 ELSE i - 1
    <2>1. at(j) \in 0 .. n /\ at(k) \in 0 .. n
        OBVIOUS
    <2>2. /\ V(j) = IF j = 1 THEN new ELSE W(at(j))
          /\ V(k) = IF k = 1 THEN new ELSE W(at(k))
        BY <1>6
    <2>3. CASE j = 1 \/ k = 1
        BY <1>3, <1>8, <2>1, <2>2, <2>3
    <2>4. CASE j # 1 /\ k # 1
        <3>1. W(at(j)) = W(at(k))
            BY <1>8, <2>2, <2>4
        <3>2. at(j) = at(k)
            <4> HIDE DEF at
            <4>1. QED
                BY <1>2, <2>1, <3>1
        <3>3. QED
            BY <2>4, <3>2
    <2>5. QED
        BY <2>3, <2>4
<1>9. QED
    BY <1>7, <1>8 DEF IsLine, V

LEMMA LineTakenFrom ==
    ASSUME NEW next, NEW first, NEW n \in Nat, NEW s \in 1 .. n, IsLine(next, first, n),
           NEW next2, next2 = TakenOut(next, first, s)
    PROVE  IsLine(next2, first, n - 1)
<1> DEFINE W(k) == Walk(next, first, k)
           V(k) == Walk(next2, first, k)
           at(k) == IF k < s THEN k ELSE k + 1
<1>1. \A k \in 1 .. n - 1 : V(k) = W(at(k))
    BY TakeOut
<1>2. V(0) = W(0)
    BY WalkIsChain
<1>3. /\ \A k \in 0 .. n : W(k) \in DOMAIN next
      /\ \A j, k \in 0 .. n : W(j) = W(k) => j = k
    BY DEF IsLine
<1>4. DOMAIN next2 = DOMAIN next
    BY DEF TakenOut
<1>5. /\ \A k \in 0 .. n - 1 : at(k) \in 0 .. n
      /\ \A j, k \in 0 .. n - 1 : at(j) = at(k) => j = k
      /\ at(0) = 0
    OBVIOUS
<1> HIDE DEF W, V, at
<1>6. \A k \in 0 .. n - 1 : V(k) = W(at(k))
    <2>1. \A k \in 0 .. n - 1 : k = 0 \/ k \in 1 .. n - 1
        OBVIOUS
    <2>2. QED
        BY <1>1, <1>2, <1>5, <2>1
<1>7. /\ \A k \in 0 .. n - 1 : V(k) \in DOMAIN next2
      /\ \A j, k \in 0 .. n - 1 : V(j) = V(k) => j = k
    BY <1>3, <1>4, <1>5, <1>6
<1>8. QED
    BY <1>7 DEF IsLine, V

LEMMA LineTurned ==
    ASSUME NEW next, NEW first, NEW n \in Nat, IsLine(next, first, n), NEW next2,
           n > 0 => next2[first] = Walk(next, first, n), DOMAIN next2 = DOMAIN next,
           \A k \in 2 .. n : next2[Walk(next, first, k)] = Walk(next, first, k - 1)
    PROVE  IsLine(next2, first, n)
<1> DEFINE W(k) == Walk(next, first, k)
           V(k) == Walk(next2, first, k)
           at(k) == IF k = 0 THEN 0 ELSE n + 1 - k
<1>1. \A k \in 1 .. n : V(k) = W(n + 1 - k)
    BY TurnRound
<1>2. V(0) = W(0)
    BY WalkIsChain
<1>3. /\ \A k \in 0 .. n : W(k) \in DOMAIN next
      /\ \A j, k \in 0 .. n : W(j) = W(k) => j = k
    BY DEF IsLine
<1>4. /\ \A k \in 0 .. n : at(k) \in 0 .. n
      /\ \A j, k \in 0 .. n : at(j) = at(k) => j = k
    OBVIOUS
<1>5. \A k \in 0 .. n : V(k) = W(at(k))
    <2> TAKE k \in 0 .. n
    <2> HIDE DEF W, V
    <2>1. CASE k = 0
        BY <1>2, <2>1
    <2>2. CASE k # 0
        <3>1. k \in 1 .. n /\ at(k) = n + 1 - k
            BY <2>2
        <3>2. QED
            BY <1>1, <3>1
    <2>3. QED
        BY <2>1, <2>2
<1> HIDE DEF W, V, at
<1>6. \A k \in 0 .. n : V(k) \in DOMAIN next2
    BY <1>3, <1>4, <1>5, ZenonT(40)
<1>7. ASSUME NEW j \in 0 .. n, NEW k \in 0 .. n, V(j) = V(k) PROVE j = k
    <2>1. at(j) \in 0 .. n /\ at(k) \in 0 .. n
        BY <1>4
    <2>2. W(at(j)) = W(at(k))
        BY <1>5, <1>7
    <2>3. at(j) = at(k)
        BY <1>3, <2>1, <2>2
    <2>4. QED
        BY <1>4, <2>3
<1>8. QED
    BY <1>6, <1>7 DEF IsLine, V

-----------------------------------------------------------------------------
(* algorithm/stack/linkstack: the nodes of the stack are allocated ones, and *)
(* what the memory holds besides does not matter.                            *)
LinkStackInv ==
    /\ lsMade \in {"none", "live", "crashed"}
    /\ len \in 0 .. LsMax
    /\ lsUsed \subseteq LsNodes
    /\ lsNext \in [LsNodes \cup {LsHead} -> LsNodes \cup {LsNULL}]
    /\ lsValue \in [LsNodes -> LsData]
    /\ lsMade # "live" => len = 0 /\ lsResult = Done(<<>>)
    /\ IsLine(lsNext, LsHead, len)
    /\ \A k \in 1 .. len : Walk(lsNext, LsHead, k) \in lsUsed

LEMMA NoLine == ASSUME NEW next, NEW first \in DOMAIN next PROVE IsLine(next, first, 0)
<1>1. Walk(next, first, 0) = first
    BY WalkIsChain, 0 \in Nat
<1>2. \A k \in 0 .. 0 : k = 0
    OBVIOUS
<1>3. QED
    BY <1>1, <1>2 DEF IsLine

LEMMA LinkStackInvInit == LinkStackInit => LinkStackInv
<1> SUFFICES ASSUME LinkStackInit PROVE LinkStackInv
    OBVIOUS
<1>1. lsNext \in [LsNodes \cup {LsHead} -> LsNodes \cup {LsNULL}]
    BY DEF LinkStackInit
<1>2. IsLine(lsNext, LsHead, len)
    BY <1>1, NoLine DEF LinkStackInit
<1>3. QED
    BY <1>1, <1>2, LinkStackAssumption DEF LinkStackInit, LinkStackInv

LEMMA StackLine ==
    LinkStackInv => /\ len \in Nat /\ LsHead \in DOMAIN lsNext /\ LsHead \notin lsUsed
                    /\ Walk(lsNext, LsHead, 0) = LsHead
<1>1. LinkStackInv => len \in Nat
    BY LinkStackAssumption DEF LinkStackInv
<1>2. 0 \in Nat /\ Walk(lsNext, LsHead, 0) = LsHead
    BY WalkIsChain
<1>3. QED
    BY <1>1, <1>2, LinkStackAssumption DEF LinkStackInv

(* The node to push is none of the line; popping takes the first out.        *)
LEMMA PushIsPutIn ==
    ASSUME LinkStackInv, NEW new \in LsNodes \ lsUsed
    PROVE  /\ new \in DOMAIN lsNext /\ \A k \in 0 .. len : Walk(lsNext, LsHead, k) # new
<1>1. \A k \in 0 .. len : k = 0 \/ k \in 1 .. len
    BY StackLine
<1>2. QED
    BY <1>1, StackLine, LinkStackAssumption DEF LinkStackInv

LEMMA PopIsTakenOut ==
    ASSUME LinkStackInv, len # 0
    PROVE  /\ 1 \in 1 .. len /\ lsNext[LsHead] = Walk(lsNext, LsHead, 1)
           /\ [lsNext EXCEPT ![LsHead] = lsNext[lsNext[LsHead]]] = TakenOut(lsNext, LsHead, 1)
<1>1. 1 \in 1 .. len /\ len \in Nat /\ 1 - 1 = 0 /\ Walk(lsNext, LsHead, 0) = LsHead
    BY StackLine
<1>2. Walk(lsNext, LsHead, 1) = lsNext[Walk(lsNext, LsHead, 0)]
    <2>1. \A i \in 1 .. len : Walk(lsNext, LsHead, i) = lsNext[Walk(lsNext, LsHead, i - 1)]
        BY <1>1, WalkIsChain
    <2>2. QED
        BY <1>1, <2>1
<1>3. QED
    BY <1>1, <1>2 DEF TakenOut

LEMMA LinkStackInvStep == LinkStackInv /\ [LinkStackNext]_linkStackVars => LinkStackInv'
<1> SUFFICES ASSUME LinkStackInv, [LinkStackNext]_linkStackVars PROVE LinkStackInv'
    OBVIOUS
<1> USE LinkStackAssumption
<1> DEFINE W(k) == Walk(lsNext, LsHead, k)
<1>a. /\ len \in Nat /\ LsHead \in DOMAIN lsNext /\ LsHead \notin lsUsed
      /\ IsLine(lsNext, LsHead, len) /\ W(0) = LsHead
    BY StackLine DEF LinkStackInv
<1>1. CASE UNCHANGED linkStackVars
    BY <1>1 DEF linkStackVars, LinkStackInv
<1>2. CASE ls_stack_init
    <2>1. lsNext' \in [LsNodes \cup {LsHead} -> LsNodes \cup {LsNULL}] /\ len' = 0
        BY <1>2 DEF ls_stack_init, LinkStackInv
    <2>2. IsLine(lsNext', LsHead, 0)
        BY <2>1, NoLine
    <2>3. QED
        BY <1>2, <2>1, <2>2 DEF ls_stack_init, LinkStackInv
<1>3. CASE ls_stack_destory
    <2>1. IsLine(lsNext, LsHead, 0)
        BY <1>a, NoLine
    <2>2. QED
        BY <1>3, <2>1 DEF ls_stack_destory, LinkStackInv
<1>4. ASSUME NEW d \in LsData, ls_stack_push(d) PROVE LinkStackInv'
    <2>1. CASE lsResult' = Failed /\ UNCHANGED <<lsNext, lsValue, lsUsed, len>>
        BY <1>4, <2>1 DEF ls_stack_push, LinkStackInv
    <2>2. ASSUME len < LsMax, NEW new \in LsNodes \ lsUsed, lsNext' = PutIn(lsNext, LsHead, new),
                 lsValue' = [lsValue EXCEPT ![new] = d], lsUsed' = lsUsed \cup {new}, len' = len + 1
          PROVE  LinkStackInv'
        <3>1. IsLine(lsNext', LsHead, len') /\ W(0) = LsHead
            BY <1>a, <2>2, PushIsPutIn, LineInFront
        <3>2. Walk(lsNext', LsHead, 1) = new /\ \A k \in 1 .. len : Walk(lsNext', LsHead, k + 1) = W(k)
            BY <1>a, <2>2, PushIsPutIn, PutInFront
        <3>3. ASSUME NEW k \in 1 .. len' PROVE Walk(lsNext', LsHead, k) \in lsUsed'
            <4>1. CASE k = 1
                BY <2>2, <3>2, <4>1
            <4>2. CASE k # 1
                <5>1. k - 1 \in 1 .. len /\ (k - 1) + 1 = k
                    BY <1>a, <2>2, <4>2
                <5>2. QED
                    BY <2>2, <3>2, <5>1 DEF LinkStackInv
            <4>3. QED
                BY <4>1, <4>2
        <3>4. lsNext' \in [LsNodes \cup {LsHead} -> LsNodes \cup {LsNULL}]
            BY <2>2 DEF LinkStackInv, PutIn
        <3>5. lsMade' = "live" /\ len' \in 0 .. LsMax
            BY <1>4, <1>a, <2>2 DEF ls_stack_push
        <3>6. QED
            BY <2>2, <3>1, <3>3, <3>4, <3>5 DEF LinkStackInv
    <2>3. QED
        BY <1>4, <2>1, <2>2 DEF ls_stack_push, PutIn
<1>5. CASE ls_stack_pop
    <2>1. CASE len = 0
        BY <1>5, <2>1 DEF ls_stack_pop, LinkStackInv
    <2>2. CASE len # 0
        <3>1. /\ lsNext' = TakenOut(lsNext, LsHead, 1) /\ lsUsed' = lsUsed \ {W(1)} /\ len' = len - 1
              /\ lsMade' = "live" /\ lsValue' = lsValue /\ 1 \in 1 .. len
            BY <1>5, <2>2, PopIsTakenOut DEF ls_stack_pop
        <3>2. IsLine(lsNext', LsHead, len')
            BY <1>a, <3>1, LineTakenFrom
        <3>3. \A k \in 1 .. len - 1 : Walk(lsNext', LsHead, k) = W(IF k < 1 THEN k ELSE k + 1)
            BY <1>a, <3>1, TakeOut
        <3>4. ASSUME NEW k \in 1 .. len' PROVE Walk(lsNext', LsHead, k) \in lsUsed'
            <4>1. /\ k \in 1 .. len - 1 /\ k + 1 \in 1 .. len /\ ~(k < 1) /\ k + 1 # 1
                  /\ k + 1 \in 0 .. len /\ 1 \in 0 .. len
                BY <1>a, <3>1
            <4>2. Walk(lsNext', LsHead, k) = W(k + 1)
                BY <3>3, <4>1
            <4>3. W(k + 1) # W(1)
                BY <1>a, <4>1 DEF IsLine
            <4>4. QED
                BY <3>1, <4>1, <4>2, <4>3 DEF LinkStackInv
        <3>5. lsNext' \in [LsNodes \cup {LsHead} -> LsNodes \cup {LsNULL}]
            BY <1>5, <2>2, <3>1, PopIsTakenOut DEF LinkStackInv, ls_stack_pop
        <3>6. QED
            BY <1>a, <3>1, <3>2, <3>4, <3>5 DEF LinkStackInv
    <2>3. QED
        BY <2>1, <2>2
<1>6. CASE ls_stack_foreach
    BY <1>6 DEF ls_stack_foreach, LinkStackInv
<1>7. QED
    BY <1>1, <1>2, <1>3, <1>4, <1>5, <1>6 DEF LinkStackNext

LinkedIsSeq ==
    /\ Linked \in Seq(LsData) /\ Len(Linked) = len
    /\ \A k \in 1 .. len : Linked[k] = lsValue[Walk(lsNext, LsHead, len + 1 - k)]

LEMMA LinkedSeq == LinkStackInv => LinkedIsSeq
<1> SUFFICES ASSUME LinkStackInv PROVE LinkedIsSeq
    OBVIOUS
<1>1. CASE lsMade # "live"
    <2>1. Linked = <<>> /\ len = 0
        BY <1>1 DEF Linked, LinkStackInv
    <2>2. QED
        BY <2>1 DEF LinkedIsSeq
<1>2. CASE lsMade = "live"
    <2>1. Linked = [k \in 1 .. len |-> lsValue[Walk(lsNext, LsHead, len + 1 - k)]]
        BY <1>2, BehindIsWalk DEF Linked
    <2>2. len \in Nat
        BY StackLine
    <2>3. ASSUME NEW k \in 1 .. len PROVE lsValue[Walk(lsNext, LsHead, len + 1 - k)] \in LsData
        <3>1. len + 1 - k \in 1 .. len
            BY <2>2
        <3>2. QED
            BY <3>1 DEF LinkStackInv
    <2>4. QED
        BY <2>1, <2>2, <2>3 DEF LinkedIsSeq
<1>3. QED
    BY <1>1, <1>2
LEMMA LinkAnswers == LinkAbstract!Failed = Failed /\ \A values : LinkAbstract!Done(values) = Done(values)
BY DEF LinkAbstract!Failed, LinkAbstract!Done, Failed, Done

LEMMA LinkStackStepIsStackStep ==
    LinkStackInv /\ [LinkStackNext]_linkStackVars => [LinkAbstract!StackNext]_(LinkAbstract!stackVars)
<1> SUFFICES ASSUME LinkStackInv, [LinkStackNext]_linkStackVars
             PROVE  [LinkAbstract!StackNext]_(LinkAbstract!stackVars)
    OBVIOUS
<1> USE LinkAnswers, LinkStackAssumption
<1> DEFINE W(k) == Walk(lsNext, LsHead, k)
           V(k) == Walk(lsNext', LsHead, k)
<1>0. LinkStackInv'
    BY LinkStackInvStep
<1>a. /\ Linked \in Seq(LsData) /\ Len(Linked) = len
      /\ \A k \in 1 .. len : Linked[k] = lsValue[W(len + 1 - k)]
      /\ len \in Nat /\ LsHead \in DOMAIN lsNext /\ W(0) = LsHead /\ IsLine(lsNext, LsHead, len)
    BY LinkedSeq, StackLine DEF LinkedIsSeq, LinkStackInv
<1>b. /\ Linked' \in Seq(LsData) /\ Len(Linked') = len'
      /\ \A k \in 1 .. len' : Linked'[k] = lsValue'[V(len' + 1 - k)]
    <2>1. LinkedIsSeq'
        BY <1>0, LinkedSeq, PTL
    <2>2. QED
        BY <2>1 DEF LinkedIsSeq
<1>1. CASE UNCHANGED linkStackVars
    BY <1>1 DEF linkStackVars, LinkAbstract!stackVars, Linked, Behind
<1>2. CASE ls_stack_init
    <2>1. Linked' = <<>> /\ Linked = <<>> /\ lsResult' = lsResult
        BY <1>2, <1>a, <1>b DEF ls_stack_init, LinkStackInv
    <2>2. CASE lsMade' = "live"
        <3>1. LinkAbstract!Create
            BY <1>2, <2>1, <2>2 DEF ls_stack_init, LinkAbstract!Create
        <3>2. QED
            BY <3>1 DEF LinkAbstract!StackNext
    <2>3. CASE lsMade' = "crashed"
        BY <1>2, <2>1, <2>3 DEF ls_stack_init, LinkAbstract!stackVars
    <2>4. QED
        BY <1>2, <2>2, <2>3 DEF ls_stack_init
<1>3. CASE ls_stack_destory
    <2>1. Linked' = <<>>
        BY <1>3, <1>b DEF ls_stack_destory
    <2>2. LinkAbstract!Destroy
        BY <1>3, <2>1 DEF ls_stack_destory, LinkAbstract!Destroy
    <2>3. QED
        BY <2>2 DEF LinkAbstract!StackNext
<1>4. ASSUME NEW d \in LsData, ls_stack_push(d) PROVE LinkAbstract!StackNext
    <2>1. CASE lsResult' = Failed /\ UNCHANGED <<lsNext, lsValue, lsUsed, len>>
        <3>1. Linked' = Linked
            BY <1>4, <2>1 DEF ls_stack_push, Linked, Behind
        <3>2. LinkAbstract!PushFails
            BY <1>4, <2>1, <3>1 DEF ls_stack_push, LinkAbstract!PushFails
        <3>3. QED
            BY <3>2 DEF LinkAbstract!StackNext
    <2>2. ASSUME len < LsMax, NEW new \in LsNodes \ lsUsed, lsNext' = PutIn(lsNext, LsHead, new),
                 lsValue' = [lsValue EXCEPT ![new] = d], len' = len + 1, lsResult' = Done(<<>>)
          PROVE  LinkAbstract!StackNext
        <3>1. V(1) = new /\ \A k \in 1 .. len : V(k + 1) = W(k)
            BY <1>a, <2>2, PushIsPutIn, PutInFront
        <3>2. /\ Append(Linked, d) \in Seq(LsData) /\ Len(Append(Linked, d)) = len + 1
              /\ \A k \in 1 .. len : Append(Linked, d)[k] = Linked[k]
              /\ Append(Linked, d)[len + 1] = d
            BY <1>a, AppendProperties
        <3>3. ASSUME NEW k \in 1 .. len + 1 PROVE Linked'[k] = Append(Linked, d)[k]
            <4>1. Linked'[k] = lsValue'[V(len + 2 - k)]
                <5>1. len' + 1 - k = len + 2 - k
                    BY <1>a, <2>2
                <5>2. QED
                    BY <1>b, <2>2, <5>1
            <4>2. CASE k = len + 1
                <5>1. V(len + 2 - k) = new
                    BY <1>a, <3>1, <4>2
                <5>2. QED
                    BY <2>2, <3>2, <4>1, <4>2, <5>1 DEF LinkStackInv
            <4>3. CASE k # len + 1
                <5>0. len \in Nat
                    BY <1>a
                <5>1. k \in 1 .. len /\ len + 1 - k \in 1 .. len /\ len + 2 - k = (len + 1 - k) + 1
                    BY <5>0, <4>3
                <5>2. V(len + 2 - k) = W(len + 1 - k)
                    BY <3>1, <5>1
                <5>3. W(len + 1 - k) \in LsNodes \ {new}
                    BY <2>2, <5>1 DEF LinkStackInv
                <5>4. lsValue'[W(len + 1 - k)] = lsValue[W(len + 1 - k)]
                    BY <2>2, <5>3 DEF LinkStackInv
                <5>5. QED
                    BY <1>a, <3>2, <4>1, <5>1, <5>2, <5>4
            <4>4. QED
                BY <4>2, <4>3
        <3>4. Linked' = Append(Linked, d)
            BY <1>b, <2>2, <3>2, <3>3, SeqEqual
        <3>5. LinkAbstract!Push(d)
            BY <1>4, <1>a, <2>2, <3>4 DEF ls_stack_push, LinkAbstract!Push
        <3>6. QED
            BY <3>5 DEF LinkAbstract!StackNext
    <2>3. QED
        BY <1>4, <2>1, <2>2 DEF ls_stack_push, PutIn
<1>5. CASE ls_stack_pop
    <2>1. CASE len = 0
        <3>1. Linked' = Linked /\ Linked = <<>>
            BY <1>5, <2>1, <1>a, <1>b DEF ls_stack_pop
        <3>2. LinkAbstract!PopFails
            BY <1>5, <2>1, <3>1 DEF ls_stack_pop, LinkAbstract!PopFails
        <3>3. QED
            BY <3>2 DEF LinkAbstract!StackNext
    <2>2. CASE len # 0
        <3>1. /\ lsNext' = TakenOut(lsNext, LsHead, 1) /\ len' = len - 1
              /\ lsValue' = lsValue /\ lsResult' = Done(<<lsValue[W(1)]>>) /\ 1 \in 1 .. len
            BY <1>5, <2>2, PopIsTakenOut DEF ls_stack_pop
        <3>2. \A k \in 1 .. len - 1 : V(k) = W(IF k < 1 THEN k ELSE k + 1)
            BY <1>a, <3>1, TakeOut
        <3>3. /\ SubSeq(Linked, 1, len - 1) \in Seq(LsData) /\ Len(SubSeq(Linked, 1, len - 1)) = len - 1
              /\ \A k \in 1 .. len - 1 : SubSeq(Linked, 1, len - 1)[k] = Linked[k]
            <4>1. \A i \in 1 .. len - 1 : Linked[i] \in LsData
                BY <1>a, ElementOfSeq
            <4>2. QED
                BY <1>a, <3>1, <4>1, SubSeqProperties
        <3>4. ASSUME NEW k \in 1 .. len - 1 PROVE Linked'[k] = SubSeq(Linked, 1, len - 1)[k]
            <4>1. /\ k \in 1 .. len /\ len - k \in 1 .. len - 1 /\ ~(len - k < 1)
                  /\ (len - k) + 1 = len + 1 - k /\ len' + 1 - k = len - k
                BY <1>a, <3>1
            <4>2. V(len - k) = W(len + 1 - k)
                BY <3>2, <4>1
            <4>3. Linked'[k] = lsValue[V(len - k)]
                BY <1>b, <3>1, <4>1
            <4>4. QED
                BY <1>a, <3>3, <4>1, <4>2, <4>3
        <3>5. Linked' = SubSeq(Linked, 1, len - 1)
            BY <1>b, <3>1, <3>3, <3>4, SeqEqual
        <3>6. Linked' = LinkAbstract!Front(Linked)
            BY <1>a, <3>5 DEF LinkAbstract!Front
        <3>7. LinkAbstract!Last(Linked) = lsValue[W(1)]
            <4>1. len \in 1 .. len /\ len + 1 - len = 1
                BY <1>a, <3>1
            <4>2. QED
                BY <1>a, <4>1 DEF LinkAbstract!Last
        <3>8. LinkAbstract!Pop
            BY <1>5, <1>a, <3>1, <3>6, <3>7 DEF ls_stack_pop, LinkAbstract!Pop
        <3>9. QED
            BY <3>8 DEF LinkAbstract!StackNext
    <2>3. QED
        BY <2>1, <2>2
<1>6. CASE ls_stack_foreach
    <2>1. Linked' = Linked
        BY <1>6 DEF ls_stack_foreach, Linked, Behind
    <2>2. lsResult' = Done([k \in 1 .. len |-> lsValue[W(k)]])
        BY <1>6, BehindIsWalk DEF ls_stack_foreach
    <2>3. [k \in 1 .. len |-> lsValue[W(k)]] = LinkAbstract!Reverse(Linked)
        <3>1. ASSUME NEW k \in 1 .. len PROVE Linked[(len - k) + 1] = lsValue[W(k)]
            <4>1. (len - k) + 1 \in 1 .. len /\ len + 1 - ((len - k) + 1) = k
                BY <1>a
            <4>2. QED
                BY <1>a, <4>1
        <3>2. LinkAbstract!Reverse(Linked) = [k \in 1 .. len |-> Linked[(len - k) + 1]]
            BY <1>a DEF LinkAbstract!Reverse
        <3>3. QED
            BY <3>1, <3>2
    <2>4. LinkAbstract!Visit
        BY <1>6, <2>1, <2>2, <2>3 DEF ls_stack_foreach, LinkAbstract!Visit
    <2>5. QED
        BY <2>4 DEF LinkAbstract!StackNext
<1>7. QED
    BY <1>1, <1>2, <1>3, <1>4, <1>5, <1>6 DEF LinkStackNext

(* linkstack.c: in whatever order malloc hands out the nodes, and with what   *)
(* freed ones still point to, its operations are those of the abstract stack.*)
THEOREM NodesAreStack == LinkStackSpec => LinkImplementsStack
<1>1. LinkStackInit => LinkAbstract!StackInit
    BY LinkAnswers DEF LinkStackInit, LinkAbstract!StackInit, Linked
<1>2. QED
    BY <1>1, LinkStackInvInit, LinkStackInvStep, LinkStackStepIsStackStep, PTL
    DEF LinkStackSpec, LinkImplementsStack, LinkAbstract!StackSpec
-----------------------------------------------------------------------------
(* algorithm/list/single_linklist: the same with nodes that a full list has  *)
(* leaked, and with nodes taken out of the middle.                           *)
LinkListInv ==
    /\ llMade \in {"none", "live", "crashed"}
    /\ llLen \in 0 .. LlMax
    /\ llUsed \subseteq LlNodes
    /\ llNext \in [LlNodes \cup {LlHead} -> LlNodes \cup {LlNULL}]
    /\ llValue \in [LlNodes -> LlData]
    /\ llMade # "live" => llLen = 0
    /\ IsLine(llNext, LlHead, llLen)
    /\ \A k \in 1 .. llLen : Walk(llNext, LlHead, k) \in llUsed

LEMMA LlBehindIsWalk == \A k : LlBehind(k) = Walk(llNext, LlHead, k)
BY DEF LlBehind, Walk

LEMMA LinkListInvInit == LinkListInit => LinkListInv
<1> SUFFICES ASSUME LinkListInit PROVE LinkListInv
    OBVIOUS
<1>1. llNext \in [LlNodes \cup {LlHead} -> LlNodes \cup {LlNULL}]
    BY DEF LinkListInit
<1>2. IsLine(llNext, LlHead, llLen)
    BY <1>1, NoLine DEF LinkListInit
<1>3. QED
    BY <1>1, <1>2, LinkListAssumption DEF LinkListInit, LinkListInv

LEMMA ListLine ==
    LinkListInv => /\ llLen \in Nat /\ LlHead \in DOMAIN llNext /\ LlHead \notin llUsed
                   /\ Walk(llNext, LlHead, 0) = LlHead
<1>1. LinkListInv => llLen \in Nat
    BY LinkListAssumption DEF LinkListInv
<1>2. 0 \in Nat /\ Walk(llNext, LlHead, 0) = LlHead
    BY WalkIsChain
<1>3. QED
    BY <1>1, <1>2, LinkListAssumption DEF LinkListInv

LEMMA InsertIsPutIn ==
    ASSUME LinkListInv, NEW new \in LlNodes \ llUsed
    PROVE  /\ new \in DOMAIN llNext /\ \A k \in 0 .. llLen : Walk(llNext, LlHead, k) # new
<1>1. \A k \in 0 .. llLen : k = 0 \/ k \in 1 .. llLen
    BY ListLine
<1>2. QED
    BY <1>1, ListLine, LinkListAssumption DEF LinkListInv

(* The loops of delete, modify and search stop at the first node with d, or  *)
(* behind the last one.                                                      *)
LEMMA StepIsFirst ==
    ASSUME NEW d, llLen \in Nat
    PROVE  \/ StepTo(d) = llLen + 1 /\ \A k \in 1 .. llLen : llValue[Walk(llNext, LlHead, k)] # d
           \/ /\ StepTo(d) \in 1 .. llLen /\ llValue[Walk(llNext, LlHead, StepTo(d))] = d
              /\ \A k \in 1 .. StepTo(d) - 1 : llValue[Walk(llNext, LlHead, k)] # d
<1> DEFINE found == {k \in 1 .. llLen : llValue[Walk(llNext, LlHead, k)] = d}
<1>1. StepTo(d) = IF found = {} THEN llLen + 1 ELSE CHOOSE k \in found : \A j \in found : k <= j
    <2> DEFINE byCode == {k \in 1 .. llLen : llValue[LlBehind(k)] = d}
    <2>1. StepTo(d) = IF byCode = {} THEN llLen + 1 ELSE CHOOSE k \in byCode : \A j \in byCode : k <= j
        BY DEF StepTo
    <2>2. byCode = found
        BY LlBehindIsWalk
    <2> HIDE DEF found, byCode
    <2>3. QED
        BY <2>1, <2>2
<1>2. CASE found = {}
    BY <1>1, <1>2
<1>3. CASE found # {}
    <2>1. found \in SUBSET Nat
        OBVIOUS
    <2>2. \E i \in found : \A j \in found : i <= j
        BY <1>3, <2>1, LeastExists
    <2>3. StepTo(d) \in found /\ \A j \in found : StepTo(d) <= j
        BY <1>1, <1>3, <2>2
    <2>4. QED
        BY <2>3
<1>4. QED
    BY <1>2, <1>3

LEMMA DeleteIsTakenOut ==
    ASSUME LinkListInv, NEW s \in 1 .. llLen
    PROVE  /\ llNext[LlBehind(s - 1)] = Walk(llNext, LlHead, s)
           /\ [llNext EXCEPT ![LlBehind(s - 1)] = llNext[llNext[LlBehind(s - 1)]]] = TakenOut(llNext, LlHead, s)
<1>1. Walk(llNext, LlHead, s) = llNext[Walk(llNext, LlHead, s - 1)]
    BY ListLine, WalkIsChain
<1>2. LlBehind(s - 1) = Walk(llNext, LlHead, s - 1)
    BY LlBehindIsWalk
<1>3. QED
    BY <1>1, <1>2 DEF TakenOut

LEMMA ReversePoints ==
    ASSUME LinkListInv, ll_list_reverse
    PROVE  /\ llNext' \in [LlNodes \cup {LlHead} -> LlNodes \cup {LlNULL}]
           /\ llLen > 0 => llNext'[LlHead] = Walk(llNext, LlHead, llLen)
           /\ \A k \in 2 .. llLen : llNext'[Walk(llNext, LlHead, k)] = Walk(llNext, LlHead, k - 1)
<1> DEFINE W(k) == Walk(llNext, LlHead, k)
           step == [n \in LlChain |-> CHOOSE k \in 1 .. llLen : n = LlBehind(k)]
<1>1. llNext' = [n \in LlNodes \cup {LlHead} |->
              IF n \in LlChain THEN IF step[n] = 1 THEN LlNULL ELSE W(step[n] - 1)
              ELSE IF n = LlHead /\ llLen > 0 THEN W(llLen)
              ELSE llNext[n]]
    <2>1. llNext' = [n \in LlNodes \cup {LlHead} |->
              IF n \in LlChain THEN IF step[n] = 1 THEN LlNULL ELSE LlBehind(step[n] - 1)
              ELSE IF n = LlHead /\ llLen > 0 THEN LlBehind(llLen)
              ELSE llNext[n]]
        BY DEF ll_list_reverse
    <2> HIDE DEF step
    <2>2. QED
        BY <2>1, LlBehindIsWalk
<1>2. LlChain = {W(k) : k \in 1 .. llLen}
    BY LlBehindIsWalk DEF LlChain
<1>3. /\ llLen \in Nat /\ LlHead \notin LlChain /\ LlHead \notin LlNodes
      /\ \A k \in 1 .. llLen : W(k) \in LlNodes /\ W(k) \in LlChain
    BY <1>2, ListLine, LinkListAssumption DEF LinkListInv
<1>4. \A k \in 1 .. llLen : step[W(k)] = k
    <2> TAKE k \in 1 .. llLen
    <2>1. step[W(k)] \in 1 .. llLen /\ W(k) = W(step[W(k)])
        BY <1>3, LlBehindIsWalk
    <2>2. \A i, j \in 1 .. llLen : W(i) = W(j) => i = j
        BY <1>3 DEF LinkListInv, IsLine
    <2> HIDE DEF step, W
    <2>3. QED
        BY <2>1, <2>2
<1> HIDE DEF step, W
<1>5. ASSUME NEW n \in LlNodes \cup {LlHead} PROVE llNext'[n] \in LlNodes \cup {LlNULL}
    <2>1. CASE n \in LlChain
        <3>1. PICK k \in 1 .. llLen : n = W(k)
            BY <1>2, <2>1
        <3>2. step[n] = k
            BY <1>4, <3>1
        <3>3. k = 1 \/ k - 1 \in 1 .. llLen
            BY <1>3
        <3>4. QED
            BY <1>1, <1>3, <2>1, <3>2, <3>3
    <2>2. CASE n \notin LlChain
        <3>1. llNext[n] \in LlNodes \cup {LlNULL}
            BY DEF LinkListInv
        <3>2. llLen > 0 => W(llLen) \in LlNodes
            BY <1>3
        <3>3. QED
            BY <1>1, <2>2, <3>1, <3>2
    <2>3. QED
        BY <2>1, <2>2
<1>6. llLen > 0 => llNext'[LlHead] = W(llLen)
    BY <1>1, <1>3
<1>7. ASSUME NEW k \in 2 .. llLen PROVE llNext'[W(k)] = W(k - 1)
    <2>1. k \in 1 .. llLen /\ k # 1
        BY <1>3
    <2>2. QED
        BY <1>1, <1>3, <1>4, <2>1
<1>8. llNext' \in [LlNodes \cup {LlHead} -> LlNodes \cup {LlNULL}]
    BY <1>1, <1>5
<1>9. QED
    BY <1>6, <1>7, <1>8 DEF W
LEMMA LinkListInvStep == LinkListInv /\ [LinkListNext]_linkListVars => LinkListInv'
<1> SUFFICES ASSUME LinkListInv, [LinkListNext]_linkListVars PROVE LinkListInv'
    OBVIOUS
<1> USE LinkListAssumption
<1> DEFINE W(k) == Walk(llNext, LlHead, k)
           V(k) == Walk(llNext', LlHead, k)
<1>a. /\ llLen \in Nat /\ LlHead \in DOMAIN llNext /\ LlHead \notin llUsed
      /\ IsLine(llNext, LlHead, llLen) /\ W(0) = LlHead
    BY ListLine DEF LinkListInv
<1>1. CASE UNCHANGED linkListVars
    BY <1>1 DEF linkListVars, LinkListInv
<1>2. CASE ll_list_init
    <2>1. llNext' \in [LlNodes \cup {LlHead} -> LlNodes \cup {LlNULL}] /\ llLen' = 0
        BY <1>2 DEF ll_list_init, LinkListInv
    <2>2. IsLine(llNext', LlHead, 0)
        BY <2>1, NoLine
    <2>3. QED
        BY <1>2, <2>1, <2>2 DEF ll_list_init, LinkListInv
<1>3. CASE ll_list_destory
    <2>1. IsLine(llNext, LlHead, 0)
        BY <1>a, NoLine
    <2>2. QED
        BY <1>3, <2>1 DEF ll_list_destory, LinkListInv
<1>4. ASSUME NEW d \in LlData, ll_list_insert(d) PROVE LinkListInv'
    <2>1. CASE UNCHANGED <<llNext, llValue, llUsed, llLen>>
        BY <1>4, <2>1 DEF ll_list_insert, LinkListInv
    <2>2. ASSUME NEW new \in LlNodes \ llUsed, llUsed' = llUsed \cup {new},
                 llValue' = [llValue EXCEPT ![new] = d], llNext' = llNext, llLen' = llLen
          PROVE  LinkListInv'
        BY <1>4, <2>2 DEF ll_list_insert, LinkListInv
    <2>3. ASSUME NEW new \in LlNodes \ llUsed, ~(llLen >= LlMax), llNext' = PutIn(llNext, LlHead, new),
                 llValue' = [llValue EXCEPT ![new] = d], llUsed' = llUsed \cup {new}, llLen' = llLen + 1
          PROVE  LinkListInv'
        <3>1. IsLine(llNext', LlHead, llLen')
            BY <1>a, <2>3, InsertIsPutIn, LineInFront
        <3>2. V(1) = new /\ \A k \in 1 .. llLen : V(k + 1) = W(k)
            BY <1>a, <2>3, InsertIsPutIn, PutInFront
        <3>3. ASSUME NEW k \in 1 .. llLen' PROVE V(k) \in llUsed'
            <4>1. CASE k = 1
                BY <2>3, <3>2, <4>1
            <4>2. CASE k # 1
                <5>1. k - 1 \in 1 .. llLen /\ (k - 1) + 1 = k
                    BY <1>a, <2>3, <4>2
                <5>2. QED
                    BY <2>3, <3>2, <5>1 DEF LinkListInv
            <4>3. QED
                BY <4>1, <4>2
        <3>4. llNext' \in [LlNodes \cup {LlHead} -> LlNodes \cup {LlNULL}]
            BY <2>3 DEF LinkListInv, PutIn
        <3>5. llMade' = "live" /\ llLen' \in 0 .. LlMax
            BY <1>4, <1>a, <2>3 DEF ll_list_insert
        <3>6. QED
            BY <2>3, <3>1, <3>3, <3>4, <3>5 DEF LinkListInv
    <2>4. QED
        BY <1>4, <2>1, <2>2, <2>3 DEF ll_list_insert, PutIn
<1>5. ASSUME NEW d \in LlData, ll_list_delete(d) PROVE LinkListInv'
    <2>1. CASE StepTo(d) > llLen
        <3>1. IsLine(llNext, LlHead, 0)
            BY <1>a, NoLine
        <3>2. QED
            BY <1>5, <2>1, <3>1 DEF ll_list_delete, LinkListInv
    <2>2. CASE ~(StepTo(d) > llLen)
        <3>1. PICK s \in 1 .. llLen : s = StepTo(d)
            BY <1>a, <2>2, StepIsFirst
        <3>2. /\ llNext' = TakenOut(llNext, LlHead, s) /\ llUsed' = llUsed \ {W(s)} /\ llLen' = llLen - 1
              /\ llMade' = "live" /\ llValue' = llValue
            BY <1>5, <2>2, <3>1, DeleteIsTakenOut DEF ll_list_delete
        <3>3. IsLine(llNext', LlHead, llLen')
            BY <1>a, <3>2, LineTakenFrom
        <3>4. \A k \in 1 .. llLen - 1 : V(k) = W(IF k < s THEN k ELSE k + 1)
            BY <1>a, <3>2, TakeOut
        <3>5. ASSUME NEW k \in 1 .. llLen' PROVE V(k) \in llUsed'
            <4>1. PICK at \in 1 .. llLen : at = (IF k < s THEN k ELSE k + 1) /\ at # s
                BY <1>a, <3>2
            <4>2. V(k) = W(at) /\ at \in 0 .. llLen /\ s \in 0 .. llLen
                BY <3>2, <3>4, <4>1
            <4>3. W(at) # W(s)
                BY <1>a, <4>1, <4>2 DEF IsLine
            <4>4. QED
                BY <3>2, <4>1, <4>2, <4>3 DEF LinkListInv
        <3>6. llNext' \in [LlNodes \cup {LlHead} -> LlNodes \cup {LlNULL}]
            <4>1. W(s) \in DOMAIN llNext
                BY <1>a DEF IsLine
            <4>2. QED
                BY <3>2, <4>1 DEF LinkListInv, TakenOut
        <3>7. QED
            BY <1>a, <3>2, <3>3, <3>5, <3>6 DEF LinkListInv
    <2>3. QED
        BY <2>1, <2>2
<1>6. ASSUME NEW d \in LlData, ll_list_search(d) PROVE LinkListInv'
    BY <1>6 DEF ll_list_search, LinkListInv
<1>7. ASSUME NEW d \in LlData, NEW new \in LlData, ll_list_modify(d, new) PROVE LinkListInv'
    BY <1>7 DEF ll_list_modify, LinkListInv
<1>8. CASE ll_list_reverse
    <2>1. UNCHANGED <<llMade, llValue, llUsed, llLen>>
        BY <1>8 DEF ll_list_reverse
    <2>2. /\ llNext' \in [LlNodes \cup {LlHead} -> LlNodes \cup {LlNULL}]
          /\ DOMAIN llNext' = DOMAIN llNext
          /\ llLen > 0 => llNext'[LlHead] = W(llLen)
          /\ \A k \in 2 .. llLen : llNext'[W(k)] = W(k - 1)
        BY <1>8, ReversePoints DEF LinkListInv
    <2>3. IsLine(llNext', LlHead, llLen)
        BY <1>a, <2>2, LineTurned
    <2>4. \A k \in 1 .. llLen : V(k) = W(llLen + 1 - k)
        BY <1>a, <2>2, TurnRound
    <2>5. \A k \in 1 .. llLen : llLen + 1 - k \in 1 .. llLen
        BY <1>a
    <2>6. QED
        BY <2>1, <2>2, <2>3, <2>4, <2>5 DEF LinkListInv
<1>9. CASE ll_list_foreach \/ list_foreach_reversingly
    BY <1>9 DEF ll_list_foreach, list_foreach_reversingly, LinkListInv
<1>10. QED
    BY <1>1, <1>2, <1>3, <1>4, <1>5, <1>6, <1>7, <1>8, <1>9 DEF LinkListNext

ValuesAreSeq ==
    /\ Values \in Seq(LlData) /\ Len(Values) = llLen
    /\ \A k \in 1 .. llLen : Values[k] = llValue[Walk(llNext, LlHead, k)]

LEMMA ValuesSeq == LinkListInv => ValuesAreSeq
<1> SUFFICES ASSUME LinkListInv PROVE ValuesAreSeq
    OBVIOUS
<1>1. Values = [k \in 1 .. llLen |-> llValue[Walk(llNext, LlHead, k)]]
    BY LlBehindIsWalk DEF Values
<1>2. llLen \in Nat
    BY ListLine
<1>3. ASSUME NEW k \in 1 .. llLen PROVE llValue[Walk(llNext, LlHead, k)] \in LlData
    BY DEF LinkListInv
<1>4. QED
    BY <1>1, <1>2, <1>3 DEF ValuesAreSeq

(* First of the abstract list is the step at which the loops stop.           *)
LEMMA FirstIsStep ==
    ASSUME LinkListInv, NEW d
    PROVE  \/ StepTo(d) = llLen + 1 /\ LlAbstract!First(d) = 0
           \/ StepTo(d) \in 1 .. llLen /\ LlAbstract!First(d) = StepTo(d)
<1> DEFINE I == {i \in 1 .. Len(Values) : Values[i] = d}
<1>1. LlAbstract!First(d) = IF I # {} THEN LlAbstract!Min(I) ELSE 0
    BY DEF LlAbstract!First, LlAbstract!SelectInSeq
<1>2. llLen \in Nat /\ Len(Values) = llLen /\ \A k \in 1 .. llLen : Values[k] = llValue[Walk(llNext, LlHead, k)]
    BY ValuesSeq, ListLine DEF ValuesAreSeq
<1>3. CASE \A k \in 1 .. llLen : llValue[Walk(llNext, LlHead, k)] # d
    <2>1. StepTo(d) = llLen + 1
        BY <1>2, <1>3, StepIsFirst
    <2>2. I = {}
        BY <1>2, <1>3
    <2>3. QED
        BY <1>1, <2>1, <2>2
<1>4. CASE \E k \in 1 .. llLen : llValue[Walk(llNext, LlHead, k)] = d
    <2>1. /\ StepTo(d) \in 1 .. llLen /\ llValue[Walk(llNext, LlHead, StepTo(d))] = d
          /\ \A k \in 1 .. StepTo(d) - 1 : llValue[Walk(llNext, LlHead, k)] # d
        BY <1>2, <1>4, StepIsFirst
    <2>2. PICK n \in Nat : n = StepTo(d)
        BY <1>2, <2>1
    <2>3. n \in I /\ \A j \in I : n <= j
        BY <1>2, <2>1, <2>2
    <2>4. LlAbstract!Min(I) \in I /\ \A j \in I : LlAbstract!Min(I) <= j
        BY <2>3 DEF LlAbstract!Min
    <2>5. I \subseteq Nat
        BY <1>2
    <2> HIDE DEF I
    <2>6. PICK m \in Nat : m = LlAbstract!Min(I)
        BY <2>4, <2>5
    <2>7. LlAbstract!Min(I) = n
        BY <2>2, <2>3, <2>4, <2>6
    <2>8. QED
        BY <1>1, <2>1, <2>2, <2>3, <2>7
<1>5. QED
    BY <1>3, <1>4
LEMMA LlListAnswers == LlAbstract!Failed = Failed /\ \A values : LlAbstract!Done(values) = Done(values)
BY DEF LlAbstract!Failed, LlAbstract!Done, Failed, Done

(* What the three changes of the line do to the values.                      *)
LEMMA DeletedValues ==
    ASSUME NEW values \in Seq(LlData), NEW n \in Nat, Len(values) = n, NEW s \in 1 .. n,
           NEW others \in Seq(LlData), Len(others) = n - 1,
           \A k \in 1 .. n - 1 : others[k] = values[IF k < s THEN k ELSE k + 1]
    PROVE  others = LlAbstract!RemoveAt(values, s)
<1> DEFINE front == SubSeq(values, 1, s - 1)
           back == SubSeq(values, s + 1, n)
<1>1. \A i \in 1 .. n : values[i] \in LlData
    BY ElementOfSeq
<1>2. front \in Seq(LlData) /\ Len(front) = s - 1 /\ \A k \in 1 .. s - 1 : front[k] = values[k]
    BY <1>1, SubSeqProperties
<1>3. back \in Seq(LlData) /\ Len(back) = n - s /\ \A k \in 1 .. n - s : back[k] = values[s + k]
    BY <1>1, SubSeqProperties
<1> HIDE DEF front, back
<1>4. /\ front \o back \in Seq(LlData) /\ Len(front \o back) = Len(front) + Len(back)
      /\ \A k \in 1 .. Len(front) + Len(back) :
            (front \o back)[k] = IF k <= Len(front) THEN front[k] ELSE back[k - Len(front)]
    BY <1>2, <1>3, ConcatProperties
<1>5. Len(front) + Len(back) = n - 1
    BY <1>2, <1>3
<1>6. ASSUME NEW k \in 1 .. n - 1 PROVE others[k] = (front \o back)[k]
    <2>1. CASE k < s
        <3>1. k \in 1 .. s - 1 /\ k <= Len(front)
            BY <1>2, <2>1
        <3>2. (front \o back)[k] = front[k]
            BY <1>4, <1>5, <3>1
        <3>3. QED
            BY <1>2, <2>1, <3>1, <3>2
    <2>2. CASE ~(k < s)
        <3>1. ~(k <= Len(front)) /\ k - Len(front) \in 1 .. n - s /\ s + (k - Len(front)) = k + 1
            BY <1>2, <2>2
        <3>2. (front \o back)[k] = back[k - Len(front)]
            BY <1>4, <1>5, <3>1
        <3>3. QED
            BY <1>3, <2>2, <3>1, <3>2
    <2>3. QED
        BY <2>1, <2>2
<1>7. others = front \o back
    BY <1>4, <1>5, <1>6, SeqEqual
<1>8. QED
    BY <1>7 DEF LlAbstract!RemoveAt, front, back

LEMMA LinkListStepIsListStep ==
    LinkListInv /\ [LinkListNext]_linkListVars => [LlAbstract!ListSpecNext]_(LlAbstract!listSpecVars)
<1> SUFFICES ASSUME LinkListInv, [LinkListNext]_linkListVars
             PROVE  [LlAbstract!ListSpecNext]_(LlAbstract!listSpecVars)
    OBVIOUS
<1> USE LlListAnswers, LinkListAssumption
<1> DEFINE W(k) == Walk(llNext, LlHead, k)
           V(k) == Walk(llNext', LlHead, k)
<1>0. LinkListInv' /\ ValuesAreSeq /\ ValuesAreSeq'
    BY LinkListInvStep, ValuesSeq, PTL
<1>a. /\ Values \in Seq(LlData) /\ Len(Values) = llLen /\ \A k \in 1 .. llLen : Values[k] = llValue[W(k)]
      /\ llLen \in Nat /\ LlHead \in DOMAIN llNext /\ W(0) = LlHead /\ IsLine(llNext, LlHead, llLen)
    BY <1>0, ListLine DEF ValuesAreSeq, LinkListInv
<1>b. Values' \in Seq(LlData) /\ Len(Values') = llLen' /\ \A k \in 1 .. llLen' : Values'[k] = llValue'[V(k)]
    BY <1>0 DEF ValuesAreSeq
<1>1. CASE UNCHANGED linkListVars
    BY <1>1 DEF linkListVars, LlAbstract!listSpecVars, Values, LlBehind
<1>2. CASE ll_list_init
    <2>1. Values' = <<>>
        BY <1>2, <1>b DEF ll_list_init
    <2>2. LlAbstract!Create
        BY <1>2, <2>1 DEF ll_list_init, LlAbstract!Create
    <2>3. QED
        BY <2>2 DEF LlAbstract!ListSpecNext
<1>3. CASE ll_list_destory
    <2>1. Values' = <<>>
        BY <1>3, <1>b DEF ll_list_destory
    <2>2. LlAbstract!Destroy
        BY <1>3, <2>1 DEF ll_list_destory, LlAbstract!Destroy
    <2>3. QED
        BY <2>2 DEF LlAbstract!ListSpecNext
<1>4. ASSUME NEW d \in LlData, ll_list_insert(d) PROVE LlAbstract!ListSpecNext
    <2>1. ASSUME Values' = Values, llResult' = Failed PROVE LlAbstract!ListSpecNext
        <3>1. LlAbstract!InsertFails
            BY <1>4, <2>1 DEF ll_list_insert, LlAbstract!InsertFails
        <3>2. QED
            BY <3>1 DEF LlAbstract!ListSpecNext
    <2>2. CASE UNCHANGED <<llNext, llValue, llUsed, llLen>> /\ llResult' = Failed
        BY <2>1, <2>2 DEF Values, LlBehind
    <2>3. ASSUME NEW new \in LlNodes \ llUsed, llValue' = [llValue EXCEPT ![new] = d]
          PROVE  \A k \in 1 .. llLen : llValue'[W(k)] = llValue[W(k)]
        BY <2>3 DEF LinkListInv
    <2>4. ASSUME NEW new \in LlNodes \ llUsed, llValue' = [llValue EXCEPT ![new] = d],
                 llNext' = llNext, llLen' = llLen, llResult' = Failed
          PROVE  LlAbstract!ListSpecNext
        <3>1. ASSUME NEW k \in 1 .. llLen PROVE Values'[k] = Values[k]
            <4>1. Values'[k] = llValue'[W(k)]
                BY <1>b, <2>4
            <4>2. llValue'[W(k)] = llValue[W(k)]
                BY <2>3, <2>4
            <4>3. QED
                BY <1>a, <4>1, <4>2
        <3>2. Values' = Values
            BY <1>a, <1>b, <2>4, <3>1, SeqEqual
        <3>3. QED
            BY <2>1, <2>4, <3>2
    <2>5. ASSUME NEW new \in LlNodes \ llUsed, ~(llLen >= LlMax), llNext' = PutIn(llNext, LlHead, new),
                 llValue' = [llValue EXCEPT ![new] = d], llLen' = llLen + 1, llResult' = Done(<<>>)
          PROVE  LlAbstract!ListSpecNext
        <3>1. V(1) = new /\ \A k \in 1 .. llLen : V(k + 1) = W(k)
            BY <1>a, <2>5, InsertIsPutIn, PutInFront
        <3>2. /\ <<d>> \in Seq(LlData) /\ Len(<<d>>) = 1 /\ <<d>> \o Values \in Seq(LlData)
              /\ Len(<<d>> \o Values) = llLen + 1
              /\ \A k \in 1 .. llLen + 1 : (<<d>> \o Values)[k] = IF k <= 1 THEN <<d>>[k] ELSE Values[k - 1]
            <4>1. <<d>> \in Seq(LlData) /\ Len(<<d>>) = 1
                OBVIOUS
            <4>2. Len(<<d>>) + Len(Values) = llLen + 1
                BY <1>a, <4>1
            <4>3. QED
                BY <1>a, <4>1, <4>2, ConcatProperties
        <3>3. ASSUME NEW k \in 1 .. llLen + 1 PROVE Values'[k] = (<<d>> \o Values)[k]
            <4>1. Values'[k] = llValue'[V(k)]
                BY <1>b, <2>5
            <4>2. CASE k = 1
                BY <2>5, <3>1, <3>2, <4>1, <4>2 DEF LinkListInv
            <4>3. CASE k # 1
                <5>1. k - 1 \in 1 .. llLen /\ (k - 1) + 1 = k /\ ~(k <= 1)
                    BY <1>a, <4>3
                <5>2. V(k) = W(k - 1)
                    BY <3>1, <5>1
                <5>3. QED
                    BY <1>a, <2>3, <2>5, <3>2, <4>1, <5>1, <5>2
            <4>4. QED
                BY <4>2, <4>3
        <3>4. Values' = <<d>> \o Values
            BY <1>b, <2>5, <3>2, <3>3, SeqEqual
        <3>5. LlAbstract!Insert(d)
            BY <1>4, <1>a, <2>5, <3>4 DEF ll_list_insert, LlAbstract!Insert
        <3>6. QED
            BY <3>5 DEF LlAbstract!ListSpecNext
    <2>6. QED
        BY <1>4, <2>2, <2>4, <2>5 DEF ll_list_insert, PutIn
<1>5. ASSUME NEW d \in LlData, ll_list_delete(d) PROVE LlAbstract!ListSpecNext
    <2>1. CASE StepTo(d) > llLen
        <3>1. Values' = <<>>
            BY <1>5, <1>b, <2>1 DEF ll_list_delete
        <3>2. LlAbstract!Destroy
            BY <1>5, <2>1, <3>1 DEF ll_list_delete, LlAbstract!Destroy
        <3>3. QED
            BY <3>2 DEF LlAbstract!ListSpecNext
    <2>2. CASE ~(StepTo(d) > llLen)
        <3>1. PICK s \in 1 .. llLen : s = StepTo(d) /\ LlAbstract!First(d) = s
            BY <1>a, <2>2, FirstIsStep
        <3>2. /\ llNext' = TakenOut(llNext, LlHead, s) /\ llLen' = llLen - 1 /\ llResult' = Done(<<>>)
              /\ llMade' = llMade /\ llMade = "live" /\ llValue' = llValue
            BY <1>5, <2>2, <3>1, DeleteIsTakenOut DEF ll_list_delete
        <3>3. \A k \in 1 .. llLen - 1 : V(k) = W(IF k < s THEN k ELSE k + 1)
            BY <1>a, <3>2, TakeOut
        <3>4. ASSUME NEW k \in 1 .. llLen - 1 PROVE Values'[k] = Values[IF k < s THEN k ELSE k + 1]
            <4>1. (IF k < s THEN k ELSE k + 1) \in 1 .. llLen
                BY <1>a
            <4>2. Values'[k] = llValue[V(k)]
                BY <1>b, <3>2
            <4>3. QED
                BY <1>a, <3>3, <4>1, <4>2
        <3>5. Values' = LlAbstract!RemoveAt(Values, s)
            <4>1. Values' \in Seq(LlData) /\ Len(Values') = llLen - 1
                BY <1>b, <3>2
            <4> DEFINE old == Values
                       others == Values'
            <4>2. /\ old \in Seq(LlData) /\ Len(old) = llLen /\ others \in Seq(LlData) /\ Len(others) = llLen - 1
                  /\ \A k \in 1 .. llLen - 1 : others[k] = old[IF k < s THEN k ELSE k + 1]
                BY <1>a, <3>4, <4>1
            <4> HIDE DEF old, others
            <4>3. others = LlAbstract!RemoveAt(old, s)
                BY <1>a, <4>2, DeletedValues
            <4>4. QED
                BY <4>3 DEF old, others
        <3>6. LlAbstract!Delete(d)
            <4>1. s # 0
                BY <1>a
            <4>2. QED
                BY <3>1, <3>2, <3>5, <4>1 DEF LlAbstract!Delete
        <3>7. QED
            BY <3>6 DEF LlAbstract!ListSpecNext
    <2>3. QED
        BY <2>1, <2>2
<1>6. ASSUME NEW d \in LlData, ll_list_search(d) PROVE LlAbstract!ListSpecNext
    <2>1. Values' = Values
        BY <1>6 DEF ll_list_search, Values, LlBehind
    <2>2. StepTo(d) > llLen <=> LlAbstract!First(d) = 0
        BY <1>a, FirstIsStep
    <2>3. LlAbstract!Search(d)
        BY <1>6, <2>1, <2>2 DEF ll_list_search, LlAbstract!Search
    <2>4. QED
        BY <2>3 DEF LlAbstract!ListSpecNext
<1>7. ASSUME NEW d \in LlData, NEW new \in LlData, ll_list_modify(d, new) PROVE LlAbstract!ListSpecNext
    <2>1. CASE StepTo(d) > llLen
        <3>1. Values' = Values
            BY <1>7, <2>1 DEF ll_list_modify, Values, LlBehind
        <3>2. LlAbstract!First(d) = 0
            BY <1>a, <2>1, FirstIsStep
        <3>3. LlAbstract!Modify(d, new)
            BY <1>7, <2>1, <3>1, <3>2 DEF ll_list_modify, LlAbstract!Modify
        <3>4. QED
            BY <3>3 DEF LlAbstract!ListSpecNext
    <2>2. CASE ~(StepTo(d) > llLen)
        <3>1. PICK s \in 1 .. llLen : s = StepTo(d) /\ LlAbstract!First(d) = s
            BY <1>a, <2>2, FirstIsStep
        <3>2. /\ llValue' = [llValue EXCEPT ![W(s)] = new] /\ llResult' = Done(<<>>)
              /\ UNCHANGED <<llMade, llNext, llUsed, llLen>> /\ llMade = "live"
            BY <1>7, <2>2, <3>1, LlBehindIsWalk DEF ll_list_modify
        <3>3. /\ [Values EXCEPT ![s] = new] \in Seq(LlData) /\ Len([Values EXCEPT ![s] = new]) = llLen
              /\ \A k \in 1 .. llLen : [Values EXCEPT ![s] = new][k] = IF k = s THEN new ELSE Values[k]
            BY <1>a, ExceptSeq
        <3>4. ASSUME NEW k \in 1 .. llLen PROVE Values'[k] = IF k = s THEN new ELSE Values[k]
            <4>1. Values'[k] = llValue'[W(k)]
                BY <1>b, <3>2
            <4>2. W(k) \in LlNodes /\ (W(k) = W(s) => k = s)
                <5>1. k \in 0 .. llLen /\ s \in 0 .. llLen
                    BY <1>a
                <5>2. QED
                    BY <1>a, <5>1 DEF LinkListInv, IsLine
            <4>3. llValue'[W(k)] = IF k = s THEN new ELSE llValue[W(k)]
                BY <3>2, <4>2 DEF LinkListInv
            <4>4. QED
                BY <1>a, <4>1, <4>3
        <3>5. Values' = [Values EXCEPT ![s] = new]
            BY <1>b, <3>2, <3>3, <3>4, SeqEqual
        <3>6. LlAbstract!Modify(d, new)
            <4>1. s # 0
                BY <1>a
            <4>2. QED
                BY <3>1, <3>2, <3>5, <4>1 DEF LlAbstract!Modify, LlAbstract!ReplaceAt
        <3>7. QED
            BY <3>6 DEF LlAbstract!ListSpecNext
    <2>3. QED
        BY <2>1, <2>2
<1>c. LlAbstract!Reverse(Values) = [k \in 1 .. llLen |-> Values[(llLen - k) + 1]]
    BY <1>a DEF LlAbstract!Reverse
<1>d. \A k \in 1 .. llLen : llLen + 1 - k \in 1 .. llLen /\ llLen + 1 - k = (llLen - k) + 1
    BY <1>a
<1>8. CASE ll_list_reverse
    <2>1. UNCHANGED <<llMade, llValue, llUsed, llLen>> /\ llMade = "live" /\ llResult' = Done(<<>>)
        BY <1>8 DEF ll_list_reverse
    <2>2. \A k \in 1 .. llLen : V(k) = W(llLen + 1 - k)
        BY <1>8, <1>a, ReversePoints, TurnRound
    <2>3. \A k \in 1 .. llLen : Values'[k] = Values[(llLen - k) + 1]
        BY <1>a, <1>b, <1>d, <2>1, <2>2
    <2>4. Values' = [k \in 1 .. llLen |-> Values'[k]]
        BY <1>b, <2>1
    <2>5. Values' = LlAbstract!Reverse(Values)
        BY <1>c, <2>3, <2>4
    <2>6. LlAbstract!Reversal
        BY <2>1, <2>5 DEF LlAbstract!Reversal
    <2>7. QED
        BY <2>6 DEF LlAbstract!ListSpecNext
<1>9. CASE ll_list_foreach \/ list_foreach_reversingly
    <2>1. Values' = Values
        BY <1>9 DEF ll_list_foreach, list_foreach_reversingly, Values, LlBehind
    <2>2. Backwards = [k \in 1 .. llLen |-> llValue[W(llLen + 1 - k)]]
        BY LlBehindIsWalk DEF Backwards
    <2>3. Backwards = LlAbstract!Reverse(Values)
        BY <1>a, <1>c, <1>d, <2>2
    <2>4. LlAbstract!Visit
        BY <1>9, <2>1, <2>3 DEF ll_list_foreach, list_foreach_reversingly, LlAbstract!Visit
    <2>5. QED
        BY <2>4 DEF LlAbstract!ListSpecNext
<1>10. QED
    BY <1>1, <1>2, <1>3, <1>4, <1>5, <1>6, <1>7, <1>8, <1>9 DEF LinkListNext

(* single_linklist.c: with nodes reused in any order and leaked ones around, *)
(* its operations are those of the abstract list, until the deletion of a    *)
(* value that is not there, which ends the program.                          *)
THEOREM NodesAreList == LinkListSpec => LinkListIsList
<1>1. LinkListInit => LlAbstract!ListSpecInit
    <2>1. llLen = 0 => Values = <<>>
        BY DEF Values
    <2>2. QED
        BY <2>1, LlListAnswers DEF LinkListInit, LlAbstract!ListSpecInit
<1>2. QED
    BY <1>1, LinkListInvInit, LinkListInvStep, LinkListStepIsListStep, PTL
    DEF LinkListSpec, LinkListIsList, LlAbstract!ListSpec

-----------------------------------------------------------------------------
(* fpga_socket.c.                                                            *)
FpgaInv ==
    /\ request \in Requests \cup {NoFrame}
    /\ totalwrite \in Int
    /\ FramesFit

LEMMA FpgaInvInit == FpgaInit => FpgaInv
BY DEF FpgaInit, FpgaInv, FramesFit

LEMMA FpgaInvStep == FpgaInv /\ [FpgaNext]_fpgaVars => FpgaInv'
<1> SUFFICES ASSUME FpgaInv, [FpgaNext]_fpgaVars PROVE FpgaInv'
    OBVIOUS
<1>1. CASE UNCHANGED fpgaVars
    BY <1>1 DEF FpgaInv, FramesFit, fpgaVars
<1>2. CASE fpga_open
    BY <1>2 DEF FpgaInv, FramesFit, fpga_open
<1>3. CASE fpga_read
    BY <1>3 DEF FpgaInv, FramesFit, fpga_read
<1>4. ASSUME Writing, ~Unequal
      PROVE  request \in Requests /\ request.len = request.datalen + 27 /\ request.datalen \in Int
    BY <1>4, FrameLengthsAssumption
       DEF FpgaInv, Writing, Unequal, Requests, NoFrame, DATA_HEADER_LEN, LINK_TRAILER_LEN
<1>5. CASE fpga_write
    <2>1. request \in Requests /\ request.len \in Nat
        BY <1>5, FrameLengthsAssumption DEF fpga_write, FpgaInv, Requests, NoFrame
    <2>2. request' = NoFrame /\ totalwrite' = totalwrite
        BY <1>5 DEF fpga_write, Return
    <2>3. FramesFit'
        <3> DEFINE frame == [len |-> request.len, from |-> 0, upto |-> request.len, available |-> request.len,
                             stored |-> request.len, address |-> "request"]
        <3>1. UNCHANGED frames \/ (Send(frame) /\ ~(request.len > MTU_MAX \/ request.len < MTU_MIN))
            BY <1>5 DEF fpga_write
        <3>2. ~(request.len > MTU_MAX \/ request.len < MTU_MIN) =>
                  frame.len \in MTU_MIN .. MTU_MAX /\ frame.upto <= frame.available /\ frame.stored <= MTU_MAX
            <4> SUFFICES ASSUME ~(request.len > MTU_MAX \/ request.len < MTU_MIN)
                         PROVE  request.len \in MTU_MIN .. MTU_MAX /\ request.len <= MTU_MAX
                OBVIOUS
            <4>1. ASSUME NEW n \in Nat, ~(n > MTU_MAX \/ n < MTU_MIN)
                  PROVE  n \in MTU_MIN .. MTU_MAX /\ n <= MTU_MAX
                BY <4>1 DEF MTU_MAX, MTU_MIN
            <4>2. QED
                BY <2>1, <4>1
        <3> HIDE DEF frame
        <3>3. QED
            BY <3>1, <3>2 DEF Send, FpgaInv, FramesFit
    <2>4. QED
        BY <2>2, <2>3 DEF FpgaInv
<1>6. CASE WriteRefused \/ WriteReturns
    BY <1>6 DEF FpgaInv, FramesFit, WriteRefused, WriteReturns, Return
<1>7. CASE WriteChunk
    <2> DEFINE wlen == IF Remaining >= DATA_LEN_MAX THEN DATA_LEN_MAX ELSE Remaining
               padlen == IF Remaining <= DATA_LEN_MIN THEN DATA_LEN_MIN - Remaining ELSE 0
               wire == DATA_HEADER_LEN + wlen + padlen + LINK_TRAILER_LEN
               address ==
                   IF padlen > ADDR_POS THEN "zero"
                   ELSE IF wlen < ADDR_POS + 4 THEN "chunk" ELSE IF totalwrite = 0 THEN "request" ELSE "data"
               frame == [len |-> wire, from |-> totalwrite, upto |-> totalwrite + wlen, available |-> request.len,
                         stored |-> DATA_LEN_POS + wlen + padlen + 4, address |-> address]
    <2>1. /\ Writing /\ ~Unequal /\ Remaining > 0 /\ Send(frame)
          /\ totalwrite' = totalwrite + (IF errors' = errors THEN wire ELSE -1)
          /\ UNCHANGED request
        BY <1>7 DEF WriteChunk
    <2>2. totalwrite \in Int /\ Remaining = request.datalen - totalwrite
        BY DEF FpgaInv, Remaining
    <2>3. /\ wlen \in Int /\ padlen \in Int /\ wire \in MTU_MIN .. MTU_MAX
          /\ totalwrite + wlen <= request.len
          /\ DATA_LEN_POS + wlen + padlen + 4 <= MTU_MAX
        <3>1. DATA_LEN_MAX = 1973 /\ DATA_LEN_MIN = 37
            BY DEF DATA_LEN_MAX, DATA_LEN_MIN, DATA_HEADER_LEN, LINK_TRAILER_LEN, MTU_MAX, MTU_MIN
        <3>2. Remaining \in Int /\ Remaining > 0 /\ totalwrite + Remaining <= request.len
            BY <1>4, <2>1, <2>2
        <3>3. wlen \in Int /\ wlen <= Remaining /\ wlen <= 1973 /\ (Remaining < 1973 => wlen = Remaining) /\ wlen > 0
              /\ (Remaining >= 1973 => wlen = 1973)
            BY <3>1, <3>2
        <3>4. padlen \in Int /\ (Remaining <= 37 => padlen = 37 - Remaining) /\ (Remaining > 37 => padlen = 0)
            BY <3>1, <3>2
        <3> HIDE DEF wlen, padlen
        <3>5. QED
            BY <1>4, <2>1, <2>2, <3>2, <3>3, <3>4 DEF DATA_HEADER_LEN, LINK_TRAILER_LEN, MTU_MAX, MTU_MIN, DATA_LEN_POS
    <2>4. totalwrite' \in Int
        <3>1. wire \in Int
            BY <2>3 DEF MTU_MIN, MTU_MAX
        <3> HIDE DEF wire
        <3>2. QED
            BY <2>1, <2>2, <3>1
    <2>5. frame.len \in MTU_MIN .. MTU_MAX /\ frame.upto <= frame.available /\ frame.stored <= MTU_MAX
        BY <2>3
    <2> HIDE DEF frame
    <2>6. FramesFit'
        BY <2>1, <2>5 DEF FpgaInv, FramesFit, Send
    <2>7. QED
        BY <2>1, <2>4, <2>6 DEF FpgaInv
<1>8. QED
    BY <1>1, <1>2, <1>3, <1>5, <1>6, <1>7 DEF FpgaNext

(* However a write is cut into chunks and whichever sends fail, frames have a*)
(* length the link carries, take no byte from behind the caller's frame and  *)
(* are built inside wbuf.                                                    *)
THEOREM FramesAlwaysFit == FpgaSpec => []FramesFit
<1>1. FpgaInv => FramesFit
    BY DEF FpgaInv
<1>2. QED
    BY <1>1, FpgaInvInit, FpgaInvStep, PTL DEF FpgaSpec

-----------------------------------------------------------------------------
(* socket/tcp.                                                               *)
Bytes == Seq(STRING)

(* The pieces of concatenations that the steps below move around.            *)
LEMMA Concat == \A s, t \in Bytes : s \o t \in Bytes /\ Len(s \o t) = Len(s) + Len(t)
BY ConcatProperties DEF Bytes

LEMMA Empty == <<>> \in Bytes /\ \A s \in Bytes : s \o <<>> = s /\ <<>> \o s = s
BY ConcatEmptySeq, EmptySeq DEF Bytes

LEMMA Regroup == \A s, t, u \in Bytes : (s \o t) \o u = s \o (t \o u)
BY ConcatAssociative DEF Bytes

Regrouped(s, t, u, v) ==
    /\ (s \o t) \o (u \o v) = (s \o (t \o u)) \o v
    /\ (s \o (t \o u)) \o v = s \o (t \o (u \o v))

RegroupedThree(s, t, u) == (s \o t) \o u = s \o (t \o u)

LEMMA RegroupThree == \A s, t, u \in Bytes : RegroupedThree(s, t, u)
BY Regroup, Zenon DEF RegroupedThree

LEMMA RegroupFour == \A s, t, u, v \in Bytes : Regrouped(s, t, u, v)
<1> SUFFICES ASSUME NEW s \in Bytes, NEW t \in Bytes, NEW u \in Bytes, NEW v \in Bytes PROVE Regrouped(s, t, u, v)
    OBVIOUS
<1>1. t \o u \in Bytes /\ u \o v \in Bytes
    BY Concat
<1>2. (s \o t) \o (u \o v) = s \o (t \o (u \o v))
    <2>1. RegroupedThree(s, t, u \o v)
        BY <1>1, RegroupThree, Zenon
    <2>2. QED
        BY <2>1, Zenon DEF RegroupedThree
<1>3. (t \o u) \o v = t \o (u \o v)
    <2>1. RegroupedThree(t, u, v)
        BY RegroupThree, Zenon
    <2>2. QED
        BY <2>1, Zenon DEF RegroupedThree
<1>4. (s \o (t \o u)) \o v = s \o ((t \o u) \o v)
    <2>1. RegroupedThree(s, t \o u, v)
        BY <1>1, RegroupThree, ZenonT(40)
    <2>2. QED
        BY <2>1, Zenon DEF RegroupedThree
<1>5. QED
    BY <1>2, <1>3, <1>4, Zenon DEF Regrouped

LEMMA Cut ==
    ASSUME NEW s \in Bytes, NEW n \in Nat, n <= Len(s)
    PROVE  /\ SubSeq(s, 1, n) \in Bytes /\ SubSeq(s, n + 1, Len(s)) \in Bytes
           /\ s = SubSeq(s, 1, n) \o SubSeq(s, n + 1, Len(s))
<1>1. Len(s) \in Nat /\ \A i \in 1 .. Len(s) : s[i] \in STRING
    BY LenProperties, ElementOfSeq DEF Bytes
<1>2. SubSeq(s, 1, n) \in Bytes /\ SubSeq(s, n + 1, Len(s)) \in Bytes
    BY <1>1, SubSeqProperties DEF Bytes
<1>3. SubSeq(s, 1, n) \o SubSeq(s, n + 1, Len(s)) = SubSeq(s, 1, Len(s))
    <2>1. 1 \in 1 .. Len(s) + 1 /\ n \in 1 - 1 .. Len(s) /\ Len(s) \in n .. Len(s)
        BY <1>1
    <2>2. QED
        BY <2>1, ConcatAdjacentSubSeq DEF Bytes
<1>4. SubSeq(s, 1, Len(s)) = s
    BY SubSeqFull DEF Bytes
<1>5. QED
    BY <1>2, <1>3, <1>4, ZenonT(40)

LEMMA FrontIsPrefix == \A s, t \in Bytes : IsPrefix(s, s \o t)
<1> SUFFICES ASSUME NEW s \in Bytes, NEW t \in Bytes PROVE IsPrefix(s, s \o t)
    OBVIOUS
<1>1. /\ s \o t \in Bytes /\ Len(s) \in Nat /\ Len(t) \in Nat /\ Len(s \o t) = Len(s) + Len(t)
      /\ \A i \in 1 .. Len(s) : (s \o t)[i] = s[i] /\ s[i] \in STRING
    BY ConcatProperties, LenProperties, ElementOfSeq DEF Bytes
<1>2. /\ SubSeq(s, 1, Len(s)) \in Bytes /\ SubSeq(s \o t, 1, Len(s)) \in Bytes
      /\ Len(SubSeq(s, 1, Len(s))) = Len(SubSeq(s \o t, 1, Len(s)))
      /\ \A i \in 1 .. Len(SubSeq(s, 1, Len(s))) : SubSeq(s, 1, Len(s))[i] = SubSeq(s \o t, 1, Len(s))[i]
    <2>1. \A i \in 1 .. Len(s) : s[i] \in STRING /\ (s \o t)[i] \in STRING
        BY <1>1
    <2>2. /\ SubSeq(s, 1, Len(s)) \in Bytes /\ Len(SubSeq(s, 1, Len(s))) = Len(s)
          /\ \A i \in 1 .. Len(s) : SubSeq(s, 1, Len(s))[i] = s[i]
        BY <1>1, <2>1, SubSeqProperties DEF Bytes
    <2>3. /\ SubSeq(s \o t, 1, Len(s)) \in Bytes /\ Len(SubSeq(s \o t, 1, Len(s))) = Len(s)
          /\ \A i \in 1 .. Len(s) : SubSeq(s \o t, 1, Len(s))[i] = (s \o t)[i]
        BY <1>1, <2>1, SubSeqProperties DEF Bytes
    <2>4. QED
        BY <1>1, <2>2, <2>3
<1>3. SubSeq(s, 1, Len(s)) = SubSeq(s \o t, 1, Len(s))
    BY <1>2, SeqEqual DEF Bytes
<1>4. QED
    BY <1>1, <1>3 DEF IsPrefix

-----------------------------------------------------------------------------
TcpShape ==
    /\ tcpServer \in {"down", "accept", "recv", "send", "killed"}
    /\ client \in [TcpClients -> [at : {"start", "typing", "waiting", "done"}, line : Bytes, hungUp : BOOLEAN]]
    /\ typed \in [TcpClients -> Bytes] /\ got \in [TcpClients -> Bytes]
    /\ up \in [TcpClients -> Bytes] /\ down \in [TcpClients -> Bytes]
    /\ tcpServer = "send" => SubSeq(tcpBuf, 1, recvlen) \in Bytes

(* One connection at a time is served, and none twice.                       *)
OneServed ==
    /\ serving \subseteq TcpClients /\ \A c, d \in serving : c = d
    /\ tcpServer \in {"down", "accept"} => serving = {}
    /\ backlog \in Seq(TcpClients)
    /\ \A i, j \in 1 .. Len(backlog) : backlog[i] = backlog[j] => i = j
    /\ \A i \in 1 .. Len(backlog) : backlog[i] \notin serving

(* A client that was hung up on is served no more, or will read no more.     *)
Fresh(c) == client[c].at = "start"
HungUpIsOver ==
    /\ \A c \in TcpClients : Fresh(c) => ~client[c].hungUp /\ c \notin serving
    /\ \A i \in 1 .. Len(backlog) : ~Fresh(backlog[i]) /\ ~client[backlog[i]].hungUp
    /\ \A c \in serving : client[c].hungUp => client[c].at = "done"

Echoed(c) == got[c] \o down[c]
InBuffer(c) == IF tcpServer = "send" /\ c \in serving THEN SubSeq(tcpBuf, 1, recvlen) ELSE <<>>

(* Nothing is lost of, and nothing gets between, what a client has sent,     *)
(* unless it was hung up on: then the end is missing.                        *)
NothingBetween ==
    \A c \in TcpClients :
        IF client[c].hungUp THEN \E rest \in Bytes : typed[c] = Echoed(c) \o rest
        ELSE typed[c] = Echoed(c) \o (InBuffer(c) \o up[c])

TcpInv == TcpShape /\ OneServed /\ HungUpIsOver /\ NothingBetween

LEMMA TcpInvInit == TcpInit => TcpInv
<1> SUFFICES ASSUME TcpInit PROVE TcpInv
    OBVIOUS
<1> USE Empty, EmptySeq
<1>1. TcpShape
    <2>1. [c \in TcpClients |-> <<>>] \in [TcpClients -> Bytes]
        OBVIOUS
    <2>2. [c \in TcpClients |-> [at |-> "start", line |-> <<>>, hungUp |-> FALSE]]
              \in [TcpClients -> [at : {"start", "typing", "waiting", "done"}, line : Bytes, hungUp : BOOLEAN]]
        OBVIOUS
    <2>3. QED
        BY <2>1, <2>2 DEF TcpInit, TcpShape
<1>2. OneServed
    BY DEF TcpInit, OneServed
<1>3. HungUpIsOver
    BY DEF TcpInit, HungUpIsOver, Fresh
<1>4. NothingBetween
    BY DEF TcpInit, NothingBetween, Echoed, InBuffer
<1>5. QED
    BY <1>1, <1>2, <1>3, <1>4 DEF TcpInv

ClientType == [TcpClients -> [at : {"start", "typing", "waiting", "done"}, line : Bytes, hungUp : BOOLEAN]]

LEMMA Closes ==
    ASSUME client \in ClientType, CloseConnection
    PROVE  /\ client' \in ClientType /\ serving' = {} /\ tcpServer' = "accept"
           /\ \A c \in TcpClients : /\ client'[c].at = client[c].at
                                    /\ client'[c].hungUp <=> (client[c].hungUp \/ c \in serving)
<1> DEFINE closed(c) == [client[c] EXCEPT !.hungUp = @ \/ c \in serving]
           ClientStates == [at : {"start", "typing", "waiting", "done"}, line : Bytes, hungUp : BOOLEAN]
<1>1. client' = [c \in TcpClients |-> closed(c)] /\ serving' = {} /\ tcpServer' = "accept"
    BY DEF CloseConnection
<1>2. ASSUME NEW c \in TcpClients
      PROVE  /\ closed(c) \in ClientStates
             /\ closed(c).at = client[c].at
             /\ closed(c).hungUp <=> (client[c].hungUp \/ c \in serving)
    <2>1. client[c] \in ClientStates
        BY DEF ClientType
    <2>2. ASSUME NEW r \in ClientStates, NEW h \in BOOLEAN
          PROVE  [r EXCEPT !.hungUp = h] \in ClientStates /\ [r EXCEPT !.hungUp = h].at = r.at /\ [r EXCEPT !.hungUp = h].hungUp = h
        OBVIOUS
    <2>3. (client[c].hungUp \/ c \in serving) \in BOOLEAN
        BY Zenon
    <2>4. QED
        BY <2>1, <2>2, <2>3, Zenon
<1> HIDE DEF closed
<1>3. \A c \in TcpClients : client'[c] = closed(c)
    BY <1>1
<1>4. client' \in ClientType
    BY <1>1, <1>2 DEF ClientType
<1>5. QED
    BY <1>1, <1>2, <1>3, <1>4, Zenon

AtChanged(old, c, at) == [old EXCEPT ![c].at = at]

AtChangedOnly(new, old, c, at) ==
    /\ new \in ClientType /\ new[c].at = at
    /\ \A d \in TcpClients : new[d].hungUp = old[d].hungUp /\ (d # c => new[d] = old[d])

LEMMA AtChanges ==
    \A old \in ClientType : \A c \in TcpClients : \A at \in {"start", "typing", "waiting", "done"} :
        AtChangedOnly(AtChanged(old, c, at), old, c, at)
BY DEF ClientType, AtChanged, AtChangedOnly

LEMMA Moves ==
    ASSUME client \in ClientType, NEW c \in TcpClients, NEW at \in {"start", "typing", "waiting", "done"},
           client' = [client EXCEPT ![c].at = at]
    PROVE  /\ client' \in ClientType /\ client'[c].at = at
           /\ \A d \in TcpClients : /\ client'[d].hungUp = client[d].hungUp
                                    /\ d # c => client'[d] = client[d]
<1>1. client' = AtChanged(client, c, at)
    BY DEF AtChanged
<1>2. AtChangedOnly(client', client, c, at)
    BY <1>1, AtChanges, Zenon
<1>3. QED
    BY <1>2 DEF AtChangedOnly

LEMMA Types ==
    ASSUME client \in ClientType, NEW c \in TcpClients, NEW line \in Bytes,
           NEW at \in {"start", "typing", "waiting", "done"},
           client' = [client EXCEPT ![c].line = line, ![c].at = at]
    PROVE  /\ client' \in ClientType /\ client'[c].at = at
           /\ \A d \in TcpClients : /\ client'[d].hungUp = client[d].hungUp
                                    /\ d # c => client'[d] = client[d]
<1>1. PICK told \in ClientType :
          /\ \A d \in TcpClients : told[d].hungUp = client[d].hungUp /\ (d # c => told[d] = client[d])
          /\ client' = AtChanged(told, c, at)
    <2> DEFINE told == [client EXCEPT ![c].line = line]
    <2>1. /\ told \in ClientType
          /\ \A d \in TcpClients : told[d].hungUp = client[d].hungUp /\ (d # c => told[d] = client[d])
        BY DEF ClientType
    <2>2. client' = AtChanged(told, c, at)
        BY DEF AtChanged
    <2> HIDE DEF told
    <2>3. QED
        BY <2>1, <2>2
<1>2. /\ client' \in ClientType /\ client'[c].at = at
      /\ \A d \in TcpClients : /\ client'[d].hungUp = told[d].hungUp
                               /\ d # c => client'[d] = told[d]
    <2>1. AtChangedOnly(client', told, c, at)
        BY <1>1, AtChanges, ZenonT(40)
    <2>2. QED
        BY <2>1 DEF AtChangedOnly
<1>3. QED
    BY <1>1, <1>2

LEMMA HangsUp ==
    ASSUME client \in ClientType, NEW c \in TcpClients, client' = [client EXCEPT ![c].hungUp = TRUE]
    PROVE  /\ client' \in ClientType /\ client'[c].hungUp
           /\ \A d \in TcpClients : /\ client'[d].at = client[d].at
                                    /\ d # c => client'[d] = client[d]
BY DEF ClientType

LEMMA TcpShapeStep == TcpInv /\ [TcpNext]_tcpVars => TcpShape'
<1> SUFFICES ASSUME TcpInv, [TcpNext]_tcpVars PROVE TcpShape'
    OBVIOUS
<1> USE DEF TcpShape
<1>1. TcpShape /\ client \in ClientType
    BY DEF TcpInv, ClientType
<1>2. (client \in ClientType)' => client' \in [TcpClients -> [at : {"start", "typing", "waiting", "done"}, line : Bytes, hungUp : BOOLEAN]]
    BY DEF ClientType
<1>3. CASE UNCHANGED tcpVars
    BY <1>1, <1>3 DEF tcpVars, links
<1>4. CASE Listen \/ Accept
    BY <1>1, <1>4 DEF Listen, Accept, links
<1>5. ASSUME NEW c \in TcpClients, Recv(c) PROVE TcpShape'
    <2>1. PICK n \in 1 .. BUF_SIZE :
              /\ n <= Len(up[c]) /\ recvlen' = n
              /\ tcpBuf' = [i \in 1 .. BUF_SIZE |-> IF i <= n THEN up[c][i] ELSE tcpBuf[i]]
              /\ up' = [up EXCEPT ![c] = SubSeq(@, n + 1, Len(@))]
        BY <1>5 DEF Recv
    <2>2. up[c] \in Bytes /\ n \in Nat
        BY <1>1, <2>1, TcpAssumption
    <2>3. SubSeq(up[c], n + 1, Len(up[c])) \in Bytes
        BY <2>1, <2>2, Cut
    <2>4. up' \in [TcpClients -> Bytes]
        BY <1>1, <2>1, <2>3
    <2>5. SubSeq(tcpBuf', 1, recvlen') \in Bytes
        <3>1. \A i \in 1 .. n : tcpBuf'[i] \in STRING
            BY <2>1, <2>2, TcpAssumption, ElementOfSeq, LenProperties DEF Bytes
        <3>2. QED
            BY <2>1, <2>2, <3>1, SubSeqProperties DEF Bytes
    <2>6. UNCHANGED <<typed, down, got>>
        BY <1>5 DEF Recv
    <2>7. client' \in ClientType /\ tcpServer' \in {"accept", "send"}
        BY <1>1, <1>5, Closes DEF Recv
    <2>8. QED
        BY <1>1, <1>2, <2>4, <2>5, <2>6, <2>7
<1>6. ASSUME NEW c \in TcpClients, RecvEnd(c) PROVE TcpShape'
    <2>1. client' \in ClientType /\ tcpServer' = "accept"
        BY <1>1, <1>6, Closes DEF RecvEnd
    <2>2. QED
        BY <1>1, <1>2, <1>6, <2>1 DEF RecvEnd, links
<1>7. ASSUME NEW c \in TcpClients, TcpSend(c) PROVE TcpShape'
    <2>1. down[c] \o SubSeq(tcpBuf, 1, recvlen) \in Bytes
        BY <1>1, <1>7, Concat DEF TcpSend
    <2>2. QED
        BY <1>1, <1>7, <2>1 DEF TcpSend
<1>8. ASSUME NEW c \in TcpClients, SendToClosed(c) PROVE TcpShape'
    <2>1. client' \in ClientType /\ tcpServer' \in {"recv", "accept", "killed"}
        BY <1>1, <1>8, Closes, HangsUp DEF SendToClosed
    <2>2. QED
        BY <1>1, <1>2, <1>8, <2>1 DEF SendToClosed, links
<1>9. ASSUME NEW c \in TcpClients, Connect(c) PROVE TcpShape'
    <2>1. client' \in ClientType
        BY <1>1, <1>9, Moves DEF Connect
    <2>2. QED
        BY <1>1, <1>2, <1>9, <2>1 DEF Connect, links
<1>10. ASSUME NEW c \in TcpClients, Type(c) PROVE TcpShape'
    <2>1. PICK line \in TcpLines \cup {client[c].line} :
             \/ /\ typed' = [typed EXCEPT ![c] = @ \o line]
                /\ up' = IF client[c].hungUp THEN up ELSE [up EXCEPT ![c] = @ \o line]
                /\ client' = [client EXCEPT ![c].line = line,
                                            ![c].at = IF StartsWithQuit(line) THEN "done" ELSE "waiting"]
             \/ client' = [client EXCEPT ![c].at = "done"] /\ UNCHANGED <<typed, up>>
        BY <1>10 DEF Type
    <2>2. line \in Bytes
        BY <1>1, TcpAssumption DEF Bytes
    <2>3. client' \in ClientType
        BY <1>1, <2>1, <2>2, Moves, Types
    <2>4. typed[c] \o line \in Bytes /\ up[c] \o line \in Bytes
        BY <1>1, <2>2, Concat
    <2>5. typed' \in [TcpClients -> Bytes] /\ up' \in [TcpClients -> Bytes]
        <3>1. CASE UNCHANGED <<typed, up>>
            BY <1>1, <3>1
        <3>2. CASE typed' = [typed EXCEPT ![c] = @ \o line] /\ up' = IF client[c].hungUp THEN up ELSE [up EXCEPT ![c] = @ \o line]
            <4>1. typed' \in [TcpClients -> Bytes]
                BY <1>1, <2>4, <3>2
            <4>2. [up EXCEPT ![c] = @ \o line] \in [TcpClients -> Bytes]
                BY <1>1, <2>4
            <4>3. QED
                BY <1>1, <3>2, <4>1, <4>2, Zenon
        <3>3. QED
            BY <2>1, <3>1, <3>2
    <2>6. UNCHANGED <<tcpServer, tcpBuf, recvlen, down, got>>
        BY <1>10 DEF Type
    <2>7. QED
        BY <1>1, <1>2, <2>3, <2>5, <2>6
<1>11. ASSUME NEW c \in TcpClients, Receive(c) PROVE TcpShape'
    <2>1. UNCHANGED <<tcpServer, tcpBuf, recvlen, typed, up>>
        BY <1>11 DEF Receive
    <2>2. client' \in ClientType
        BY <1>1, <1>11, Moves DEF Receive
    <2>3. got' \in [TcpClients -> Bytes] /\ down' \in [TcpClients -> Bytes]
        <3>1. CASE UNCHANGED <<down, got>>
            BY <1>1, <3>1
        <3>2. ASSUME NEW n \in 1 .. Len(down[c]),
                     got' = [got EXCEPT ![c] = @ \o SubSeq(down[c], 1, n)],
                     down' = [down EXCEPT ![c] = SubSeq(@, n + 1, Len(@))]
              PROVE  got' \in [TcpClients -> Bytes] /\ down' \in [TcpClients -> Bytes]
            <4>1. down[c] \in Bytes /\ Len(down[c]) \in Nat
                BY <1>1, LenProperties DEF Bytes
            <4>2. SubSeq(down[c], 1, n) \in Bytes /\ SubSeq(down[c], n + 1, Len(down[c])) \in Bytes
                <5>1. n \in Nat /\ n <= Len(down[c])
                    BY <4>1
                <5>2. QED
                    BY <4>1, <5>1, Cut
            <4>3. got[c] \o SubSeq(down[c], 1, n) \in Bytes
                BY <1>1, <4>2, Concat
            <4>4. QED
                BY <1>1, <3>2, <4>2, <4>3
        <3>3. QED
            BY <1>11, <3>1, <3>2 DEF Receive
    <2>4. QED
        BY <1>1, <1>2, <2>1, <2>2, <2>3
<1>12. QED
    BY <1>3, <1>4, <1>5, <1>6, <1>7, <1>8, <1>9, <1>10, <1>11 DEF TcpNext

(* What becomes of the connections, and of what the clients do.              *)
LEMMA ConnectionsStep == TcpInv /\ [TcpNext]_tcpVars => OneServed' /\ HungUpIsOver'
<1> SUFFICES ASSUME TcpInv, [TcpNext]_tcpVars PROVE OneServed' /\ HungUpIsOver'
    OBVIOUS
<1> USE DEF OneServed, HungUpIsOver, Fresh
<1>1. OneServed /\ HungUpIsOver /\ client \in ClientType
    BY DEF TcpInv, TcpShape, ClientType
<1>2. \A i \in 1 .. Len(backlog) : backlog[i] \in TcpClients
    BY <1>1, ElementOfSeq
<1>3. CASE UNCHANGED tcpVars
    BY <1>1, <1>3 DEF tcpVars
<1>4. CASE Listen
    BY <1>1, <1>4 DEF Listen
<1>5. CASE Accept
    <2>1. /\ backlog \in Seq(TcpClients) /\ backlog # <<>> /\ serving' = {Head(backlog)} /\ backlog' = Tail(backlog)
          /\ tcpServer' = "recv" /\ client' = client
        BY <1>1, <1>5 DEF Accept
    <2>2. /\ Len(backlog) \in Nat /\ Len(backlog) # 0 /\ Head(backlog) = backlog[1]
          /\ backlog' \in Seq(TcpClients) /\ Len(backlog') = Len(backlog) - 1
          /\ \A i \in 1 .. Len(backlog') : backlog'[i] = backlog[i + 1]
        BY <2>1, HeadTailProperties, LenProperties, EmptySeq
    <2>3. \A i \in 1 .. Len(backlog') : i + 1 \in 1 .. Len(backlog) /\ i + 1 # 1
        BY <2>2
    <2>4. 1 \in 1 .. Len(backlog)
        BY <2>2
    <2>5. QED
        BY <1>1, <1>2, <2>1, <2>2, <2>3, <2>4
<1>6. ASSUME CloseConnection, UNCHANGED backlog PROVE OneServed' /\ HungUpIsOver'
    BY <1>1, <1>2, <1>6, Closes
<1>7. ASSUME NEW c \in TcpClients, Recv(c) PROVE OneServed' /\ HungUpIsOver'
    BY <1>1, <1>6, <1>7 DEF Recv
<1>8. ASSUME NEW c \in TcpClients, RecvEnd(c) PROVE OneServed' /\ HungUpIsOver'
    BY <1>6, <1>8 DEF RecvEnd
<1>9. ASSUME NEW c \in TcpClients, TcpSend(c) PROVE OneServed' /\ HungUpIsOver'
    BY <1>1, <1>9 DEF TcpSend
<1>10. ASSUME NEW c \in TcpClients, SendToClosed(c) PROVE OneServed' /\ HungUpIsOver'
    <2>1. CASE CloseConnection
        BY <1>6, <1>10, <2>1 DEF SendToClosed
    <2>2. CASE client' = [client EXCEPT ![c].hungUp = TRUE] /\ UNCHANGED serving /\ tcpServer' = "recv"
        BY <1>1, <1>2, <1>10, <2>2, HangsUp DEF SendToClosed
    <2>3. CASE tcpServer' = "killed" /\ UNCHANGED <<serving, client>>
        BY <1>1, <1>10, <2>3 DEF SendToClosed
    <2>4. QED
        BY <1>10, <2>1, <2>2, <2>3 DEF SendToClosed
<1>11. ASSUME NEW c \in TcpClients, Connect(c) PROVE OneServed' /\ HungUpIsOver'
    <2>1. client[c].at = "start" /\ UNCHANGED <<tcpServer, serving>>
        BY <1>11 DEF Connect
    <2>2. CASE client' = [client EXCEPT ![c].at = "done"] /\ UNCHANGED backlog
        BY <1>1, <1>2, <2>1, <2>2, Moves
    <2>3. CASE client' = [client EXCEPT ![c].at = "typing"] /\ backlog' = Append(backlog, c)
        <3>1. /\ client'[c].at = "typing"
              /\ \A d \in TcpClients : client'[d].hungUp = client[d].hungUp /\ (d # c => client'[d] = client[d])
            BY <1>1, <2>3, Moves
        <3>2. /\ backlog' \in Seq(TcpClients) /\ Len(backlog) \in Nat /\ Len(backlog') = Len(backlog) + 1
              /\ \A i \in 1 .. Len(backlog) : backlog'[i] = backlog[i]
              /\ backlog'[Len(backlog) + 1] = c
            BY <1>1, <2>3, AppendProperties, LenProperties
        <3>3. \A i \in 1 .. Len(backlog') :
                 \/ i \in 1 .. Len(backlog) /\ backlog'[i] = backlog[i] /\ backlog[i] # c
                 \/ i = Len(backlog) + 1 /\ backlog'[i] = c
            <4> TAKE i \in 1 .. Len(backlog')
            <4>1. CASE i = Len(backlog) + 1
                BY <3>2, <4>1
            <4>2. CASE i # Len(backlog) + 1
                <5>1. i \in 1 .. Len(backlog)
                    BY <3>2, <4>2
                <5>2. QED
                    <6>1. client[backlog[i]].at # "start"
                        BY <1>1, <5>1
                    <6>2. QED
                        <7>1. backlog[i] # c
                            BY <2>1, <6>1
                        <7>2. QED
                            BY <3>2, <5>1, <7>1
            <4>3. QED
                BY <4>1, <4>2
        <3>4. c \notin serving /\ ~client[c].hungUp
            BY <1>1, <2>1
        <3>5. OneServed'
            BY <1>1, <2>1, <3>2, <3>3, <3>4
        <3>6. HungUpIsOver'
            BY <1>1, <1>2, <2>1, <3>1, <3>3, <3>4
        <3>7. QED
            BY <3>5, <3>6
    <2>4. QED
        BY <1>11, <2>2, <2>3 DEF Connect
<1>12. ASSUME NEW c \in TcpClients, Type(c) \/ Receive(c) PROVE OneServed' /\ HungUpIsOver'
    <2>1. UNCHANGED <<tcpServer, serving, backlog>> /\ client[c].at \in {"typing", "waiting"}
        BY <1>12 DEF Type, Receive
    <2>2. /\ client'[c].at \in {"typing", "waiting", "done"}
          /\ client[c].hungUp /\ c \in serving => client'[c].at = "done"
          /\ \A d \in TcpClients : client'[d].hungUp = client[d].hungUp /\ (d # c => client'[d] = client[d])
        <3>1. ~(client[c].hungUp /\ c \in serving)
            BY <1>1, <2>1
        <3>2. CASE Receive(c)
            BY <1>1, <3>1, <3>2, Moves DEF Receive
        <3>3. CASE Type(c)
            <4>1. PICK line \in TcpLines \cup {client[c].line} :
                     \/ client' = [client EXCEPT ![c].line = line,
                                                 ![c].at = IF StartsWithQuit(line) THEN "done" ELSE "waiting"]
                     \/ client' = [client EXCEPT ![c].at = "done"]
                BY <3>3 DEF Type
            <4>2. line \in Bytes
                BY <1>1, TcpAssumption DEF Bytes, ClientType
            <4>3. QED
                BY <1>1, <3>1, <4>1, <4>2, Moves, Types
        <3>4. QED
            BY <1>12, <3>2, <3>3
    <2>3. QED
        BY <1>1, <1>2, <2>1, <2>2
<1>13. QED
    BY <1>3, <1>4, <1>5, <1>7, <1>8, <1>9, <1>10, <1>11, <1>12 DEF TcpNext

(* What is sent, received and sent back passes through in order.             *)
LEMMA FlowStep == TcpInv /\ [TcpNext]_tcpVars => NothingBetween'
<1> SUFFICES ASSUME TcpInv, [TcpNext]_tcpVars PROVE NothingBetween'
    OBVIOUS
<1>1. /\ NothingBetween /\ OneServed /\ HungUpIsOver /\ client \in ClientType
      /\ typed \in [TcpClients -> Bytes] /\ got \in [TcpClients -> Bytes]
      /\ up \in [TcpClients -> Bytes] /\ down \in [TcpClients -> Bytes]
      /\ tcpServer = "send" => SubSeq(tcpBuf, 1, recvlen) \in Bytes
    BY DEF TcpInv, TcpShape, ClientType
<1>2. \A c \in TcpClients : Echoed(c) \in Bytes /\ InBuffer(c) \in Bytes /\ InBuffer(c) \o up[c] \in Bytes
    <2>1. \A c \in TcpClients : Echoed(c) \in Bytes /\ InBuffer(c) \in Bytes
        BY <1>1, Concat, Empty DEF Echoed, InBuffer
    <2>2. QED
        BY <1>1, <2>1, Concat
<1>3. ASSUME NEW d \in TcpClients,
             client'[d].hungUp <=> client[d].hungUp, typed'[d] = typed[d],
             Echoed(d)' = Echoed(d), InBuffer(d)' = InBuffer(d), up'[d] = up[d]
      PROVE  IF client'[d].hungUp THEN \E rest \in Bytes : typed'[d] = Echoed(d)' \o rest
             ELSE typed'[d] = Echoed(d)' \o (InBuffer(d)' \o up'[d])
    BY <1>1, <1>3 DEF NothingBetween
<1>4. CASE UNCHANGED tcpVars
    BY <1>1, <1>4 DEF tcpVars, links, NothingBetween, Echoed, InBuffer
<1>5. CASE Listen \/ Accept
    BY <1>1, <1>5 DEF Listen, Accept, links, NothingBetween, Echoed, InBuffer, OneServed
<1>6. ASSUME CloseConnection, UNCHANGED links PROVE NothingBetween'
    <2>1. ASSUME NEW c \in TcpClients
          PROVE  IF client'[c].hungUp THEN \E rest \in Bytes : typed'[c] = Echoed(c)' \o rest
                 ELSE typed'[c] = Echoed(c)' \o (InBuffer(c)' \o up'[c])
        <3>1. /\ typed'[c] = typed[c] /\ Echoed(c)' = Echoed(c) /\ up'[c] = up[c] /\ InBuffer(c)' = <<>>
              /\ client'[c].hungUp <=> (client[c].hungUp \/ c \in serving)
            BY <1>1, <1>6, Closes DEF links, Echoed, InBuffer
        <3>2. CASE ~client'[c].hungUp
            BY <1>1, <1>3, <3>1, <3>2 DEF InBuffer
        <3>3. CASE client'[c].hungUp
            <4>1. \E rest \in Bytes : typed[c] = Echoed(c) \o rest
                BY <1>1, <1>2 DEF NothingBetween
            <4>2. QED
                BY <3>1, <3>3, <4>1
        <3>4. QED
            BY <3>2, <3>3
    <2>2. QED
        BY <2>1 DEF NothingBetween
<1>7. ASSUME NEW c \in TcpClients, Recv(c) PROVE NothingBetween'
    <2>1. PICK n \in 1 .. BUF_SIZE :
              /\ n <= Len(up[c]) /\ recvlen' = n
              /\ tcpBuf' = [i \in 1 .. BUF_SIZE |-> IF i <= n THEN up[c][i] ELSE tcpBuf[i]]
              /\ up' = [up EXCEPT ![c] = SubSeq(@, n + 1, Len(@))]
        BY <1>7 DEF Recv
    <2>2. /\ up[c] \in Bytes /\ n \in Nat /\ Len(up[c]) \in Nat
          /\ SubSeq(up[c], 1, n) \in Bytes /\ up'[c] \in Bytes
          /\ up[c] = SubSeq(up[c], 1, n) \o up'[c]
        <3>1. up[c] \in Bytes /\ n \in Nat /\ Len(up[c]) \in Nat
            BY <1>1, TcpAssumption, LenProperties DEF Bytes
        <3>2. up'[c] = SubSeq(up[c], n + 1, Len(up[c]))
            BY <1>1, <2>1
        <3>3. QED
            BY <2>1, <3>1, <3>2, Cut
    <2>3. SubSeq(tcpBuf', 1, recvlen') = SubSeq(up[c], 1, n)
        <3>1. \A i \in 1 .. n : tcpBuf'[i] = up[c][i] /\ up[c][i] \in STRING
            BY <2>1, <2>2, TcpAssumption, ElementOfSeq DEF Bytes
        <3>2. /\ SubSeq(tcpBuf', 1, n) \in Bytes /\ Len(SubSeq(tcpBuf', 1, n)) = n
              /\ \A i \in 1 .. n : SubSeq(tcpBuf', 1, n)[i] = tcpBuf'[i]
            BY <2>1, <2>2, <3>1, SubSeqProperties DEF Bytes
        <3>3. /\ Len(SubSeq(up[c], 1, n)) = n
              /\ \A i \in 1 .. n : SubSeq(up[c], 1, n)[i] = up[c][i]
            BY <2>1, <2>2, <3>1, SubSeqProperties DEF Bytes
        <3>4. \A i \in 1 .. n : SubSeq(tcpBuf', 1, n)[i] = SubSeq(up[c], 1, n)[i]
            BY <3>1, <3>2, <3>3
        <3>5. SubSeq(tcpBuf', 1, n) = SubSeq(up[c], 1, n)
            BY <2>2, <3>2, <3>3, <3>4, SeqEqual DEF Bytes
        <3>6. QED
            BY <2>1, <3>5
    <2>4. UNCHANGED <<typed, down, got>> /\ tcpServer = "recv" /\ c \in serving /\ serving \subseteq {c}
        BY <1>1, <1>7 DEF Recv, OneServed
    <2>5. ASSUME NEW d \in TcpClients, d # c
          PROVE  IF client'[d].hungUp THEN \E rest \in Bytes : typed'[d] = Echoed(d)' \o rest
                 ELSE typed'[d] = Echoed(d)' \o (InBuffer(d)' \o up'[d])
        <3>1. up'[d] = up[d]
            BY <1>1, <2>1, <2>5
        <3>2. client'[d].hungUp <=> client[d].hungUp
            BY <1>1, <1>7, <2>4, <2>5, Closes DEF Recv
        <3>3. serving' \subseteq serving
            BY <1>7 DEF Recv, CloseConnection
        <3>4. InBuffer(d)' = InBuffer(d) /\ Echoed(d)' = Echoed(d)
            BY <2>4, <2>5, <3>3 DEF InBuffer, Echoed
        <3>5. QED
            BY <1>3, <2>4, <3>1, <3>2, <3>4
    <2>6. Echoed(c)' = Echoed(c) /\ typed'[c] = typed[c] /\ InBuffer(c) = <<>>
        BY <2>4 DEF Echoed, InBuffer
    <2>7. CASE CloseConnection
        <3>1. client'[c].hungUp
            BY <1>1, <2>4, <2>7, Closes
        <3>2. \E rest \in Bytes : typed[c] = Echoed(c) \o rest
            BY <1>1, <1>2 DEF NothingBetween
        <3>3. QED
            BY <2>5, <2>6, <3>1, <3>2 DEF NothingBetween
    <2>8. CASE tcpServer' = "send" /\ UNCHANGED <<serving, client>>
        <3>1. InBuffer(c)' \o up'[c] = up[c]
            BY <2>2, <2>3, <2>4, <2>8 DEF InBuffer
        <3>2. InBuffer(c) \o up[c] = up[c]
            BY <2>2, <2>6, Empty
        <3>3. IF client'[c].hungUp THEN \E rest \in Bytes : typed'[c] = Echoed(c)' \o rest
              ELSE typed'[c] = Echoed(c)' \o (InBuffer(c)' \o up'[c])
            BY <1>1, <2>6, <2>8, <3>1, <3>2 DEF NothingBetween
        <3>4. QED
            BY <2>5, <3>3 DEF NothingBetween
    <2>9. QED
        BY <1>7, <2>7, <2>8 DEF Recv
<1>8. ASSUME NEW c \in TcpClients, RecvEnd(c) PROVE NothingBetween'
    BY <1>6, <1>8 DEF RecvEnd
<1>9. ASSUME NEW c \in TcpClients, TcpSend(c) PROVE NothingBetween'
    <2>1. /\ UNCHANGED <<typed, up, got, client, serving>> /\ serving \subseteq {c} /\ c \in serving
          /\ down' = [down EXCEPT ![c] = @ \o SubSeq(tcpBuf, 1, recvlen)]
          /\ tcpServer = "send" /\ tcpServer' = "recv" /\ ~client[c].hungUp
        BY <1>1, <1>9 DEF TcpSend, OneServed, HungUpIsOver
    <2>2. ASSUME NEW d \in TcpClients, d # c
          PROVE  IF client'[d].hungUp THEN \E rest \in Bytes : typed'[d] = Echoed(d)' \o rest
                 ELSE typed'[d] = Echoed(d)' \o (InBuffer(d)' \o up'[d])
        <3>1. InBuffer(d)' = InBuffer(d) /\ Echoed(d)' = Echoed(d)
            BY <1>1, <2>1, <2>2 DEF InBuffer, Echoed
        <3>2. QED
            BY <1>3, <2>1, <3>1
    <2>3. typed[c] = (got[c] \o down[c]) \o (SubSeq(tcpBuf, 1, recvlen) \o up[c])
        BY <1>1, <2>1 DEF NothingBetween, Echoed, InBuffer
    <2>4. Echoed(c)' = got[c] \o (down[c] \o SubSeq(tcpBuf, 1, recvlen)) /\ InBuffer(c)' \o up'[c] = up[c]
        BY <1>1, <2>1, Empty DEF Echoed, InBuffer
    <2>5. typed[c] = (got[c] \o (down[c] \o SubSeq(tcpBuf, 1, recvlen))) \o up[c]
        <3>1. got[c] \in Bytes /\ down[c] \in Bytes /\ SubSeq(tcpBuf, 1, recvlen) \in Bytes /\ up[c] \in Bytes
            BY <1>1, <2>1
        <3>2. (got[c] \o down[c]) \o (SubSeq(tcpBuf, 1, recvlen) \o up[c])
                  = (got[c] \o (down[c] \o SubSeq(tcpBuf, 1, recvlen))) \o up[c]
            <4>1. Regrouped(got[c], down[c], SubSeq(tcpBuf, 1, recvlen), up[c])
                BY <3>1, RegroupFour, Zenon
            <4>2. QED
                BY <4>1 DEF Regrouped
        <3>3. QED
            BY <2>3, <3>2
    <2>6. QED
        BY <2>1, <2>2, <2>4, <2>5 DEF NothingBetween
<1>10. ASSUME NEW c \in TcpClients, SendToClosed(c) PROVE NothingBetween'
    <2>1. UNCHANGED links /\ c \in serving /\ serving \subseteq {c} /\ tcpServer = "send"
        BY <1>1, <1>10 DEF SendToClosed, OneServed
    <2>2. CASE CloseConnection
        BY <1>6, <2>1, <2>2
    <2>3. CASE \/ client' = [client EXCEPT ![c].hungUp = TRUE] /\ tcpServer' = "recv" /\ UNCHANGED serving
               \/ client[c].hungUp /\ tcpServer' = "killed" /\ UNCHANGED <<serving, client>>
        <3>1. ASSUME NEW d \in TcpClients, d # c
              PROVE  IF client'[d].hungUp THEN \E rest \in Bytes : typed'[d] = Echoed(d)' \o rest
                     ELSE typed'[d] = Echoed(d)' \o (InBuffer(d)' \o up'[d])
            <4>1. InBuffer(d)' = InBuffer(d) /\ Echoed(d)' = Echoed(d) /\ up'[d] = up[d] /\ typed'[d] = typed[d]
                BY <2>1, <2>3, <3>1 DEF InBuffer, Echoed, links
            <4>2. client'[d].hungUp <=> client[d].hungUp
                BY <1>1, <2>3, <3>1, HangsUp
            <4>3. QED
                BY <1>3, <4>1, <4>2
        <3>2. client'[c].hungUp /\ Echoed(c)' = Echoed(c) /\ typed'[c] = typed[c]
            BY <1>1, <2>1, <2>3, HangsUp DEF links, Echoed
        <3>3. \E rest \in Bytes : typed[c] = Echoed(c) \o rest
            BY <1>1, <1>2 DEF NothingBetween
        <3>4. QED
            BY <3>1, <3>2, <3>3 DEF NothingBetween
    <2>4. QED
        BY <1>10, <2>2, <2>3 DEF SendToClosed
<1>11. ASSUME NEW c \in TcpClients, Connect(c) PROVE NothingBetween'
    <2>1. UNCHANGED <<tcpServer, serving, tcpBuf, recvlen, typed, up, down, got>>
        BY <1>11 DEF Connect, links
    <2>2. \A d \in TcpClients : client'[d].hungUp = client[d].hungUp
        BY <1>1, <1>11, Moves DEF Connect
    <2>3. \A d \in TcpClients : InBuffer(d)' = InBuffer(d) /\ Echoed(d)' = Echoed(d)
        BY <2>1 DEF InBuffer, Echoed
    <2>4. QED
        BY <1>3, <2>1, <2>2, <2>3 DEF NothingBetween
<1>12. ASSUME NEW c \in TcpClients, Type(c) PROVE NothingBetween'
    <2>1. PICK line \in TcpLines \cup {client[c].line} :
             \/ /\ typed' = [typed EXCEPT ![c] = @ \o line]
                /\ up' = IF client[c].hungUp THEN up ELSE [up EXCEPT ![c] = @ \o line]
                /\ client' = [client EXCEPT ![c].line = line,
                                            ![c].at = IF StartsWithQuit(line) THEN "done" ELSE "waiting"]
             \/ client' = [client EXCEPT ![c].at = "done"] /\ UNCHANGED <<typed, up>>
        BY <1>12 DEF Type
    <2>2. line \in Bytes
        BY <1>1, TcpAssumption DEF Bytes, ClientType
    <2>3. \A d \in TcpClients : client'[d].hungUp = client[d].hungUp
        BY <1>1, <2>1, <2>2, Moves, Types
    <2>4. \A d \in TcpClients : InBuffer(d)' = InBuffer(d) /\ Echoed(d)' = Echoed(d)
        BY <1>12 DEF Type, InBuffer, Echoed
    <2>5. CASE UNCHANGED <<typed, up>>
        BY <1>3, <2>3, <2>4, <2>5 DEF NothingBetween
    <2>6. CASE typed' = [typed EXCEPT ![c] = @ \o line] /\ up' = IF client[c].hungUp THEN up ELSE [up EXCEPT ![c] = @ \o line]
        <3>1. ASSUME NEW d \in TcpClients, d # c
              PROVE  IF client'[d].hungUp THEN \E rest \in Bytes : typed'[d] = Echoed(d)' \o rest
                     ELSE typed'[d] = Echoed(d)' \o (InBuffer(d)' \o up'[d])
            <4>1. typed'[d] = typed[d] /\ up'[d] = up[d]
                BY <1>1, <2>6, <3>1
            <4>2. QED
                BY <1>3, <2>3, <2>4, <4>1
        <3>2. typed'[c] = typed[c] \o line
            BY <1>1, <2>6
        <3>3. CASE client[c].hungUp
            <4>1. PICK rest \in Bytes : typed[c] = Echoed(c) \o rest
                BY <1>1, <3>3 DEF NothingBetween
            <4>2. rest \o line \in Bytes /\ typed'[c] = Echoed(c) \o (rest \o line)
                <5>1. Echoed(c) \in Bytes
                    BY <1>2
                <5>2. (Echoed(c) \o rest) \o line = Echoed(c) \o (rest \o line) /\ rest \o line \in Bytes
                    BY <2>2, <5>1, Concat, Regroup, Zenon
                <5>3. QED
                    BY <3>2, <4>1, <5>2
            <4>3. QED
                BY <2>3, <2>4, <3>1, <3>3, <4>2 DEF NothingBetween
        <3>4. CASE ~client[c].hungUp
            <4>1. typed[c] = Echoed(c) \o (InBuffer(c) \o up[c]) /\ up'[c] = up[c] \o line
                BY <1>1, <2>6, <3>4 DEF NothingBetween
            <4>2. typed'[c] = Echoed(c) \o (InBuffer(c) \o up'[c])
                <5>1. Echoed(c) \in Bytes /\ InBuffer(c) \in Bytes /\ up[c] \in Bytes
                    BY <1>1, <1>2
                <5>2. (Echoed(c) \o (InBuffer(c) \o up[c])) \o line = Echoed(c) \o (InBuffer(c) \o (up[c] \o line))
                    <6>1. Regrouped(Echoed(c), InBuffer(c), up[c], line)
                        BY <2>2, <5>1, RegroupFour, Zenon
                    <6>2. QED
                        BY <6>1 DEF Regrouped
                <5>3. QED
                    BY <3>2, <4>1, <5>2
            <4>3. QED
                BY <2>3, <2>4, <3>1, <3>4, <4>2 DEF NothingBetween
        <3>5. QED
            BY <3>3, <3>4
    <2>7. QED
        BY <2>1, <2>5, <2>6
<1>13. ASSUME NEW c \in TcpClients, Receive(c) PROVE NothingBetween'
    <2>1. UNCHANGED <<tcpServer, serving, tcpBuf, recvlen, typed, up>>
        BY <1>13 DEF Receive
    <2>2. \A d \in TcpClients : client'[d].hungUp = client[d].hungUp
        BY <1>1, <1>13, Moves DEF Receive
    <2>3. \A d \in TcpClients : Echoed(d)' = Echoed(d)
        <3>1. CASE UNCHANGED <<down, got>>
            BY <3>1 DEF Echoed
        <3>2. ASSUME NEW n \in 1 .. Len(down[c]),
                     got' = [got EXCEPT ![c] = @ \o SubSeq(down[c], 1, n)],
                     down' = [down EXCEPT ![c] = SubSeq(@, n + 1, Len(@))]
              PROVE  \A d \in TcpClients : Echoed(d)' = Echoed(d)
            <4>1. down[c] \in Bytes /\ Len(down[c]) \in Nat
                BY <1>1, LenProperties DEF Bytes
            <4>2. n \in Nat /\ n <= Len(down[c])
                BY <4>1
            <4>3. /\ SubSeq(down[c], 1, n) \in Bytes /\ SubSeq(down[c], n + 1, Len(down[c])) \in Bytes
                  /\ down[c] = SubSeq(down[c], 1, n) \o SubSeq(down[c], n + 1, Len(down[c]))
                BY <4>1, <4>2, Cut
            <4>4. got'[c] \o down'[c] = got[c] \o down[c]
                <5>1. got[c] \in Bytes
                    BY <1>1
                <5>2. (got[c] \o SubSeq(down[c], 1, n)) \o SubSeq(down[c], n + 1, Len(down[c]))
                          = got[c] \o (SubSeq(down[c], 1, n) \o SubSeq(down[c], n + 1, Len(down[c])))
                    BY <4>3, <5>1, Regroup, Zenon
                <5>3. got'[c] = got[c] \o SubSeq(down[c], 1, n) /\ down'[c] = SubSeq(down[c], n + 1, Len(down[c]))
                    BY <1>1, <3>2
                <5>4. QED
                    BY <4>3, <5>2, <5>3
            <4>5. \A d \in TcpClients : d # c => got'[d] = got[d] /\ down'[d] = down[d]
                BY <1>1, <3>2
            <4>6. QED
                BY <4>4, <4>5 DEF Echoed
        <3>3. QED
            BY <1>13, <3>1, <3>2 DEF Receive
    <2>4. \A d \in TcpClients : InBuffer(d)' = InBuffer(d)
        BY <2>1 DEF InBuffer
    <2>5. QED
        BY <1>3, <2>1, <2>2, <2>3, <2>4 DEF NothingBetween
<1>14. QED
    BY <1>4, <1>5, <1>7, <1>8, <1>9, <1>10, <1>11, <1>12, <1>13 DEF TcpNext

LEMMA NothingBetweenIsOwn == TcpInv => EchoIsOwn
<1> SUFFICES ASSUME TcpInv, NEW c \in TcpClients PROVE IsPrefix(got[c] \o down[c], typed[c])
    BY DEF EchoIsOwn
<1>1. /\ got[c] \in Bytes /\ down[c] \in Bytes /\ up[c] \in Bytes
      /\ tcpServer = "send" => SubSeq(tcpBuf, 1, recvlen) \in Bytes
    BY DEF TcpInv, TcpShape
<1>2. Echoed(c) \in Bytes /\ InBuffer(c) \o up[c] \in Bytes
    BY <1>1, Concat, Empty DEF Echoed, InBuffer
<1>3. \E rest \in Bytes : typed[c] = Echoed(c) \o rest
    BY <1>2 DEF TcpInv, NothingBetween
<1>4. QED
    BY <1>2, <1>3, FrontIsPrefix DEF Echoed

(* server_blocked.c shares one buffer among all connections and never clears *)
(* it; yet no client is ever sent a byte that it did not itself send, or one *)
(* out of order, however TCP cuts the lines.                                 *)
THEOREM EchoesAreOwn == TcpSpec => []EchoIsOwn
<1>1. TcpInv /\ [TcpNext]_tcpVars => TcpInv'
    BY TcpShapeStep, ConnectionsStep, FlowStep DEF TcpInv
<1>2. QED
    BY <1>1, TcpInvInit, NothingBetweenIsOwn, PTL DEF TcpSpec

-----------------------------------------------------------------------------
(* socket/udp.  A client has one line under way at most, its last one, on the*)
(* network or in the hands of the server, and none while it is typing.       *)
UdpShape ==
    /\ udpServer \in {"down", "recv", "send", "stopped"}
    /\ udpClient \in [UdpClients -> [at : {"typing", "waiting", "done"}, line : UdpLines, sent : Nat]]
    /\ net \subseteq [to : {"server", "client"}, client : UdpClients, line : UdpLines]
    /\ udpServer = "send" => peer \in [to : {"server"}, client : UdpClients, line : UdpLines]

InHand(c) == udpServer = "send" /\ peer.client = c

OneLineUnderWay ==
    /\ \A d, e \in net : d.client = e.client => d = e
    /\ \A d \in net : ~InHand(d.client) /\ d.line = udpClient[d.client].line /\ udpClient[d.client].at # "typing"
    /\ \A c \in UdpClients : InHand(c) => peer.line = udpClient[c].line /\ udpClient[c].at # "typing"

WaitingHasOne ==
    \A c \in UdpClients : udpClient[c].at = "waiting" =>
        InHand(c) \/ c \in udpLost \/ udpServer = "stopped" \/ \E d \in net : d.client = c

UdpInv == UdpShape /\ OneLineUnderWay /\ WaitingHasOne

LEMMA UdpInvInit == UdpInit => UdpInv
BY DEF UdpInit, UdpInv, UdpShape, OneLineUnderWay, WaitingHasOne, InHand, UdpLines

LEMMA UdpInvStep == UdpInv /\ [UdpNext]_udpVars => UdpInv'
<1> SUFFICES ASSUME UdpInv, [UdpNext]_udpVars PROVE UdpInv'
    OBVIOUS
<1> USE DEF UdpInv, UdpShape, OneLineUnderWay, WaitingHasOne, InHand, UdpLines
<1>1. CASE UNCHANGED udpVars
    BY <1>1 DEF udpVars
<1>2. CASE UdpBind
    BY <1>2 DEF UdpBind
<1>3. CASE Recvfrom
    BY <1>3 DEF Recvfrom
<1>4. CASE Sendto
    <2>1. CASE udpServer' = "stopped"
        BY <1>4, <2>1 DEF Sendto
    <2>2. CASE udpServer' = "recv"
        <3> DEFINE d == [to |-> "client", client |-> peer.client, line |-> peer.line]
        <3>1. net' = net \cup {d} /\ UNCHANGED <<peer, udpClient, udpLost>> /\ InHand(d.client) /\ udpServer = "send"
            BY <1>4, <2>2 DEF Sendto
        <3>2. d \in [to : {"server", "client"}, client : UdpClients, line : UdpLines]
            BY <3>1
        <3>3. d.line = udpClient[d.client].line /\ udpClient[d.client].at # "typing"
            BY <3>1, <3>2
        <3>4. d.client = peer.client
            OBVIOUS
        <3> HIDE DEF d
        <3>5. OneLineUnderWay'
            BY <2>2, <3>1, <3>2, <3>3
        <3>6. WaitingHasOne'
            BY <2>2, <3>1, <3>4
        <3>7. QED
            BY <2>2, <3>1, <3>2, <3>5, <3>6
    <2>3. QED
        BY <1>4, <2>1, <2>2 DEF Sendto
<1>5. CASE Lose
    BY <1>5 DEF Lose
<1>6. ASSUME NEW c \in UdpClients, UdpType(c) PROVE UdpInv'
    <2>1. PICK line \in UdpLines :
              /\ IF udpServer \in {"down", "stopped"}
                 THEN udpLost' = udpLost \cup {c} /\ UNCHANGED net
                 ELSE net' = net \cup {[to |-> "server", client |-> c, line |-> line]} /\ UNCHANGED udpLost
              /\ udpClient' = [udpClient EXCEPT ![c] = [at |-> IF line = "quit" THEN "done" ELSE "waiting",
                                                        line |-> line, sent |-> @.sent + 1]]
        BY <1>6 DEF UdpType
    <2>2. udpClient[c].at = "typing" /\ UNCHANGED <<udpServer, peer>>
        BY <1>6 DEF UdpType
    <2>3. \A d \in net : d.client # c
        BY <2>2
    <2>4. ~InHand(c)
        BY <2>2
    <2>5. udpClient'[c].line = line /\ udpClient'[c].at \in {"done", "waiting"}
          /\ \A k \in UdpClients : k # c => udpClient'[k] = udpClient[k]
        BY <2>1
    <2>6. udpClient' \in [UdpClients -> [at : {"typing", "waiting", "done"}, line : UdpLines, sent : Nat]]
        BY <2>1
    <2>7. CASE udpServer \in {"down", "stopped"}
        <3>1. udpLost' = udpLost \cup {c} /\ UNCHANGED net
            BY <2>1, <2>7
        <3>2. QED
            BY <2>2, <2>3, <2>4, <2>5, <2>6, <2>7, <3>1
    <2>8. CASE udpServer \notin {"down", "stopped"}
        <3> DEFINE d == [to |-> "server", client |-> c, line |-> line]
        <3>1. net' = net \cup {d} /\ UNCHANGED udpLost
            BY <2>1, <2>8
        <3>2. /\ d \in [to : {"server", "client"}, client : UdpClients, line : UdpLines]
              /\ d.client = c /\ d.line = line
            OBVIOUS
        <3> HIDE DEF d
        <3>3. UdpShape'
            BY <2>2, <2>6, <3>1, <3>2
        <3>4. OneLineUnderWay'
            BY <2>2, <2>3, <2>4, <2>5, <3>1, <3>2
        <3>5. WaitingHasOne'
            BY <2>2, <2>5, <3>1, <3>2
        <3>6. QED
            BY <3>3, <3>4, <3>5
    <2>9. QED
        BY <2>7, <2>8
<1>7. ASSUME NEW c \in UdpClients, UdpReceive(c) PROVE UdpInv'
    <2>1. PICK d \in net :
              /\ d.client = c /\ net' = net \ {d}
              /\ udpClient' = [udpClient EXCEPT ![c].at = "typing", ![c].line = d.line]
        BY <1>7 DEF UdpReceive
    <2>2. UNCHANGED <<udpServer, peer, udpLost>>
        BY <1>7 DEF UdpReceive
    <2>3. udpClient' \in [UdpClients -> [at : {"typing", "waiting", "done"}, line : UdpLines, sent : Nat]]
        <3>1. d.line = udpClient[c].line
            BY <2>1
        <3> DEFINE typing == [udpClient EXCEPT ![c].at = "typing"]
        <3>2. udpClient' = [typing EXCEPT ![c].line = d.line]
            BY <2>1
        <3>3. typing \in [UdpClients -> [at : {"typing", "waiting", "done"}, line : UdpLines, sent : Nat]]
            OBVIOUS
        <3>4. d.line \in UdpLines
            BY <3>1
        <3>5. QED
            <4> HIDE DEF typing
            <4>1. QED
                BY <3>2, <3>3, <3>4
    <2>4. udpClient'[c].at = "typing" /\ \A k \in UdpClients : k # c => udpClient'[k] = udpClient[k]
        BY <2>1
    <2>5. ~InHand(c) /\ \A e \in net' : e.client # c
        BY <2>1
    <2>6. QED
        BY <2>1, <2>2, <2>3, <2>4, <2>5
<1>8. ASSUME NEW c \in UdpClients, UdpFails(c) PROVE UdpInv'
    BY <1>8 DEF UdpFails
<1>9. QED
    BY <1>1, <1>2, <1>3, <1>4, <1>5, <1>6, <1>7, <1>8 DEF UdpNext

(* A client that waits has its line or the answer to it under way, unless a  *)
(* datagram of it was lost or the server has stopped; it can get no other    *)
(* answer than that to its last line.                                        *)
THEOREM WaitersAreAnswered == UdpSpec => []WaitingIsAnswered
<1>1. UdpInv => WaitingIsAnswered
    BY DEF UdpInv, UdpShape, OneLineUnderWay, WaitingHasOne, InHand, WaitingIsAnswered
<1>2. QED
    BY <1>1, UdpInvInit, UdpInvStep, PTL DEF UdpSpec

-----------------------------------------------------------------------------
(* service_monitor.c.  The monitor waits exactly while it has a child, and   *)
(* only a failed fork makes it exit.                                         *)
MonitorInv ==
    /\ monitor \in {"none", "fork", "wait", "sleep", "exited"}
    /\ service \in {"none", "starting", "running", "ended"}
    /\ service # "none" <=> monitor = "wait"
    /\ seconds \in 0 .. 5
    /\ execErrors \in Nat
    /\ monitor = "exited" => forkFailed

LEMMA MonitorInvInit == MonitorInit => MonitorInv
BY DEF MonitorInit, MonitorInv

LEMMA MonitorInvStep == MonitorInv /\ [MonitorNext]_monitorVars => MonitorInv'
<1> SUFFICES ASSUME MonitorInv, [MonitorNext]_monitorVars PROVE MonitorInv'
    OBVIOUS
<1> USE DEF MonitorInv
<1>1. CASE UNCHANGED monitorVars
    BY <1>1 DEF monitorVars
<1>2. CASE StartMonitor
    BY <1>2 DEF StartMonitor
<1>3. CASE Fork \/ ForkFails
    BY <1>3 DEF Fork, ForkFails
<1>4. CASE Exec \/ ServiceEnds
    BY <1>4 DEF Exec, ServiceEnds
<1>5. CASE WaitReturns \/ Sleep
    BY <1>5 DEF WaitReturns, Sleep
<1>6. CASE fun
    BY <1>6 DEF fun
<1>7. QED
    BY <1>1, <1>2, <1>3, <1>4, <1>5, <1>6 DEF MonitorNext, MonitorStep

(* A service that ended is being waited for, so that none is ever left       *)
(* behind and no second one started; and a monitor whose service does not run*)
(* is in one of the places where it, or the child before execl, can go on.   *)
ChildIsWaitedFor ==
    /\ service # "none" => monitor = "wait"
    /\ monitor \notin {"none", "exited"} /\ service # "running" =>
          \/ monitor \in {"fork", "sleep"} \/ service = "starting"
          \/ monitor = "wait" /\ service = "ended"

(* The steps to the next run of the service: wait, five seconds, the end of  *)
(* the sleep, fork and execl.                                                *)
StepsToRun ==
    IF service = "running" THEN 0 ELSE IF service = "starting" THEN 1
    ELSE IF monitor = "fork" THEN 2 ELSE IF monitor = "sleep" THEN 3 + seconds ELSE 9

(* No signal takes the service further from its next run, and a step of the  *)
(* monitor or of the child takes it nearer unless a fork or execl fails.     *)
NearerToRun ==
    /\ fun => StepsToRun' <= StepsToRun
    /\ MonitorStep => StepsToRun' < StepsToRun \/ forkFailed' \/ execErrors' > execErrors

(* The safety half of PulledUpAgain: whatever signals arrive at              *)
(* service_monitor.c, an ended service is waited for and every step of the   *)
(* loop that does not fail brings its next run nearer.                       *)
THEOREM EveryStepPullsUp == MonitorSpec => []ChildIsWaitedFor /\ [][NearerToRun]_monitorVars
<1>1. MonitorInv => ChildIsWaitedFor
    BY DEF MonitorInv, ChildIsWaitedFor
<1>2. MonitorInv /\ [MonitorNext]_monitorVars => [NearerToRun]_monitorVars
    <2> SUFFICES ASSUME MonitorInv, MonitorNext PROVE NearerToRun
        OBVIOUS
    <2> USE DEF MonitorInv, StepsToRun
    <2>1. ASSUME fun PROVE StepsToRun' <= StepsToRun
        BY <2>1 DEF fun
    <2>2. ASSUME Fork \/ ForkFails PROVE StepsToRun' < StepsToRun \/ forkFailed'
        BY <2>2 DEF Fork, ForkFails
    <2>3. ASSUME Exec PROVE StepsToRun' < StepsToRun \/ execErrors' > execErrors
        BY <2>3 DEF Exec
    <2>4. ASSUME WaitReturns PROVE StepsToRun' < StepsToRun
        BY <2>4 DEF WaitReturns
    <2>5. ASSUME Sleep PROVE StepsToRun' < StepsToRun
        BY <2>5 DEF Sleep
    <2>6. QED
        BY <2>1, <2>2, <2>3, <2>4, <2>5 DEF NearerToRun, MonitorStep
<1>3. QED
    BY <1>1, <1>2, MonitorInvInit, MonitorInvStep, PTL DEF MonitorSpec
=============================================================================
