---------------------------- MODULE SortPrograms ----------------------------
(***************************************************************************)
(* algorithm/sort and the merge of exam/point_to_offer: what each leaves   *)
(* of the arrays it is given.  Arrays start at 1 here.                     *)
(***************************************************************************)
EXTENDS Integers, Sequences, SequencesExt, FiniteSetsExt

CONSTANTS
    MaxArray,   \* bound: the length of the arrays read
    MaxValue    \* bound: their values are 0 .. MaxValue

ASSUME SortAssumption == MaxArray \in Nat /\ MaxValue \in Nat

VARIABLE sorts  \* what is sorted or merged, once it has been read

sortVars == <<sorts>>

-----------------------------------------------------------------------------
(* A loop whose body runs n times; each iteration of the body is a function*)
(* of the variables that it changes.                                         *)
Loop(n, start, body) ==
    LET after[i \in 0 .. n] == IF i = 0 THEN start ELSE body[i][after[i - 1]]
    IN  after[n]

Ints(n) == [1 .. n -> Int]

(* sort.c.  bubble_sort: a pass over the first last + 1 values; the passes   *)
(* end with one that swaps nothing.                                          *)
swap(arr, i, j) == [arr EXCEPT ![i] = arr[j], ![j] = arr[i]]

Passed(n) == [arr : Ints(n), flag : BOOLEAN]
BubblePassFaulty(arr, last) ==
    Loop(last, [arr |-> arr, flag |-> FALSE], [j \in 1 .. last |-> [p \in Passed(Len(arr)) |->
        IF j < last /\ p.arr[j] > p.arr[j + 1] THEN [arr |-> swap(p.arr, j, j + 1), flag |-> TRUE] ELSE p]])
BubblePass(arr, last) ==
    Loop(last, [arr |-> arr, flag |-> FALSE], [j \in 1 .. last |-> [p \in Passed(Len(arr)) |->
        IF p.arr[j] > p.arr[j + 1] THEN [arr |-> swap(p.arr, j, j + 1), flag |-> TRUE] ELSE p]])

bubble_sort(arr) ==
    Loop(Len(arr), [arr |-> arr, flag |-> TRUE], [i \in 1 .. Len(arr) |-> [p \in Passed(Len(arr)) |->
        IF p.flag THEN BubblePass(p.arr, Len(arr) - i) ELSE p]]).arr

(* insert_sort: the values before i are sorted; the value at i moves in front*)
(* of the last ones that are greater.                                        *)
MovedDown(arr, i, j) ==
    [k \in DOMAIN arr |-> IF k < j \/ k > i THEN arr[k] ELSE IF k = j THEN arr[i] ELSE arr[k - 1]]

insert_sort(arr) ==
    Loop(Len(arr), arr, [i \in 1 .. Len(arr) |-> [a \in Ints(Len(arr)) |->
        MovedDown(a, i, Max({0} \cup {k \in 1 .. i - 1 : a[k] <= a[i]}) + 1)]])

(* quick_sort: partition moves smaller values down and greater ones up, one  *)
(* at a time, through the hole at low that the pivot left.                   *)
LastSmaller(arr, low, high, pivotkey) == Max({low} \cup {k \in low + 1 .. high : arr[k] < pivotkey})
FirstGreater(arr, low, high, pivotkey) == Min({high} \cup {k \in low + 1 .. high : arr[k] > pivotkey})

Exchange(s, pivotkey) ==
    LET h == LastSmaller(s.arr, s.low, s.high, pivotkey)
        a == [s.arr EXCEPT ![s.low] = s.arr[h]]
        l == FirstGreater(a, s.low, h, pivotkey)
    IN  IF s.low >= s.high THEN s
        ELSE IF l < h THEN [arr |-> [a EXCEPT ![h] = a[l]], low |-> l, high |-> h - 1]
        ELSE [arr |-> a, low |-> h, high |-> h]

partition(arr, low, high) ==
    LET Parts == [arr : Ints(Len(arr)), low : 1 .. Len(arr), high : 1 .. Len(arr)]
        end == Loop(high - low, [arr |-> arr, low |-> low, high |-> high],
                    [i \in 1 .. high - low |-> [s \in Parts |-> Exchange(s, arr[low])]])
    IN  [arr |-> [end.arr EXCEPT ![end.low] = arr[low]], at |-> end.low]

quick_sort(arr) ==
    LET n == Len(arr)
        qsort[r \in [arr : Ints(n), low : 1 .. n + 1, high : 0 .. n]] ==
            IF r.low >= r.high THEN r.arr
            ELSE LET p == partition(r.arr, r.low, r.high)
                     below == qsort[[arr |-> p.arr, low |-> r.low, high |-> p.at - 1]]
                 IN  qsort[[arr |-> below, low |-> p.at + 1, high |-> r.high]]
    IN  qsort[[arr |-> arr, low |-> 1, high |-> n]]

-----------------------------------------------------------------------------
(* point_to_offer/05_mergeArray.c fills the first array from its end, in     *)
(* place: i values of it and j of the second array are left to be taken.     *)
mergeArray(arr1, arr2) ==
    LET n == Len(arr1) + Len(arr2)
        room == [k \in 1 .. n |-> IF k <= Len(arr1) THEN arr1[k] ELSE 0]
        Merging == [arr1 : Ints(n), i : 0 .. Len(arr1), j : 0 .. Len(arr2)]
    IN  Loop(n, [arr1 |-> room, i |-> Len(arr1), j |-> Len(arr2)], [k \in 1 .. n |-> [m \in Merging |->
            IF m.i > 0 /\ (m.j = 0 \/ m.arr1[m.i] > arr2[m.j])
            THEN [arr1 |-> [m.arr1 EXCEPT ![m.i + m.j] = m.arr1[m.i]], i |-> m.i - 1, j |-> m.j]
            ELSE [arr1 |-> [m.arr1 EXCEPT ![m.i + m.j] = arr2[m.j]], i |-> m.i, j |-> m.j - 1]]]).arr1

-----------------------------------------------------------------------------
(* The arrays that can be read, and the step that reads one.                 *)
Arrays == BoundedSeq(0 .. MaxValue, MaxArray)
Sorted(arr) == \A i, j \in DOMAIN arr : i <= j => arr[i] <= arr[j]

SortInit == sorts = [program |-> "none"]
SortNext ==
    /\ sorts.program = "none"
    /\ \/ \E arr \in Arrays : sorts' = [program |-> "sort", arr |-> arr]
       \/ \E arr1, arr2 \in {arr \in Arrays : Sorted(arr)} :
             sorts' = [program |-> "merge", arr1 |-> arr1, arr2 |-> arr2]

SortSpec == SortInit /\ [][SortNext]_sortVars

-----------------------------------------------------------------------------
(* The three sorts of sort.c and the merge agree: each returns the values it *)
(* was given, in ascending order, equal ones included.                       *)
SortOf(result, arr) == Sorted(result) /\ ToBag(result) = ToBag(arr)
SortsAgree ==
    /\ sorts.program = "sort" =>
          \A result \in {bubble_sort(sorts.arr), insert_sort(sorts.arr), quick_sort(sorts.arr)} :
             SortOf(result, sorts.arr)
    /\ sorts.program = "merge" => SortOf(mergeArray(sorts.arr1, sorts.arr2), sorts.arr1 \o sorts.arr2)
=============================================================================
