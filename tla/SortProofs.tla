----------------------------- MODULE SortProofs -----------------------------
(***************************************************************************)
(* The sorts of sort.c and the merge of point_to_offer return what they    *)
(* were given in ascending order, for arrays of any length.                *)
(*                                                                         *)
(* Induction is over finite sets of numbers (UpTo).  From it comes a rule  *)
(* for loops (LoopInvariant), which gives bubble_sort, insert_sort,        *)
(* partition and mergeArray their invariants, and that the recursion of    *)
(* quick_sort has a solution (SorterExists).  "The same values" is a       *)
(* permutation and its inverse (Rearranged), "as often" is a bijection     *)
(* between the places of a value (RearrangedBag).                          *)
(***************************************************************************)
EXTENDS SortPrograms, FunctionTheorems, FiniteSetTheorems, SequenceTheorems, WellFoundedInduction, TLAPS

LEMMA LeastExists ==
    ASSUME NEW T \in SUBSET Nat, T # {}
    PROVE  \E x \in T : \A y \in T : x <= y
<1>1. \E x \in T : \A y \in T : ~(<<y, x>> \in OpToRel(<, Nat))
    BY NatLessThanWellFounded, WFMin
<1>2. PICK x \in T : \A y \in T : ~(<<y, x>> \in OpToRel(<, Nat))
    BY <1>1
<1>3. ASSUME NEW y \in T PROVE x <= y
    <2>1. x \in Nat /\ y \in Nat
        OBVIOUS
    <2>2. <<y, x>> \in Nat \X Nat /\ (y < x => <<y, x>> \in OpToRel(<, Nat))
        BY <2>1 DEF OpToRel
    <2>3. ~(y < x)
        BY <1>2, <2>2
    <2>4. QED
        BY <2>1, <2>3
<1>4. QED
    BY <1>3

(* What holds at 0 and goes from each number to the next up to n, holds at   *)
(* all of them: induction over a set of numbers.                             *)
LEMMA UpTo ==
    ASSUME NEW n \in Nat, NEW T, 0 \in T, \A i \in 1 .. n : i - 1 \in T => i \in T
    PROVE  \A i \in 0 .. n : i \in T
<1> DEFINE wrong == (0 .. n) \ T
<1> SUFFICES ASSUME wrong # {} PROVE FALSE
    OBVIOUS
<1>1. PICK m \in wrong : \A j \in wrong : m <= j
    <2>1. wrong \in SUBSET Nat
        OBVIOUS
    <2> HIDE DEF wrong
    <2>2. QED
        BY <2>1, LeastExists
<1>2. m \in 1 .. n /\ m - 1 \in 0 .. n /\ ~(m <= m - 1)
    BY <1>1
<1>3. m - 1 \in T
    BY <1>1, <1>2
<1>4. QED
    BY <1>1, <1>2, <1>3

-----------------------------------------------------------------------------
IsRun(g, m, start, body) == g = [i \in 0 .. m |-> IF i = 0 THEN start ELSE body[i][g[i - 1]]]

LEMMA RunExists ==
    ASSUME NEW n \in Nat, NEW start, NEW body
    PROVE  \E g : IsRun(g, n, start, body)
<1> DEFINE T == {m \in 0 .. n : \E g : IsRun(g, m, start, body)}
<1>1. 0 \in T
    <2>1. IsRun([i \in 0 .. 0 |-> start], 0, start, body)
        BY DEF IsRun
    <2>2. QED
        BY <2>1
<1>2. ASSUME NEW m \in 1 .. n, m - 1 \in T PROVE m \in T
    <2>1. PICK g : IsRun(g, m - 1, start, body)
        BY <1>2
    <2> DEFINE h == [i \in 0 .. m |-> IF i = m THEN body[m][g[m - 1]] ELSE g[i]]
    <2>2. ASSUME NEW i \in 0 .. m PROVE h[i] = IF i = 0 THEN start ELSE body[i][h[i - 1]]
        <3>1. i # 0 => i - 1 \in 0 .. m /\ i - 1 # m /\ h[i - 1] = g[i - 1]
            OBVIOUS
        <3>2. CASE i = m
            BY <3>1, <3>2
        <3>3. CASE i # m
            <4>1. i \in 0 .. m - 1 /\ h[i] = g[i]
                BY <3>3
            <4>2. g[i] = IF i = 0 THEN start ELSE body[i][g[i - 1]]
                BY <2>1, <4>1 DEF IsRun
            <4>3. QED
                BY <3>1, <4>1, <4>2
        <3>4. QED
            BY <3>2, <3>3
    <2>3. IsRun(h, m, start, body)
        BY <2>2 DEF IsRun
    <2>4. QED
        BY <2>3
<1>3. n \in T
    <2> HIDE DEF T
    <2>1. n \in 0 .. n
        OBVIOUS
    <2>2. QED
        BY <1>1, <1>2, <2>1, UpTo
<1>4. QED
    BY <1>3

(* The rule for a loop.  Inv[i] are the states it can be in after i          *)
(* iterations.                                                               *)
LEMMA LoopInvariant ==
    ASSUME NEW n \in Nat, NEW start, NEW body, NEW Inv, start \in Inv[0],
           \A i \in 1 .. n : \A x \in Inv[i - 1] : body[i][x] \in Inv[i]
    PROVE  Loop(n, start, body) \in Inv[n]
<1> DEFINE Step(g) == [i \in 0 .. n |-> IF i = 0 THEN start ELSE body[i][g[i - 1]]]
           after == CHOOSE g : g = Step(g)
<1>1. Loop(n, start, body) = after[n]
    BY DEF Loop
<1>2. PICK g : IsRun(g, n, start, body)
    BY RunExists, SMTT(40)
<1>3. after = Step(after)
    <2>1. g = Step(g)
        BY <1>2 DEF IsRun
    <2>2. QED
        BY <2>1, ZenonT(40)
<1> HIDE DEF after
<1> DEFINE T == {i \in 0 .. n : after[i] \in Inv[i]}
<1>4. 0 \in T
    BY <1>3
<1>5. ASSUME NEW i \in 1 .. n, i - 1 \in T PROVE i \in T
    <2>1. after[i] = body[i][after[i - 1]]
        BY <1>3
    <2>2. after[i - 1] \in Inv[i - 1]
        BY <1>5
    <2>3. QED
        BY <2>1, <2>2
<1>6. n \in T
    <2> HIDE DEF T
    <2>1. n \in 0 .. n
        OBVIOUS
    <2>2. QED
        BY <1>4, <1>5, <2>1, UpTo
<1>7. QED
    BY <1>1, <1>6

-----------------------------------------------------------------------------
(* r has the values of s in another order, and the same ones outside of      *)
(* lo .. hi: from[i] is where r[i] was, to is the way back.                  *)
WayBack(n, from, to) ==
    /\ from \in [1 .. n -> 1 .. n] /\ to \in [1 .. n -> 1 .. n]
    /\ \A i \in 1 .. n : to[from[i]] = i /\ from[to[i]] = i

Rearranged(n, r, s, lo, hi) ==
    \E from, to \in [1 .. n -> 1 .. n] :
        /\ WayBack(n, from, to)
        /\ \A i \in 1 .. n : i < lo \/ i > hi => from[i] = i
        /\ \A i \in 1 .. n : r[i] = s[from[i]]

LEMMA RearrangedSame == ASSUME NEW n \in Nat, NEW s, NEW lo, NEW hi PROVE Rearranged(n, s, s, lo, hi)
<1> DEFINE same == [i \in 1 .. n |-> i]
<1>1. same \in [1 .. n -> 1 .. n] /\ WayBack(n, same, same)
    BY DEF WayBack
<1>2. QED
    BY <1>1 DEF Rearranged

LEMMA RearrangedTwice ==
    ASSUME NEW n \in Nat, NEW r, NEW s, NEW t, NEW lo, NEW hi,
           Rearranged(n, r, s, lo, hi), Rearranged(n, s, t, lo, hi)
    PROVE  Rearranged(n, r, t, lo, hi)
<1>1. PICK from1, to1 \in [1 .. n -> 1 .. n] :
          /\ WayBack(n, from1, to1)
          /\ \A i \in 1 .. n : i < lo \/ i > hi => from1[i] = i
          /\ \A i \in 1 .. n : r[i] = s[from1[i]]
    BY DEF Rearranged
<1>2. PICK from2, to2 \in [1 .. n -> 1 .. n] :
          /\ WayBack(n, from2, to2)
          /\ \A i \in 1 .. n : i < lo \/ i > hi => from2[i] = i
          /\ \A i \in 1 .. n : s[i] = t[from2[i]]
    BY DEF Rearranged
<1> DEFINE from == [i \in 1 .. n |-> from2[from1[i]]]
           to == [i \in 1 .. n |-> to1[to2[i]]]
<1>3. from \in [1 .. n -> 1 .. n] /\ to \in [1 .. n -> 1 .. n]
    OBVIOUS
<1>4. ASSUME NEW i \in 1 .. n PROVE to[from[i]] = i /\ from[to[i]] = i
    <2>1. to2[from2[from1[i]]] = from1[i] /\ to1[from1[i]] = i
        BY <1>1, <1>2 DEF WayBack
    <2>2. from1[to1[to2[i]]] = to2[i] /\ from2[to2[i]] = i
        BY <1>1, <1>2 DEF WayBack
    <2>3. QED
        BY <2>1, <2>2
<1>5. \A i \in 1 .. n : (i < lo \/ i > hi => from[i] = i) /\ r[i] = t[from[i]]
    BY <1>1, <1>2
<1>6. WayBack(n, from, to)
    BY <1>3, <1>4 DEF WayBack
<1>7. QED
    BY <1>3, <1>5, <1>6 DEF Rearranged

LEMMA RearrangedWithin ==
    ASSUME NEW n \in Nat, NEW r, NEW s, NEW lo \in Int, NEW hi \in Int, NEW low \in Int, NEW high \in Int,
           Rearranged(n, r, s, lo, hi), low <= lo, hi <= high
    PROVE  Rearranged(n, r, s, low, high)
<1>1. PICK from, to \in [1 .. n -> 1 .. n] :
          /\ WayBack(n, from, to)
          /\ \A i \in 1 .. n : i < lo \/ i > hi => from[i] = i
          /\ \A i \in 1 .. n : r[i] = s[from[i]]
    BY DEF Rearranged
<1>2. \A i \in 1 .. n : i < low \/ i > high => from[i] = i
    BY <1>1
<1>3. QED
    BY <1>1, <1>2 DEF Rearranged

(* A value of r inside lo .. hi was inside before, and one outside stays.    *)
LEMMA RearrangedValues ==
    ASSUME NEW n \in Nat, NEW r, NEW s, NEW lo \in Int, NEW hi \in Int, Rearranged(n, r, s, lo, hi)
    PROVE  /\ \A i \in 1 .. n : i < lo \/ i > hi => r[i] = s[i]
           /\ \A i \in 1 .. n : lo <= i /\ i <= hi =>
                 \E j \in 1 .. n : lo <= j /\ j <= hi /\ r[i] = s[j]
<1>1. PICK from, to \in [1 .. n -> 1 .. n] :
          /\ WayBack(n, from, to)
          /\ \A i \in 1 .. n : i < lo \/ i > hi => from[i] = i
          /\ \A i \in 1 .. n : r[i] = s[from[i]]
    BY DEF Rearranged
<1>2. ASSUME NEW i \in 1 .. n, lo <= i, i <= hi PROVE lo <= from[i] /\ from[i] <= hi
    <2>1. from[i] \in 1 .. n /\ from[i] \in Int
        OBVIOUS
    <2>2. ASSUME from[i] < lo \/ from[i] > hi PROVE FALSE
        <3>1. from[from[i]] = from[i]
            BY <1>1, <2>1, <2>2
        <3>2. to[from[from[i]]] = from[i] /\ to[from[i]] = i
            BY <1>1, <2>1 DEF WayBack
        <3>3. QED
            BY <1>2, <2>2, <3>1, <3>2
    <2> DEFINE x == from[i]
    <2>3. x \in Int /\ ~(x < lo \/ x > hi)
        BY <2>1, <2>2
    <2>4. lo <= x /\ x <= hi
        <3> HIDE DEF x
        <3>1. QED
            BY <2>3
    <2>5. QED
        BY <2>4
<1>3. QED
    BY <1>1, <1>2

LEMMA SwapIs ==
    ASSUME NEW n \in Nat, NEW s \in Ints(n), NEW i \in 1 .. n, NEW j \in 1 .. n
    PROVE  /\ swap(s, i, j) \in Ints(n)
           /\ \A k \in 1 .. n : swap(s, i, j)[k] = IF k = j THEN s[i] ELSE IF k = i THEN s[j] ELSE s[k]
BY DEF swap, Ints

LEMMA RearrangedSwap ==
    ASSUME NEW n \in Nat, NEW s \in Ints(n), NEW lo \in Int, NEW hi \in Int,
           NEW i \in 1 .. n, NEW j \in 1 .. n, lo <= i, i <= hi, lo <= j, j <= hi
    PROVE  Rearranged(n, swap(s, i, j), s, lo, hi)
<1> DEFINE change == [k \in 1 .. n |-> IF k = j THEN i ELSE IF k = i THEN j ELSE k]
<1>1. change \in [1 .. n -> 1 .. n]
    OBVIOUS
<1>2. WayBack(n, change, change)
    BY <1>1 DEF WayBack
<1>3. \A k \in 1 .. n : (k < lo \/ k > hi => change[k] = k) /\ swap(s, i, j)[k] = s[change[k]]
    BY SwapIs
<1>4. QED
    BY <1>1, <1>2, <1>3 DEF Rearranged

LEMMA RearrangedDown ==
    ASSUME NEW n \in Nat, NEW s \in Ints(n), NEW j \in 1 .. n, NEW i \in j .. n
    PROVE  MovedDown(s, i, j) \in Ints(n) /\ Rearranged(n, MovedDown(s, i, j), s, 1, n)
<1> DEFINE from == [k \in 1 .. n |-> IF k < j \/ k > i THEN k ELSE IF k = j THEN i ELSE k - 1]
           to == [k \in 1 .. n |-> IF k < j \/ k > i THEN k ELSE IF k = i THEN j ELSE k + 1]
<1>1. from \in [1 .. n -> 1 .. n] /\ to \in [1 .. n -> 1 .. n]
    OBVIOUS
<1>2. WayBack(n, from, to)
    BY <1>1 DEF WayBack
<1>3. MovedDown(s, i, j) \in Ints(n)
    BY DEF MovedDown, Ints
<1>4. \A k \in 1 .. n : MovedDown(s, i, j)[k] = s[from[k]]
    BY DEF MovedDown, Ints
<1>5. \A k \in 1 .. n : k < 1 \/ k > n => from[k] = k
    OBVIOUS
<1>6. QED
    BY <1>1, <1>2, <1>3, <1>4, <1>5 DEF Rearranged

MovedUp(n, s, i, j) == [k \in 1 .. n |-> IF k < i \/ k > j THEN s[k] ELSE IF k = j THEN s[i] ELSE s[k + 1]]
LEMMA RearrangedUp ==
    ASSUME NEW n \in Nat, NEW s \in Ints(n), NEW i \in 1 .. n, NEW j \in i .. n
    PROVE  MovedUp(n, s, i, j) \in Ints(n) /\ Rearranged(n, MovedUp(n, s, i, j), s, 1, n)
<1> DEFINE to == [k \in 1 .. n |-> IF k < i \/ k > j THEN k ELSE IF k = i THEN j ELSE k - 1]
           from == [k \in 1 .. n |-> IF k < i \/ k > j THEN k ELSE IF k = j THEN i ELSE k + 1]
<1>1. from \in [1 .. n -> 1 .. n] /\ to \in [1 .. n -> 1 .. n]
    OBVIOUS
<1>2. WayBack(n, from, to)
    BY <1>1 DEF WayBack
<1>3. MovedUp(n, s, i, j) \in Ints(n)
    BY DEF MovedUp, Ints
<1>4. \A k \in 1 .. n : MovedUp(n, s, i, j)[k] = s[from[k]]
    BY DEF MovedUp
<1>5. \A k \in 1 .. n : k < 1 \/ k > n => from[k] = k
    OBVIOUS
<1>6. QED
    BY <1>1, <1>2, <1>3, <1>4, <1>5 DEF Rearranged

(* A rearranged array has each value as often as before.                     *)
LEMMA RearrangedBag ==
    ASSUME NEW n \in Nat, NEW r \in Ints(n), NEW s \in Ints(n), NEW lo, NEW hi, Rearranged(n, r, s, lo, hi)
    PROVE  ToBag(r) = ToBag(s)
<1>1. PICK from, to \in [1 .. n -> 1 .. n] : WayBack(n, from, to) /\ \A i \in 1 .. n : r[i] = s[from[i]]
    BY DEF Rearranged
<1>2. DOMAIN r = 1 .. n /\ DOMAIN s = 1 .. n
    BY DEF Ints
<1>3. \A i \in 1 .. n : s[i] = r[to[i]]
    <2>1. \A i \in 1 .. n : from[to[i]] = i /\ to[i] \in 1 .. n
        BY <1>1, Zenon DEF WayBack
    <2>2. QED
        BY <1>1, <2>1
<1>4. Range(r) = Range(s)
    BY <1>1, <1>2, <1>3 DEF Range
<1>5. ASSUME NEW x PROVE Cardinality({i \in DOMAIN r : r[i] = x}) = Cardinality({i \in DOMAIN s : s[i] = x})
    <2> DEFINE A == {i \in 1 .. n : r[i] = x}
               B == {i \in 1 .. n : s[i] = x}
               f == [i \in A |-> from[i]]
    <2>1. f \in [A -> B]
        BY <1>1
    <2>2. ASSUME NEW a \in A, NEW b \in A, f[a] = f[b] PROVE a = b
        <3>1. from[a] = from[b] /\ a \in 1 .. n /\ b \in 1 .. n
            BY <2>2
        <3>2. to[from[a]] = a /\ to[from[b]] = b
            BY <1>1, <3>1 DEF WayBack
        <3>3. QED
            BY <3>1, <3>2
    <2>3. ASSUME NEW b \in B PROVE \E a \in A : f[a] = b
        <3>1. to[b] \in A /\ from[to[b]] = b
            BY <1>1, <1>3 DEF WayBack
        <3>2. QED
            BY <3>1
    <2>4. f \in Bijection(A, B)
        <3> HIDE DEF f, A, B
        <3>1. QED
            BY <2>1, <2>2, <2>3, Fun_IsBij
    <2>5. IsFiniteSet(A)
        <3>1. IsFiniteSet(1 .. n) /\ A \subseteq 1 .. n
            BY FS_Interval
        <3>2. QED
            BY <3>1, FS_Subset
    <2>6. Cardinality(A) = Cardinality(B)
        <3> HIDE DEF f, A, B
        <3>1. ExistsBijection(A, B)
            BY <2>4 DEF ExistsBijection
        <3>2. QED
            BY <2>5, <3>1, FS_Bijection
    <2>7. QED
        BY <1>2, <2>6
<1>6. QED
    BY <1>4, <1>5 DEF ToBag

-----------------------------------------------------------------------------
(* The values of an array, and sortedness as the loops establish it: from    *)
(* behind k on, no value is below one before it.                             *)
LEMMA LenOfInts ==
    ASSUME NEW n \in Nat, NEW a \in Ints(n)
    PROVE  Len(a) = n /\ DOMAIN a = 1 .. n /\ a \in Seq(Int)
BY DEF Ints

SortedBehind(n, a, k) == \A p, q \in 1 .. n : p < q /\ q > k => a[p] <= a[q]

LEMMA SortedRearrangement ==
    ASSUME NEW n \in Nat, NEW a \in Ints(n), NEW r \in Ints(n),
           Rearranged(n, r, a, 1, n), SortedBehind(n, r, 0)
    PROVE  SortOf(r, a)
<1>1. Sorted(r)
    BY LenOfInts DEF SortedBehind, Sorted, Ints
<1>2. QED
    BY <1>1, RearrangedBag DEF SortOf

(* Bubble sort.  In a pass the greatest value so far is at j + 1 after j     *)
(* comparisons, and what was in order behind last + 1 stays so.              *)
PassInv(n, a, last, j, p) ==
    /\ Rearranged(n, p.arr, a, 1, n)
    /\ SortedBehind(n, p.arr, last + 1)
    /\ \A k \in 1 .. j + 1 : p.arr[k] <= p.arr[j + 1]
    /\ ~p.flag => \A k, m \in 1 .. j + 1 : k <= m => p.arr[k] <= p.arr[m]

LEMMA PassComparison ==
    ASSUME NEW n \in Nat, NEW a \in Ints(n), NEW last \in 0 .. n - 1, NEW j \in 1 .. last,
           NEW b \in Ints(n), NEW f \in BOOLEAN, PassInv(n, a, last, j - 1, [arr |-> b, flag |-> f])
    PROVE  IF b[j] > b[j + 1] THEN /\ swap(b, j, j + 1) \in Ints(n)
                                   /\ PassInv(n, a, last, j, [arr |-> swap(b, j, j + 1), flag |-> TRUE])
           ELSE PassInv(n, a, last, j, [arr |-> b, flag |-> f])
<1>1. j \in 1 .. n /\ j + 1 \in 1 .. n /\ j - 1 + 1 = j /\ \A k \in 1 .. n : b[k] \in Int
    BY DEF Ints
<1>2. /\ Rearranged(n, b, a, 1, n)
      /\ SortedBehind(n, b, last + 1)
      /\ \A k \in 1 .. j : b[k] <= b[j]
      /\ ~f => \A k, m \in 1 .. j : k <= m => b[k] <= b[m]
    BY <1>1 DEF PassInv
<1>3. CASE b[j] > b[j + 1]
    <2> DEFINE c == swap(b, j, j + 1)
    <2>1. /\ c \in Ints(n) /\ Rearranged(n, c, b, 1, n)
          /\ \A k \in 1 .. n : c[k] = IF k = j + 1 THEN b[j] ELSE IF k = j THEN b[j + 1] ELSE b[k]
        BY <1>1, SwapIs, RearrangedSwap
    <2> HIDE DEF c
    <2>2. Rearranged(n, c, a, 1, n)
        BY <1>2, <2>1, RearrangedTwice
    <2>3. SortedBehind(n, c, last + 1)
        <3> SUFFICES ASSUME NEW p \in 1 .. n, NEW q \in 1 .. n, p < q, q > last + 1 PROVE c[p] <= c[q]
            BY DEF SortedBehind
        <3>1. c[q] = b[q] /\ c[p] \in {b[p], b[j], b[j + 1]}
            BY <1>1, <2>1
        <3>2. b[p] <= b[q] /\ b[j] <= b[q] /\ b[j + 1] <= b[q]
            BY <1>1, <1>2 DEF SortedBehind
        <3>3. QED
            BY <3>1, <3>2
    <2>4. \A k \in 1 .. j + 1 : c[k] <= c[j + 1]
        <3> SUFFICES ASSUME NEW k \in 1 .. j + 1 PROVE c[k] <= c[j + 1]
            OBVIOUS
        <3>1. k \in 1 .. n /\ c[j + 1] = b[j] /\ c[k] = IF k = j + 1 THEN b[j] ELSE IF k = j THEN b[j + 1] ELSE b[k]
            BY <1>1, <2>1
        <3>2. k \in 1 .. j => b[k] <= b[j]
            BY <1>2
        <3>3. QED
            BY <1>1, <1>3, <3>1, <3>2
    <2>5. PassInv(n, a, last, j, [arr |-> c, flag |-> TRUE])
        BY <2>2, <2>3, <2>4 DEF PassInv
    <2>6. QED
        BY <1>3, <2>1, <2>5 DEF c
<1>4. CASE ~(b[j] > b[j + 1])
    <2>1. b[j] <= b[j + 1]
        BY <1>1, <1>4
    <2>2. ASSUME NEW k \in 1 .. j + 1 PROVE b[k] <= b[j + 1]
        <3>1. k \in 1 .. n /\ (k \in 1 .. j => b[k] <= b[j])
            BY <1>1, <1>2
        <3>2. QED
            BY <1>1, <2>1, <3>1
    <2>3. ASSUME ~f, NEW k \in 1 .. j + 1, NEW m \in 1 .. j + 1, k <= m PROVE b[k] <= b[m]
        <3>1. CASE m = j + 1
            BY <2>2, <3>1
        <3>2. CASE m # j + 1
            BY <1>2, <2>3, <3>2
        <3>3. QED
            BY <3>1, <3>2
    <2>4. PassInv(n, a, last, j, [arr |-> b, flag |-> f])
        BY <1>2, <2>2, <2>3 DEF PassInv
    <2>5. QED
        BY <1>4, <2>4
<1>5. QED
    BY <1>3, <1>4

LEMMA PassMovesUp ==
    ASSUME NEW n \in Nat, NEW a \in Ints(n), NEW last \in 0 .. n - 1, SortedBehind(n, a, last + 1)
    PROVE  /\ BubblePass(a, last) \in Passed(n)
           /\ Rearranged(n, BubblePass(a, last).arr, a, 1, n)
           /\ SortedBehind(n, BubblePass(a, last).arr, last)
           /\ ~BubblePass(a, last).flag => SortedBehind(n, BubblePass(a, last).arr, 0)
<1> DEFINE S == Passed(n)
           start == [arr |-> a, flag |-> FALSE]
           body == [j \in 1 .. last |-> [p \in S |->
               IF p.arr[j] > p.arr[j + 1] THEN [arr |-> swap(p.arr, j, j + 1), flag |-> TRUE] ELSE p]]
           Inv == [j \in 0 .. last |-> {p \in S : PassInv(n, a, last, j, p)}]
           end == BubblePass(a, last)
<1>1. end = Loop(last, start, body)
    BY LenOfInts, Zenon DEF BubblePass
<1>2. \A p \in S : p.arr \in Ints(n) /\ p.flag \in BOOLEAN /\ p = [arr |-> p.arr, flag |-> p.flag]
    BY DEF Passed
<1>3. start \in Inv[0]
    <2>1. start \in S
        BY DEF Passed
    <2>2. Rearranged(n, a, a, 1, n)
        BY RearrangedSame
    <2>3. PassInv(n, a, last, 0, start)
        BY <2>2 DEF PassInv, Ints
    <2>4. QED
        BY <2>1, <2>3
<1>4. ASSUME NEW j \in 1 .. last, NEW p \in Inv[j - 1] PROVE body[j][p] \in Inv[j]
    <2>1. p \in S /\ PassInv(n, a, last, j - 1, [arr |-> p.arr, flag |-> p.flag])
        BY <1>2
    <2>2. body[j][p] = IF p.arr[j] > p.arr[j + 1] THEN [arr |-> swap(p.arr, j, j + 1), flag |-> TRUE]
                       ELSE [arr |-> p.arr, flag |-> p.flag]
        BY <1>2, <2>1
    <2>3. p.arr \in Ints(n) /\ p.flag \in BOOLEAN
        BY <1>2, <2>1
    <2> HIDE DEF body
    <2>4. PassInv(n, a, last, j, body[j][p])
        BY <2>1, <2>2, <2>3, PassComparison
    <2>5. body[j][p] \in S
        <3>1. p.arr[j] > p.arr[j + 1] => swap(p.arr, j, j + 1) \in Ints(n)
            BY <2>1, <2>3, PassComparison
        <3>2. QED
            BY <2>2, <2>3, <3>1 DEF Passed
    <2>6. QED
        BY <2>4, <2>5
<1>5. end \in Inv[last]
    <2>1. last \in Nat
        OBVIOUS
    <2> HIDE DEF S, start, body, Inv, end
    <2>2. QED
        BY <1>1, <1>3, <1>4, <2>1, LoopInvariant
<1>6. end \in S /\ PassInv(n, a, last, last, end)
    BY <1>5
<1>7. PassInv(n, a, last, last, end) /\ end.arr \in Ints(n)
    BY <1>2, <1>6
<1> HIDE DEF end
<1>8. SortedBehind(n, end.arr, last)
    <2> SUFFICES ASSUME NEW p \in 1 .. n, NEW q \in 1 .. n, p < q, q > last PROVE end.arr[p] <= end.arr[q]
        BY DEF SortedBehind
    <2>1. CASE q = last + 1
        BY <1>7, <2>1 DEF PassInv
    <2>2. CASE q > last + 1
        BY <1>7, <2>2 DEF PassInv, SortedBehind
    <2>3. QED
        BY <2>1, <2>2
<1>9. ASSUME ~end.flag PROVE SortedBehind(n, end.arr, 0)
    <2> SUFFICES ASSUME NEW p \in 1 .. n, NEW q \in 1 .. n, p < q PROVE end.arr[p] <= end.arr[q]
        BY DEF SortedBehind
    <2>1. CASE q <= last + 1
        BY <1>7, <1>9, <2>1 DEF PassInv
    <2>2. CASE q > last + 1
        BY <1>7, <2>2 DEF PassInv, SortedBehind
    <2>3. QED
        BY <2>1, <2>2
<1>10. QED
    BY <1>6, <1>7, <1>8, <1>9 DEF PassInv, end

(* After i passes, or fewer if one swapped nothing, the i greatest values are*)
(* in their places.                                                          *)
PassesInv(n, a, i, p) ==
    /\ Rearranged(n, p.arr, a, 1, n)
    /\ SortedBehind(n, p.arr, IF p.flag THEN n - i ELSE 0)

LEMMA BubbleSorts == ASSUME NEW n \in Nat, NEW a \in Ints(n) PROVE SortOf(bubble_sort(a), a)
<1> DEFINE S == Passed(n)
           start == [arr |-> a, flag |-> TRUE]
           body == [i \in 1 .. n |-> [p \in S |-> IF p.flag THEN BubblePass(p.arr, n - i) ELSE p]]
           Inv == [i \in 0 .. n |-> {p \in S : PassesInv(n, a, i, p)}]
           end == Loop(n, start, body)
<1>1. bubble_sort(a) = end.arr
    BY LenOfInts, Zenon DEF bubble_sort
<1>2. \A p \in S : p.arr \in Ints(n) /\ p.flag \in BOOLEAN
    BY DEF Passed
<1>3. start \in Inv[0]
    <2>1. start \in S
        BY DEF Passed
    <2>2. PassesInv(n, a, 0, start)
        BY RearrangedSame DEF PassesInv, SortedBehind
    <2>3. QED
        BY <2>1, <2>2
<1>4. ASSUME NEW i \in 1 .. n, NEW p \in Inv[i - 1] PROVE body[i][p] \in Inv[i]
    <2>1. p \in S /\ PassesInv(n, a, i - 1, p) /\ p.arr \in Ints(n)
        BY <1>2
    <2>2. CASE p.flag
        <3> DEFINE last == n - i
                   passed == BubblePass(p.arr, last)
        <3>1. last \in 0 .. n - 1 /\ last + 1 = n - (i - 1)
            OBVIOUS
        <3>2. body[i][p] = passed
            BY <2>1, <2>2
        <3> HIDE DEF last, body
        <3>3. Rearranged(n, p.arr, a, 1, n) /\ SortedBehind(n, p.arr, last + 1)
            BY <2>1, <2>2, <3>1 DEF PassesInv
        <3>4. /\ passed \in Passed(n) /\ Rearranged(n, passed.arr, p.arr, 1, n)
              /\ SortedBehind(n, passed.arr, last)
              /\ ~passed.flag => SortedBehind(n, passed.arr, 0)
            BY <2>1, <3>1, <3>3, PassMovesUp
        <3>5. Rearranged(n, passed.arr, a, 1, n)
            BY <3>3, <3>4, RearrangedTwice
        <3>6. PassesInv(n, a, i, passed)
            BY <3>4, <3>5 DEF PassesInv, last
        <3>7. QED
            BY <3>2, <3>4, <3>6
    <2>3. CASE ~p.flag
        <3>1. body[i][p] = p /\ PassesInv(n, a, i, p)
            BY <2>1, <2>3 DEF PassesInv
        <3> HIDE DEF body
        <3>2. QED
            BY <2>1, <3>1
    <2>4. QED
        BY <2>2, <2>3
<1>5. end \in Inv[n]
    <2> HIDE DEF S, start, body, Inv
    <2>1. QED
        BY <1>3, <1>4, LoopInvariant
<1>6. end.arr \in Ints(n) /\ PassesInv(n, a, n, end)
    BY <1>2, <1>5
<1> HIDE DEF end
<1>7. Rearranged(n, end.arr, a, 1, n) /\ SortedBehind(n, end.arr, 0)
    BY <1>6 DEF PassesInv
<1>8. QED
    BY <1>1, <1>6, <1>7, SortedRearrangement

-----------------------------------------------------------------------------
(* Insertion sort.                                                           *)
LEMMA MaxIsIn ==
    ASSUME NEW n \in Nat, NEW T \in SUBSET (0 .. n), T # {}
    PROVE  Max(T) \in T /\ \A y \in T : y <= Max(T)
<1> DEFINE Below == {n - x : x \in T}
<1>1. Below \in SUBSET Nat /\ Below # {}
    <2>1. \A x \in T : n - x \in Nat
        OBVIOUS
    <2>2. PICK x \in T : TRUE
        OBVIOUS
    <2>3. n - x \in Below
        BY <2>2
    <2>4. Below \in SUBSET Nat
        BY <2>1
    <2>5. QED
        BY <2>3, <2>4
<1>2. PICK m \in Below : \A y \in Below : m <= y
    <2> HIDE DEF Below
    <2>1. QED
        BY <1>1, LeastExists
<1>3. PICK x \in T : m = n - x
    BY <1>2
<1>4. \A y \in T : x >= y
    <2> SUFFICES ASSUME NEW y \in T PROVE x >= y
        OBVIOUS
    <2>1. n - y \in Below /\ x \in Int /\ y \in Int
        OBVIOUS
    <2>2. m <= n - y
        BY <1>2, <2>1
    <2>3. QED
        BY <1>3, <2>1, <2>2
<1>5. Max(T) \in T /\ \A y \in T : Max(T) >= y
    BY <1>4 DEF Max
<1>6. QED
    BY <1>5

LEMMA MinIsIn ==
    ASSUME NEW T \in SUBSET Nat, T # {}
    PROVE  Min(T) \in T /\ \A y \in T : Min(T) <= y
BY LeastExists DEF Min

InsertInv(n, a, i, b) ==
    /\ Rearranged(n, b, a, 1, n)
    /\ \A p, q \in 1 .. i : p < q => b[p] <= b[q]

LEMMA InsertOne ==
    ASSUME NEW n \in Nat, NEW a \in Ints(n), NEW i \in 1 .. n, NEW b \in Ints(n), InsertInv(n, a, i - 1, b),
           NEW j, j = Max({0} \cup {k \in 1 .. i - 1 : b[k] <= b[i]})
    PROVE  MovedDown(b, i, j + 1) \in Ints(n) /\ InsertInv(n, a, i, MovedDown(b, i, j + 1))
<1> DEFINE T == {0} \cup {k \in 1 .. i - 1 : b[k] <= b[i]}
           c == MovedDown(b, i, j + 1)
<1>1. j \in T /\ \A k \in T : k <= j
    <2>1. T \in SUBSET (0 .. n) /\ T # {}
        OBVIOUS
    <2>2. j = Max(T)
        OBVIOUS
    <2> HIDE DEF T
    <2>3. QED
        BY <2>1, <2>2, MaxIsIn
<1>2. j \in 0 .. i - 1 /\ j + 1 \in 1 .. n /\ i \in j + 1 .. n /\ \A k \in 1 .. n : b[k] \in Int
    BY <1>1, SMTT(40) DEF Ints
<1>3. ASSUME NEW k \in 1 .. i - 1 PROVE IF k <= j THEN b[k] <= b[i] ELSE b[i] < b[k]
    <2>1. CASE k <= j
        <3>1. j \in 1 .. i - 1 /\ b[j] <= b[i]
            BY <1>1, <1>2, <2>1
        <3>2. b[k] <= b[j]
            <4>1. k \in 1 .. n /\ j \in 1 .. n /\ b[k] \in Int
                BY <1>2, <3>1
            <4>2. k < j => b[k] <= b[j]
                BY <3>1 DEF InsertInv
            <4>3. QED
                BY <2>1, <3>1, <4>1, <4>2
        <3>3. QED
            BY <1>2, <2>1, <3>1, <3>2
    <2>2. CASE ~(k <= j)
        <3>1. k \notin T
            BY <1>1, <2>2
        <3>2. ~(b[k] <= b[i]) /\ b[k] \in Int /\ b[i] \in Int
            BY <1>2, <3>1
        <3>3. QED
            BY <2>2, <3>2
    <2>3. QED
        BY <2>1, <2>2
<1>4. c \in Ints(n) /\ Rearranged(n, c, b, 1, n)
    BY <1>2, RearrangedDown
<1>5. Rearranged(n, c, a, 1, n)
    BY <1>4, RearrangedTwice DEF InsertInv
<1>6. \A k \in 1 .. n : c[k] = IF k < j + 1 \/ k > i THEN b[k] ELSE IF k = j + 1 THEN b[i] ELSE b[k - 1]
    BY LenOfInts DEF MovedDown
<1> HIDE DEF c
<1>7. ASSUME NEW p \in 1 .. i, NEW q \in 1 .. i, p < q PROVE c[p] <= c[q]
    <2> DEFINE Was(k) == IF k < j + 1 THEN k ELSE IF k = j + 1 THEN i ELSE k - 1
    <2>1. c[p] = b[Was(p)] /\ c[q] = b[Was(q)]
        BY <1>2, <1>6
    <2>2. CASE q = j + 1
        <3>1. Was(p) = p /\ Was(q) = i /\ p \in 1 .. i - 1 /\ p <= j
            BY <1>2, <1>7, <2>2
        <3>2. QED
            BY <1>3, <2>1, <3>1
    <2>3. CASE p = j + 1
        <3>1. Was(p) = i /\ Was(q) = q - 1 /\ q - 1 \in 1 .. i - 1 /\ ~(q - 1 <= j)
            BY <1>2, <1>7, <2>3
        <3>2. b[i] < b[q - 1] /\ b[i] \in Int /\ b[q - 1] \in Int
            BY <1>2, <1>3, <3>1
        <3>3. QED
            BY <2>1, <3>1, <3>2
    <2>4. CASE p # j + 1 /\ q # j + 1
        <3>1. Was(p) \in 1 .. i - 1 /\ Was(q) \in 1 .. i - 1 /\ Was(p) < Was(q)
            BY <1>2, <1>7, <2>4
        <3> HIDE DEF Was
        <3>2. QED
            BY <2>1, <3>1 DEF InsertInv
    <2>5. QED
        BY <2>2, <2>3, <2>4
<1>8. QED
    BY <1>4, <1>5, <1>7 DEF InsertInv, c

LEMMA InsertSorts == ASSUME NEW n \in Nat, NEW a \in Ints(n) PROVE SortOf(insert_sort(a), a)
<1> DEFINE body == [i \in 1 .. n |-> [b \in Ints(n) |->
               MovedDown(b, i, Max({0} \cup {k \in 1 .. i - 1 : b[k] <= b[i]}) + 1)]]
           Inv == [i \in 0 .. n |-> {b \in Ints(n) : InsertInv(n, a, i, b)}]
           end == Loop(n, a, body)
<1>1. insert_sort(a) = end
    BY LenOfInts, Zenon DEF insert_sort
<1>2. a \in Inv[0]
    <2>1. InsertInv(n, a, 0, a)
        BY RearrangedSame DEF InsertInv
    <2>2. QED
        BY <2>1
<1>3. ASSUME NEW i \in 1 .. n, NEW b \in Inv[i - 1] PROVE body[i][b] \in Inv[i]
    <2> DEFINE j == Max({0} \cup {k \in 1 .. i - 1 : b[k] <= b[i]})
    <2>1. b \in Ints(n) /\ InsertInv(n, a, i - 1, b)
        OBVIOUS
    <2>2. body[i][b] = MovedDown(b, i, j + 1)
        BY <2>1
    <2>3. MovedDown(b, i, j + 1) \in Ints(n) /\ InsertInv(n, a, i, MovedDown(b, i, j + 1))
        BY <2>1, InsertOne
    <2> HIDE DEF body, j
    <2>4. QED
        BY <2>2, <2>3
<1>4. end \in Inv[n]
    <2> HIDE DEF body, Inv
    <2>1. QED
        BY <1>2, <1>3, LoopInvariant
<1> HIDE DEF end
<1>5. end \in Ints(n) /\ InsertInv(n, a, n, end)
    BY <1>4
<1>6. Rearranged(n, end, a, 1, n) /\ SortedBehind(n, end, 0)
    BY <1>5 DEF InsertInv, SortedBehind
<1>7. QED
    BY <1>1, <1>5, <1>6, SortedRearrangement

-----------------------------------------------------------------------------
(* Quicksort.                                                                *)
Put(a, i, v) == [a EXCEPT ![i] = v]

LEMMA PutIn ==
    ASSUME NEW n \in Nat, NEW a \in Ints(n), NEW i \in 1 .. n, NEW v
    PROVE  (v \in Int => Put(a, i, v) \in Ints(n)) /\ \A k \in 1 .. n : Put(a, i, v)[k] = IF k = i THEN v ELSE a[k]
BY DEF Put, Ints

LEMMA SameInts ==
    ASSUME NEW n \in Nat, NEW a \in Ints(n), NEW b \in Ints(n), \A k \in 1 .. n : a[k] = b[k]
    PROVE  a = b
BY DEF Ints

LEMMA LastSmallerIs ==
    ASSUME NEW n \in Nat, NEW a \in Ints(n), NEW low \in 1 .. n, NEW high \in low .. n, NEW key
    PROVE  \E h \in low .. high : /\ h = LastSmaller(a, low, high, key)
                                  /\ h # low => a[h] < key
                                  /\ \A k \in h + 1 .. high : ~(a[k] < key)
<1> DEFINE h == LastSmaller(a, low, high, key)
           T == {low} \cup {k \in low + 1 .. high : a[k] < key}
<1>1. T \in SUBSET (0 .. n) /\ T # {}
    OBVIOUS
<1>2. h = Max(T)
    BY DEF LastSmaller
<1>3. h \in T /\ \A k \in T : k <= h
    <2> HIDE DEF T
    <2>1. QED
        BY <1>1, <1>2, MaxIsIn
<1>4. h \in low .. high /\ (h # low => a[h] < key)
    BY <1>3
<1>5. ASSUME NEW k \in h + 1 .. high PROVE ~(a[k] < key)
    <2>1. k \in low + 1 .. high /\ ~(k <= h)
        BY <1>4
    <2>2. QED
        BY <1>3, <2>1
<1>6. QED
    BY <1>4, <1>5

LEMMA FirstGreaterIs ==
    ASSUME NEW n \in Nat, NEW a \in Ints(n), NEW low \in 1 .. n, NEW high \in low .. n, NEW key
    PROVE  \E l \in low .. high : /\ l = FirstGreater(a, low, high, key)
                                  /\ l = low => high = low
                                  /\ l # high => a[l] > key
                                  /\ \A k \in low + 1 .. l - 1 : ~(a[k] > key)
<1> DEFINE l == FirstGreater(a, low, high, key)
           T == {high} \cup {k \in low + 1 .. high : a[k] > key}
<1>1. T \in SUBSET Nat /\ T # {}
    OBVIOUS
<1>2. l = Min(T)
    BY DEF FirstGreater
<1>3. l \in T /\ \A k \in T : l <= k
    <2> HIDE DEF T
    <2>1. QED
        BY <1>1, <1>2, MinIsIn
<1>4. l \in low .. high /\ (l = low => high = low) /\ (l # high => a[l] > key)
    BY <1>3
<1>5. ASSUME NEW k \in low + 1 .. l - 1 PROVE ~(a[k] > key)
    <2>1. k \in low + 1 .. high /\ ~(l <= k)
        BY <1>4
    <2>2. QED
        BY <1>3, <2>1
<1>6. QED
    BY <1>4, <1>5

(* With the pivot back in the hole at l, the array is a rearrangement; below *)
(* the hole nothing is greater than the pivot, above h nothing is smaller.   *)
PartInv(n, a, low, high, i, b, l, h) ==
    /\ l \in low .. high /\ h \in l .. high /\ h - l <= high - low - i
    /\ Rearranged(n, Put(b, l, a[low]), a, low, high)
    /\ \A k \in low .. l - 1 : b[k] <= a[low]
    /\ \A k \in h + 1 .. high : b[k] >= a[low]

LEMMA ExchangeOne ==
    ASSUME NEW n \in Nat, NEW a \in Ints(n), NEW low \in 1 .. n, NEW high \in low .. n, NEW i \in 1 .. high - low,
           NEW b \in Ints(n), NEW l0 \in 1 .. n, NEW h0 \in 1 .. n, PartInv(n, a, low, high, i - 1, b, l0, h0),
           l0 < h0
    PROVE  \E h \in 1 .. n, l \in 1 .. n : \E c \in Ints(n) :
               /\ h = LastSmaller(b, l0, h0, a[low])
               /\ c = Put(b, l0, b[h])
               /\ l = FirstGreater(c, l0, h, a[low])
               /\ IF l < h THEN /\ h - 1 \in 1 .. n /\ Put(c, h, c[l]) \in Ints(n)
                                /\ PartInv(n, a, low, high, i, Put(c, h, c[l]), l, h - 1)
                  ELSE PartInv(n, a, low, high, i, c, h, h)
<1> DEFINE key == a[low]
<1>1. key \in Int /\ \A k \in 1 .. n : b[k] \in Int
    BY DEF Ints
<1>2. l0 \in low .. high /\ h0 \in l0 .. high /\ h0 - l0 <= high - low - (i - 1)
    BY DEF PartInv
<1> HIDE DEF key
<1>3. PICK h \in l0 .. h0 : /\ h = LastSmaller(b, l0, h0, key) /\ (h # l0 => b[h] < key)
                            /\ \A k \in h + 1 .. h0 : ~(b[k] < key)
    <2>1. h0 \in l0 .. n
        BY <1>2
    <2>2. QED
        BY <2>1, LastSmallerIs
<1>4. h \in 1 .. n /\ b[h] \in Int
    BY <1>1, <1>2
<1> DEFINE c == Put(b, l0, b[h])
<1>5. c \in Ints(n) /\ \A k \in 1 .. n : c[k] = IF k = l0 THEN b[h] ELSE b[k]
    BY <1>4, PutIn
<1> HIDE DEF c
<1>6. PICK l \in l0 .. h : /\ l = FirstGreater(c, l0, h, key) /\ (l = l0 => h = l0)
                           /\ l # h => c[l] > key
                           /\ \A k \in l0 + 1 .. l - 1 : ~(c[k] > key)
    <2>1. h \in l0 .. n
        BY <1>4
    <2>2. QED
        BY <1>5, <2>1, FirstGreaterIs
<1>7. l \in 1 .. n /\ \A k \in 1 .. n : c[k] \in Int
    BY <1>4, <1>5 DEF Ints
<1> DEFINE f == Put(b, l0, key)
           g == swap(f, l0, h)
<1>8. f \in Ints(n) /\ \A k \in 1 .. n : f[k] = IF k = l0 THEN key ELSE b[k]
    BY <1>1, PutIn
<1>9. Rearranged(n, f, a, low, high)
    BY DEF PartInv, key
<1> HIDE DEF f
<1>10. /\ g \in Ints(n) /\ Rearranged(n, g, f, low, high)
       /\ \A k \in 1 .. n : g[k] = IF k = h THEN f[l0] ELSE IF k = l0 THEN f[h] ELSE f[k]
    <2>1. low <= l0 /\ l0 <= high /\ low <= h /\ h <= high /\ low \in Int /\ high \in Int
        BY <1>2, <1>3
    <2>2. Rearranged(n, swap(f, l0, h), f, low, high)
        BY <1>4, <1>8, <2>1, RearrangedSwap
    <2>3. QED
        BY <1>4, <1>8, <2>2, SwapIs
<1> HIDE DEF g
<1>11. Rearranged(n, g, a, low, high)
    BY <1>9, <1>10, RearrangedTwice
<1>12. \A k \in 1 .. n : g[k] = IF k = h THEN key ELSE c[k]
    <2> SUFFICES ASSUME NEW k \in 1 .. n PROVE g[k] = IF k = h THEN key ELSE c[k]
        OBVIOUS
    <2>1. f[l0] = key /\ (h # l0 => f[h] = b[h]) /\ (k # l0 => f[k] = b[k])
        BY <1>4, <1>8
    <2>2. QED
        BY <1>4, <1>5, <1>10, <2>1
<1>13. ASSUME NEW k \in low .. l - 1 PROVE c[k] <= key
    <2>1. k \in 1 .. n
        BY <1>7
    <2>2. CASE k < l0
        <3>1. k \in low .. l0 - 1 /\ c[k] = b[k]
            BY <1>5, <2>1, <2>2
        <3>2. QED
            BY <3>1 DEF PartInv, key
    <2>3. CASE k = l0
        <3>1. h # l0 /\ c[k] = b[h]
            BY <1>5, <1>6, <2>1, <2>3
        <3>2. QED
            BY <1>1, <1>3, <1>4, <3>1
    <2>4. CASE k > l0
        <3>1. ~(c[k] > key) /\ c[k] \in Int
            BY <1>6, <1>7, <2>1, <2>4
        <3>2. QED
            BY <1>1, <3>1
    <2>5. QED
        BY <2>1, <2>2, <2>3, <2>4
<1>14. ASSUME NEW k \in h + 1 .. high PROVE c[k] >= key
    <2>1. k \in 1 .. n /\ k # l0 /\ c[k] = b[k]
        BY <1>2, <1>3, <1>4, <1>5
    <2>2. CASE k <= h0
        <3>1. ~(b[k] < key) /\ b[k] \in Int
            BY <1>1, <1>3, <2>1, <2>2
        <3>2. QED
            BY <1>1, <2>1, <3>1
    <2>3. CASE k > h0
        <3>1. k \in h0 + 1 .. high
            BY <2>3
        <3>2. QED
            BY <2>1, <3>1 DEF PartInv, key
    <2>4. QED
        BY <2>1, <2>2, <2>3
<1>15. CASE l < h
    <2> DEFINE d == Put(c, h, c[l])
               e == Put(d, l, key)
               w == swap(g, h, l)
    <2>1. d \in Ints(n) /\ \A k \in 1 .. n : d[k] = IF k = h THEN c[l] ELSE c[k]
        BY <1>4, <1>5, <1>7, PutIn
    <2> HIDE DEF d
    <2>2. e \in Ints(n) /\ \A k \in 1 .. n : e[k] = IF k = l THEN key ELSE d[k]
        BY <1>1, <1>7, <2>1, PutIn
    <2>3. /\ w \in Ints(n) /\ Rearranged(n, w, g, low, high)
          /\ \A k \in 1 .. n : w[k] = IF k = l THEN g[h] ELSE IF k = h THEN g[l] ELSE g[k]
        <3>1. low <= l /\ l <= high /\ low <= h /\ h <= high /\ low \in Int /\ high \in Int
            BY <1>2, <1>3, <1>6
        <3>2. Rearranged(n, swap(g, h, l), g, low, high)
            BY <1>4, <1>7, <1>10, <3>1, RearrangedSwap
        <3>3. QED
            BY <1>4, <1>7, <1>10, <3>2, SwapIs
    <2> HIDE DEF e, w
    <2>4. e = w
        <3>1. \A k \in 1 .. n : e[k] = w[k]
            BY <1>4, <1>7, <1>12, <1>15, <2>1, <2>2, <2>3
        <3>2. QED
            BY <2>2, <2>3, <3>1, SameInts
    <2>5. Rearranged(n, e, a, low, high)
        BY <1>11, <2>3, <2>4, RearrangedTwice
    <2>6. l \in low .. high /\ h - 1 \in l .. high /\ h - 1 \in 1 .. n /\ (h - 1) - l <= high - low - i
        BY <1>2, <1>3, <1>6, <1>15
    <2>7. \A k \in low .. l - 1 : d[k] <= key
        BY <1>7, <1>13, <1>15, <2>1
    <2>8. ASSUME NEW k \in (h - 1) + 1 .. high PROVE d[k] >= key
        <3>1. k \in 1 .. n /\ d[k] = IF k = h THEN c[l] ELSE c[k]
            BY <1>4, <2>1
        <3>2. c[l] >= key
            BY <1>1, <1>6, <1>7, <1>15 DEF key
        <3>3. k = h \/ k \in h + 1 .. high
            BY <1>4
        <3>4. QED
            BY <1>14, <3>1, <3>2, <3>3
    <2>9. PartInv(n, a, low, high, i, d, l, h - 1)
        BY <2>5, <2>6, <2>7, <2>8 DEF PartInv, e, key
    <2>10. QED
        BY <1>3, <1>4, <1>5, <1>6, <1>7, <1>15, <2>1, <2>6, <2>9 DEF c, d, key
<1>16. CASE ~(l < h)
    <2>1. l = h
        BY <1>4, <1>6, <1>16
    <2> DEFINE e == Put(c, h, key)
    <2>2. e \in Ints(n) /\ \A k \in 1 .. n : e[k] = IF k = h THEN key ELSE c[k]
        BY <1>1, <1>4, <1>5, PutIn
    <2> HIDE DEF e
    <2>3. e = g
        BY <1>10, <1>12, <2>2, SameInts
    <2>4. h \in low .. high /\ h \in h .. high /\ h - h <= high - low - i
        BY <1>2, <1>3
    <2>5. PartInv(n, a, low, high, i, c, h, h)
        BY <1>11, <1>13, <1>14, <2>1, <2>3, <2>4 DEF PartInv, e, key
    <2>6. QED
        BY <1>3, <1>4, <1>5, <1>6, <1>7, <1>16, <2>5 DEF c, key
<1>17. QED
    BY <1>15, <1>16

PartsOf(n) == [arr : Ints(n), low : 1 .. n, high : 1 .. n]

LEMMA ExchangeKeeps ==
    ASSUME NEW n \in Nat, NEW a \in Ints(n), NEW low \in 1 .. n, NEW high \in low .. n, NEW i \in 1 .. high - low,
           NEW b \in Ints(n), NEW l0 \in 1 .. n, NEW h0 \in 1 .. n, PartInv(n, a, low, high, i - 1, b, l0, h0),
           NEW t, t = Exchange([arr |-> b, low |-> l0, high |-> h0], a[low])
    PROVE  t \in PartsOf(n) /\ PartInv(n, a, low, high, i, t.arr, t.low, t.high)
<1> DEFINE s == [arr |-> b, low |-> l0, high |-> h0]
<1>1. CASE l0 >= h0
    <2>1. t = s
        BY <1>1 DEF Exchange
    <2>2. PartInv(n, a, low, high, i, b, l0, h0)
        BY <1>1 DEF PartInv
    <2>3. QED
        BY <2>1, <2>2 DEF PartsOf
<1>2. CASE ~(l0 >= h0)
    <2>1. l0 < h0
        BY <1>2
    <2>2. PICK h \in 1 .. n, l \in 1 .. n : \E c \in Ints(n) :
               /\ h = LastSmaller(b, l0, h0, a[low])
               /\ c = Put(b, l0, b[h])
               /\ l = FirstGreater(c, l0, h, a[low])
               /\ IF l < h THEN /\ h - 1 \in 1 .. n /\ Put(c, h, c[l]) \in Ints(n)
                                /\ PartInv(n, a, low, high, i, Put(c, h, c[l]), l, h - 1)
                  ELSE PartInv(n, a, low, high, i, c, h, h)
        BY <2>1, ExchangeOne
    <2>3. PICK c \in Ints(n) :
               /\ h = LastSmaller(b, l0, h0, a[low])
               /\ c = Put(b, l0, b[h])
               /\ l = FirstGreater(c, l0, h, a[low])
               /\ IF l < h THEN /\ h - 1 \in 1 .. n /\ Put(c, h, c[l]) \in Ints(n)
                                /\ PartInv(n, a, low, high, i, Put(c, h, c[l]), l, h - 1)
                  ELSE PartInv(n, a, low, high, i, c, h, h)
        BY <2>2
    <2>4. t = IF l < h THEN [arr |-> Put(c, h, c[l]), low |-> l, high |-> h - 1]
              ELSE [arr |-> c, low |-> h, high |-> h]
        BY <1>2, <2>3 DEF Exchange, Put
    <2>5. CASE l < h
        <3>1. t = [arr |-> Put(c, h, c[l]), low |-> l, high |-> h - 1]
            BY <2>4, <2>5
        <3> DEFINE d == Put(c, h, c[l])
        <3>2. d \in Ints(n) /\ h - 1 \in 1 .. n /\ PartInv(n, a, low, high, i, d, l, h - 1)
            BY <2>3, <2>5
        <3> HIDE DEF d
        <3>3. t.arr = d /\ t.low = l /\ t.high = h - 1 /\ t \in PartsOf(n)
            BY <3>1, <3>2 DEF PartsOf, d
        <3>4. QED
            BY <3>2, <3>3
    <2>6. CASE ~(l < h)
        <3>1. t = [arr |-> c, low |-> h, high |-> h] /\ PartInv(n, a, low, high, i, c, h, h)
            BY <2>3, <2>4, <2>6
        <3>2. QED
            BY <3>1 DEF PartsOf
    <2>7. QED
        BY <2>5, <2>6
<1>3. QED
    BY <1>1, <1>2

(* What partition returns: no value below the pivot's place is greater than  *)
(* it, none above is smaller.                                                *)
Splits(n, a, low, high, b, at) ==
    /\ b \in Ints(n) /\ at \in low .. high
    /\ Rearranged(n, b, a, low, high)
    /\ \A k \in low .. at : b[k] <= b[at]
    /\ \A k \in at .. high : b[k] >= b[at]

LEMMA PartitionSplits ==
    ASSUME NEW n \in Nat, NEW a \in Ints(n), NEW low \in 1 .. n, NEW high \in low .. n
    PROVE  Splits(n, a, low, high, partition(a, low, high).arr, partition(a, low, high).at)
<1> DEFINE m == high - low
           S == PartsOf(n)
           start == [arr |-> a, low |-> low, high |-> high]
           body == [i \in 1 .. m |-> [s \in S |-> Exchange(s, a[low])]]
           Inv == [i \in 0 .. m |-> {s \in S : PartInv(n, a, low, high, i, s.arr, s.low, s.high)}]
           end == Loop(m, start, body)
<1>1. partition(a, low, high) = [arr |-> Put(end.arr, end.low, a[low]), at |-> end.low]
    <2>1. Len(a) = n
        BY LenOfInts
    <2>2. QED
        BY <2>1, Zenon DEF partition, Put, PartsOf
<1>2. m \in Nat
    OBVIOUS
<1>3. \A s \in S : s.arr \in Ints(n) /\ s.low \in 1 .. n /\ s.high \in 1 .. n
                   /\ s = [arr |-> s.arr, low |-> s.low, high |-> s.high]
    BY DEF PartsOf
<1>4. start \in Inv[0]
    <2>1. start \in S
        BY DEF PartsOf
    <2>2. Put(a, low, a[low]) = a
        <3>1. a[low] \in Int
            BY DEF Ints
        <3> DEFINE b == Put(a, low, a[low])
        <3>2. b \in Ints(n) /\ \A k \in 1 .. n : b[k] = IF k = low THEN a[low] ELSE a[k]
            BY <3>1, PutIn
        <3> HIDE DEF b
        <3>3. b = a
            BY <3>2, SameInts
        <3>4. QED
            BY <3>3 DEF b
    <2>3. Rearranged(n, Put(a, low, a[low]), a, low, high)
        BY <2>2, RearrangedSame
    <2>4. PartInv(n, a, low, high, 0, a, low, high)
        BY <2>3 DEF PartInv
    <2>5. QED
        BY <1>2, <2>1, <2>4
<1>5. ASSUME NEW i \in 1 .. m, NEW s \in Inv[i - 1] PROVE body[i][s] \in Inv[i]
    <2>1. s \in S /\ PartInv(n, a, low, high, i - 1, s.arr, s.low, s.high)
        BY <1>2
    <2>2. body[i][s] = Exchange([arr |-> s.arr, low |-> s.low, high |-> s.high], a[low])
        BY <1>3, <2>1
    <2>3. s.arr \in Ints(n) /\ s.low \in 1 .. n /\ s.high \in 1 .. n
        BY <1>3, <2>1
    <2> DEFINE t == body[i][s]
    <2>4. t \in PartsOf(n) /\ PartInv(n, a, low, high, i, t.arr, t.low, t.high)
        <3> HIDE DEF t
        <3>1. PICK b \in Ints(n), l0 \in 1 .. n, h0 \in 1 .. n : b = s.arr /\ l0 = s.low /\ h0 = s.high
            BY <2>3
        <3>2. t = Exchange([arr |-> b, low |-> l0, high |-> h0], a[low])
            BY <2>2, <3>1 DEF t
        <3>3. PartInv(n, a, low, high, i - 1, b, l0, h0)
            BY <2>1, <3>1
        <3>4. QED
            BY <3>2, <3>3, ExchangeKeeps
    <2> HIDE DEF body
    <2>5. QED
        BY <2>4
<1>6. end \in Inv[m]
    <2> HIDE DEF m, S, start, body, Inv
    <2>1. QED
        BY <1>2, <1>4, <1>5, LoopInvariant
<1> HIDE DEF end
<1>7. end \in S /\ PartInv(n, a, low, high, m, end.arr, end.low, end.high)
    BY <1>2, <1>6
<1>8. PICK b \in Ints(n), at \in 1 .. n, h \in 1 .. n : b = end.arr /\ at = end.low /\ h = end.high
    BY <1>3, <1>7
<1>9. PartInv(n, a, low, high, m, b, at, h)
    BY <1>7, <1>8
<1>10. at \in low .. high /\ h = at
    BY <1>9 DEF PartInv
<1> DEFINE c == Put(b, at, a[low])
<1>11. a[low] \in Int
    BY DEF Ints
<1>12. c \in Ints(n) /\ \A k \in 1 .. n : c[k] = IF k = at THEN a[low] ELSE b[k]
    BY <1>11, PutIn
<1>13. Rearranged(n, c, a, low, high)
    BY <1>9 DEF PartInv
<1> HIDE DEF c
<1>14. ASSUME NEW k \in low .. at PROVE c[k] <= c[at]
    BY <1>9, <1>11, <1>12 DEF PartInv
<1>15. ASSUME NEW k \in at .. high PROVE c[k] >= c[at]
    BY <1>9, <1>10, <1>11, <1>12 DEF PartInv
<1>16. partition(a, low, high).arr = c /\ partition(a, low, high).at = at
    BY <1>1, <1>8 DEF c
<1>17. QED
    BY <1>10, <1>12, <1>13, <1>14, <1>15, <1>16 DEF Splits

SortedIn(n, a, lo, hi) == \A k, m \in 1 .. n : lo <= k /\ k < m /\ m <= hi => a[k] <= a[m]

(* qsort: a partition at p, then both sides.                                 *)
LEMMA BothSides ==
    ASSUME NEW n \in Nat, NEW a \in Ints(n), NEW low \in 1 .. n, NEW high \in low .. n,
           NEW b \in Ints(n), NEW at \in 1 .. n, Splits(n, a, low, high, b, at),
           NEW c \in Ints(n), Rearranged(n, c, b, low, at - 1), SortedIn(n, c, low, at - 1),
           NEW d \in Ints(n), Rearranged(n, d, c, at + 1, high), SortedIn(n, d, at + 1, high)
    PROVE  Rearranged(n, d, a, low, high) /\ SortedIn(n, d, low, high)
<1>1. at \in low .. high /\ Rearranged(n, b, a, low, high)
    BY DEF Splits
<1>2. \A k \in 1 .. n : a[k] \in Int /\ b[k] \in Int /\ c[k] \in Int /\ d[k] \in Int
    BY DEF Ints
<1>3. Rearranged(n, c, b, low, high)
    <2>1. at - 1 \in Int /\ at - 1 <= high /\ low <= low
        BY <1>1
    <2>2. QED
        BY <2>1, RearrangedWithin
<1>4. Rearranged(n, d, c, low, high)
    <2>1. at + 1 \in Int /\ low <= at + 1 /\ high <= high
        BY <1>1
    <2>2. QED
        BY <2>1, RearrangedWithin
<1>5. Rearranged(n, d, a, low, high)
    <2>1. Rearranged(n, c, a, low, high)
        BY <1>1, <1>3, RearrangedTwice
    <2>2. QED
        BY <1>4, <2>1, RearrangedTwice
<1>6. /\ \A k \in 1 .. n : k < low \/ k > at - 1 => c[k] = b[k]
      /\ \A k \in 1 .. n : low <= k /\ k <= at - 1 => \E j \in 1 .. n : low <= j /\ j <= at - 1 /\ c[k] = b[j]
    <2>1. at - 1 \in Int /\ low \in Int
        OBVIOUS
    <2>2. QED
        BY <2>1, RearrangedValues
<1>7. /\ \A k \in 1 .. n : k < at + 1 \/ k > high => d[k] = c[k]
      /\ \A k \in 1 .. n : at + 1 <= k /\ k <= high => \E j \in 1 .. n : at + 1 <= j /\ j <= high /\ d[k] = c[j]
    <2>1. at + 1 \in Int /\ high \in Int
        OBVIOUS
    <2>2. QED
        BY <2>1, RearrangedValues
<1>8. ASSUME NEW k \in 1 .. n, low <= k, k <= at PROVE d[k] = c[k] /\ d[k] <= b[at]
    <2>1. d[k] = c[k]
        BY <1>7, <1>8
    <2>2. CASE k = at
        BY <1>2, <1>6, <2>1, <2>2
    <2>3. CASE k # at
        <3>1. PICK j \in 1 .. n : low <= j /\ j <= at - 1 /\ c[k] = b[j]
            BY <1>6, <1>8, <2>3
        <3>2. j \in low .. at
            BY <3>1
        <3>3. b[j] <= b[at]
            BY <3>2 DEF Splits
        <3>4. QED
            BY <2>1, <3>1, <3>3
    <2>4. QED
        BY <2>2, <2>3
<1>9. ASSUME NEW k \in 1 .. n, at <= k, k <= high PROVE b[at] <= d[k]
    <2>1. CASE k = at
        BY <1>2, <1>6, <1>7, <2>1
    <2>2. CASE k # at
        <3>1. PICK j \in 1 .. n : at + 1 <= j /\ j <= high /\ d[k] = c[j]
            BY <1>7, <1>9, <2>2
        <3>2. c[j] = b[j] /\ j \in at .. high
            BY <1>6, <3>1
        <3>3. b[j] >= b[at]
            BY <3>2 DEF Splits
        <3>4. QED
            BY <1>2, <3>1, <3>2, <3>3
    <2>3. QED
        BY <2>1, <2>2
<1>10. ASSUME NEW k \in 1 .. n, NEW m \in 1 .. n, low <= k, k < m, m <= high PROVE d[k] <= d[m]
    <2>1. CASE m <= at - 1
        <3>1. d[k] = c[k] /\ d[m] = c[m]
            BY <1>8, <1>10, <2>1
        <3>2. c[k] <= c[m]
            BY <1>10, <2>1 DEF SortedIn
        <3>3. QED
            BY <3>1, <3>2
    <2>2. CASE at + 1 <= k
        BY <1>10, <2>2 DEF SortedIn
    <2>3. CASE k <= at /\ at <= m
        <3>1. d[k] <= b[at] /\ b[at] <= d[m]
            BY <1>8, <1>9, <1>10, <2>3
        <3>2. QED
            BY <1>2, <3>1
    <2>4. QED
        BY <2>1, <2>2, <2>3
<1>11. QED
    BY <1>5, <1>10 DEF SortedIn

-----------------------------------------------------------------------------
(* The recursion of qsort has a solution: what it returns for a range settles*)
(* as soon as the depth allowed exceeds the length of the range.             *)
Ranges(n) == [arr : Ints(n), low : 1 .. n + 1, high : 0 .. n]

Halves(g, r) ==
    LET p == partition(r.arr, r.low, r.high)
        below == g[[arr |-> p.arr, low |-> r.low, high |-> p.at - 1]]
    IN  g[[arr |-> below, low |-> p.at + 1, high |-> r.high]]
Deeper(n, g) == [r \in Ranges(n) |-> IF r.low >= r.high THEN r.arr ELSE Halves(g, r)]

SizeUpTo(r, d) == r.high - r.low <= d

(* Both calls of qsort get smaller ranges.                                   *)
HalvesOf(n, r, b, at, low, high) ==
    /\ low = r.low /\ high = r.high /\ Splits(n, r.arr, low, high, b, at)
    /\ [arr |-> b, low |-> low, high |-> at - 1] \in Ranges(n)
    /\ \A c \in Ints(n) : [arr |-> c, low |-> at + 1, high |-> high] \in Ranges(n)
    /\ \A g : Halves(g, r) = g[[arr |-> g[[arr |-> b, low |-> low, high |-> at - 1]],
                                low |-> at + 1, high |-> high]]

LEMMA HalvesAre ==
    ASSUME NEW n \in Nat, NEW r \in Ranges(n), ~(r.low >= r.high)
    PROVE  \E b \in Ints(n), at \in 1 .. n, low \in 1 .. n : \E high \in low .. n : HalvesOf(n, r, b, at, low, high)
<1>1. PICK a \in Ints(n), low \in 1 .. n + 1, high \in 0 .. n : a = r.arr /\ low = r.low /\ high = r.high
    BY DEF Ranges
<1>2. low \in 1 .. n /\ high \in low .. n
    BY <1>1
<1> DEFINE b == partition(a, low, high).arr
           at == partition(a, low, high).at
<1>3. Splits(n, a, low, high, b, at)
    BY <1>2, PartitionSplits
<1>4. \A g : Halves(g, r) = g[[arr |-> g[[arr |-> b, low |-> low, high |-> at - 1]], low |-> at + 1, high |-> high]]
    BY <1>1, Zenon DEF Halves
<1> HIDE DEF b, at
<1>5. b \in Ints(n) /\ at \in low .. high
    BY <1>3 DEF Splits
<1>6. at \in 1 .. n /\ at - 1 \in 0 .. n /\ at + 1 \in 1 .. n + 1
    BY <1>2, <1>5
<1>7. [arr |-> b, low |-> low, high |-> at - 1] \in Ranges(n)
    BY <1>2, <1>5, <1>6 DEF Ranges
<1>8. \A c \in Ints(n) : [arr |-> c, low |-> at + 1, high |-> high] \in Ranges(n)
    BY <1>2, <1>6 DEF Ranges
<1>9. QED
    BY <1>1, <1>2, <1>3, <1>4, <1>5, <1>6, <1>7, <1>8 DEF HalvesOf

LEMMA DeeperIsSorter ==
    ASSUME NEW n \in Nat, NEW g \in [Ranges(n) -> Ints(n)]
    PROVE  Deeper(n, g) \in [Ranges(n) -> Ints(n)]
<1>1. ASSUME NEW r \in Ranges(n) PROVE (IF r.low >= r.high THEN r.arr ELSE Halves(g, r)) \in Ints(n)
    <2>1. CASE r.low >= r.high
        BY <2>1 DEF Ranges
    <2>2. CASE ~(r.low >= r.high)
        <3>1. PICK b \in Ints(n), at \in 1 .. n, low \in 1 .. n : \E high \in low .. n : HalvesOf(n, r, b, at, low, high)
            BY <2>2, HalvesAre
        <3>2. PICK high \in low .. n : HalvesOf(n, r, b, at, low, high)
            BY <3>1
        <3> DEFINE r1 == [arr |-> b, low |-> low, high |-> at - 1]
        <3>3. r1 \in Ranges(n)
            BY <3>2 DEF HalvesOf
        <3> HIDE DEF r1
        <3>4. g[r1] \in Ints(n)
            BY <3>3
        <3> DEFINE r2 == [arr |-> g[r1], low |-> at + 1, high |-> high]
        <3>5. r2 \in Ranges(n)
            BY <3>2, <3>4 DEF HalvesOf
        <3>6. Halves(g, r) = g[r2]
            BY <3>2 DEF r1, HalvesOf
        <3> HIDE DEF r2
        <3>7. g[r2] \in Ints(n)
            BY <3>5
        <3>8. QED
            BY <2>2, <3>6, <3>7
    <2>3. QED
        BY <2>1, <2>2
<1>2. QED
    BY <1>1 DEF Deeper

(* Sorters that agree on ranges up to size d make ones that agree on ranges  *)
(* one longer.                                                               *)
Agree(n, f, g, d) == \A r \in Ranges(n) : SizeUpTo(r, d) => f[r] = g[r]

LEMMA AgreeDeeper ==
    ASSUME NEW n \in Nat, NEW d \in Nat, NEW f \in [Ranges(n) -> Ints(n)], NEW g \in [Ranges(n) -> Ints(n)],
           Agree(n, f, g, d)
    PROVE  Agree(n, Deeper(n, f), Deeper(n, g), d + 1)
<1> SUFFICES ASSUME NEW r \in Ranges(n), SizeUpTo(r, d + 1) PROVE Deeper(n, f)[r] = Deeper(n, g)[r]
    BY DEF Agree
<1>1. CASE r.low >= r.high
    BY <1>1 DEF Deeper
<1>2. CASE ~(r.low >= r.high)
    <2>1. PICK b \in Ints(n), at \in 1 .. n, low \in 1 .. n : \E high \in low .. n : HalvesOf(n, r, b, at, low, high)
        BY <1>2, HalvesAre
    <2>2. PICK high \in low .. n : HalvesOf(n, r, b, at, low, high)
        BY <2>1
    <2>3. at \in low .. high /\ high - low <= d + 1
        BY <2>2 DEF Splits, SizeUpTo, HalvesOf
    <2> DEFINE r1 == [arr |-> b, low |-> low, high |-> at - 1]
               R2(c) == [arr |-> c, low |-> at + 1, high |-> high]
    <2>4. r1 \in Ranges(n) /\ SizeUpTo(r1, d)
        BY <2>2, <2>3 DEF SizeUpTo, HalvesOf
    <2>5. \A c \in Ints(n) : R2(c) \in Ranges(n) /\ SizeUpTo(R2(c), d)
        BY <2>2, <2>3 DEF SizeUpTo, HalvesOf
    <2>6. Halves(f, r) = f[R2(f[r1])] /\ Halves(g, r) = g[R2(g[r1])]
        BY <2>2 DEF HalvesOf
    <2> HIDE DEF r1, R2
    <2>7. f[r1] = g[r1] /\ f[r1] \in Ints(n)
        BY <2>4 DEF Agree
    <2>8. f[R2(f[r1])] = g[R2(f[r1])]
        BY <2>5, <2>7 DEF Agree
    <2>9. Halves(f, r) = Halves(g, r)
        BY <2>6, <2>7, <2>8
    <2>10. QED
        BY <1>2, <2>9 DEF Deeper
<1>3. QED
    BY <1>1, <1>2

LEMMA SorterExists ==
    ASSUME NEW n \in Nat
    PROVE  \E q \in [Ranges(n) -> Ints(n)] : q = Deeper(n, q)
<1> DEFINE Sorters == [Ranges(n) -> Ints(n)]
           start == [r \in Ranges(n) |-> r.arr]
           body == [i \in 1 .. n + 1 |-> [f \in Sorters |-> Deeper(n, f)]]
<1>1. PICK g : IsRun(g, n + 1, start, body)
    <2> HIDE DEF start, body
    <2>1. n + 1 \in Nat
        OBVIOUS
    <2>2. QED
        BY <2>1, RunExists
<1>2. g[0] = start /\ \A i \in 1 .. n + 1 : g[i] = body[i][g[i - 1]]
    <2> HIDE DEF start, body
    <2>1. \A i \in 0 .. n + 1 : g[i] = IF i = 0 THEN start ELSE body[i][g[i - 1]]
        BY <1>1 DEF IsRun
    <2>2. 0 \in 0 .. n + 1 /\ \A i \in 1 .. n + 1 : i \in 0 .. n + 1 /\ i # 0
        OBVIOUS
    <2>3. QED
        BY <2>1, <2>2
<1>3. start \in Sorters
    BY DEF Ranges
<1>4. ASSUME NEW i \in 1 .. n + 1, g[i - 1] \in Sorters PROVE g[i] = Deeper(n, g[i - 1]) /\ g[i] \in Sorters
    <2>1. g[i] = Deeper(n, g[i - 1])
        <3>1. body[i][g[i - 1]] = Deeper(n, g[i - 1])
            BY <1>4
        <3>2. QED
            BY <1>2, <3>1
    <2>2. QED
        BY <1>4, <2>1, DeeperIsSorter
<1> HIDE DEF start, body
<1>5. \A i \in 0 .. n + 1 : g[i] \in Sorters
    <2> DEFINE T == {i \in 0 .. n + 1 : g[i] \in Sorters}
    <2>1. 0 \in T
        BY <1>2, <1>3
    <2>2. \A i \in 1 .. n + 1 : i - 1 \in T => i \in T
        BY <1>4
    <2>3. \A i \in 0 .. n + 1 : i \in T
        <3> HIDE DEF T
        <3>1. n + 1 \in Nat
            OBVIOUS
        <3>2. QED
            BY <2>1, <2>2, <3>1, UpTo
    <2>4. QED
        BY <2>3
<1>6. \A i \in 0 .. n : g[i + 1] = Deeper(n, g[i])
    <2> SUFFICES ASSUME NEW i \in 0 .. n PROVE g[i + 1] = Deeper(n, g[i])
        OBVIOUS
    <2>1. i + 1 \in 1 .. n + 1 /\ (i + 1) - 1 = i /\ i \in 0 .. n + 1
        OBVIOUS
    <2>2. g[i] \in Sorters
        BY <1>5, <2>1
    <2>3. QED
        BY <1>4, <2>1, <2>2
<1>7. \A i \in 0 .. n : Agree(n, g[i], g[i + 1], i)
    <2> DEFINE T == {i \in 0 .. n : Agree(n, g[i], g[i + 1], i)}
    <2>1. 0 \in T
        <3>1. g[1] = Deeper(n, g[0]) /\ g[0] = start
            BY <1>2, <1>6
        <3>2. ASSUME NEW r \in Ranges(n), SizeUpTo(r, 0) PROVE g[0][r] = g[1][r]
            <4>1. r.low >= r.high
                BY <3>2 DEF SizeUpTo, Ranges
            <4>2. QED
                BY <3>1, <4>1 DEF Deeper, start
        <3>3. QED
            BY <3>2 DEF Agree
    <2>2. ASSUME NEW i \in 1 .. n, i - 1 \in T PROVE i \in T
        <3>1. i - 1 \in 0 .. n /\ (i - 1) + 1 = i /\ i - 1 \in Nat /\ i \in 0 .. n /\ i \in 0 .. n + 1
              /\ i - 1 \in 0 .. n + 1
            OBVIOUS
        <3>2. g[i - 1] \in Sorters /\ g[i] \in Sorters /\ Agree(n, g[i - 1], g[i], i - 1)
            BY <1>5, <2>2, <3>1
        <3>3. g[i] = Deeper(n, g[i - 1]) /\ g[i + 1] = Deeper(n, g[i])
            BY <1>6, <3>1
        <3>4. Agree(n, Deeper(n, g[i - 1]), Deeper(n, g[i]), (i - 1) + 1)
            BY <3>1, <3>2, AgreeDeeper
        <3>5. QED
            BY <3>1, <3>3, <3>4
    <2>3. \A i \in 0 .. n : i \in T
        <3> HIDE DEF T
        <3>1. QED
            BY <2>1, <2>2, UpTo
    <2>4. QED
        BY <2>3
<1>8. n \in 0 .. n /\ n \in 0 .. n + 1 /\ n + 1 \in 0 .. n + 1
    OBVIOUS
<1>9. g[n] \in Sorters /\ g[n + 1] \in Sorters /\ g[n + 1] = Deeper(n, g[n])
    BY <1>5, <1>6, <1>8
<1>10. \A r \in Ranges(n) : g[n][r] = g[n + 1][r]
    <2>1. \A r \in Ranges(n) : SizeUpTo(r, n)
        BY DEF SizeUpTo, Ranges
    <2>2. QED
        BY <1>7, <1>8, <2>1 DEF Agree
<1>11. g[n] = g[n + 1]
    BY <1>9, <1>10
<1>12. QED
    BY <1>9, <1>11

(* Any solution of the recursion sorts the range it is given, and touches    *)
(* nothing else: by induction on the length of the range.                    *)
SortsRange(n, q, r) ==
    /\ q[r] \in Ints(n)
    /\ Rearranged(n, q[r], r.arr, r.low, r.high)
    /\ SortedIn(n, q[r], r.low, r.high)

LEMMA SorterSorts ==
    ASSUME NEW n \in Nat, NEW q, q = Deeper(n, q)
    PROVE  \A r \in Ranges(n) : SortsRange(n, q, r)
<1>1. \A r \in Ranges(n) : q[r] = IF r.low >= r.high THEN r.arr ELSE Halves(q, r)
    BY DEF Deeper
<1>2. ASSUME NEW r \in Ranges(n), r.low >= r.high PROVE SortsRange(n, q, r)
    <2>1. q[r] = r.arr /\ r.arr \in Ints(n)
        BY <1>1, <1>2 DEF Ranges
    <2>2. PICK low \in Int, high \in Int : low = r.low /\ high = r.high
        BY DEF Ranges
    <2>3. Rearranged(n, q[r], r.arr, r.low, r.high)
        BY <2>1, RearrangedSame
    <2>4. SortedIn(n, q[r], r.low, r.high)
        BY <1>2, <2>2 DEF SortedIn
    <2>5. QED
        BY <2>1, <2>3, <2>4 DEF SortsRange
<1> DEFINE T == {d \in 0 .. n : \A r \in Ranges(n) : SizeUpTo(r, d) => SortsRange(n, q, r)}
<1>3. 0 \in T
    <2>1. \A r \in Ranges(n) : SizeUpTo(r, 0) => r.low >= r.high
        BY DEF SizeUpTo, Ranges
    <2>2. QED
        BY <1>2, <2>1
<1>4. ASSUME NEW d \in 1 .. n, d - 1 \in T PROVE d \in T
    <2> SUFFICES ASSUME NEW r \in Ranges(n), SizeUpTo(r, d) PROVE SortsRange(n, q, r)
        OBVIOUS
    <2>1. CASE r.low >= r.high
        BY <1>2, <2>1
    <2>2. CASE ~(r.low >= r.high)
        <3>1. PICK b \in Ints(n), at \in 1 .. n, low \in 1 .. n : \E high \in low .. n : HalvesOf(n, r, b, at, low, high)
            BY <2>2, HalvesAre
        <3>2. PICK high \in low .. n : HalvesOf(n, r, b, at, low, high)
            BY <3>1
        <3>3. /\ low = r.low /\ high = r.high /\ Splits(n, r.arr, low, high, b, at)
              /\ at \in low .. high /\ high - low <= d
            BY <3>2 DEF HalvesOf, Splits, SizeUpTo
        <3> DEFINE r1 == [arr |-> b, low |-> low, high |-> at - 1]
                   c == q[r1]
                   r2 == [arr |-> c, low |-> at + 1, high |-> high]
                   e == q[r2]
        <3>4. r1 \in Ranges(n) /\ SizeUpTo(r1, d - 1)
            BY <3>2, <3>3 DEF SizeUpTo, HalvesOf
        <3>5. SortsRange(n, q, r1)
            BY <1>4, <3>4
        <3>6. c \in Ints(n) /\ Rearranged(n, c, b, low, at - 1) /\ SortedIn(n, c, low, at - 1)
            BY <3>5 DEF SortsRange
        <3>7. r2 \in Ranges(n) /\ SizeUpTo(r2, d - 1)
            <4> HIDE DEF c
            <4>1. QED
                BY <3>2, <3>3, <3>6 DEF SizeUpTo, HalvesOf
        <3>8. SortsRange(n, q, r2)
            <4> HIDE DEF r2
            <4>1. QED
                BY <1>4, <3>7
        <3>9. e \in Ints(n) /\ Rearranged(n, e, c, at + 1, high) /\ SortedIn(n, e, at + 1, high)
            <4> HIDE DEF c
            <4>1. QED
                BY <3>8 DEF SortsRange
        <3>10. q[r] = e
            BY <1>1, <2>2, <3>2 DEF HalvesOf
        <3> HIDE DEF c, e
        <3>11. PICK a \in Ints(n) : a = r.arr
            BY DEF Ranges
        <3>12. Rearranged(n, e, a, low, high) /\ SortedIn(n, e, low, high)
            <4>1. Splits(n, a, low, high, b, at)
                BY <3>3, <3>11
            <4>2. QED
                BY <3>6, <3>9, <4>1, BothSides
        <3>13. QED
            BY <3>3, <3>9, <3>10, <3>11, <3>12 DEF SortsRange
    <2>3. QED
        BY <2>1, <2>2
<1>5. n \in T
    <2> HIDE DEF T
    <2>1. n \in 0 .. n
        OBVIOUS
    <2>2. QED
        BY <1>3, <1>4, <2>1, UpTo
<1>6. \A r \in Ranges(n) : SizeUpTo(r, n)
    BY DEF SizeUpTo, Ranges
<1>7. QED
    BY <1>5, <1>6

LEMMA QuickSorts == ASSUME NEW n \in Nat, NEW a \in Ints(n) PROVE SortOf(quick_sort(a), a)
<1> DEFINE q == CHOOSE g : g = Deeper(n, g)
           r == [arr |-> a, low |-> 1, high |-> n]
<1>1. quick_sort(a) = q[r]
    BY LenOfInts, Zenon DEF quick_sort, Deeper, Halves, Ranges
<1>2. PICK f \in [Ranges(n) -> Ints(n)] : f = Deeper(n, f)
    BY SorterExists
<1>3. q = Deeper(n, q)
    BY <1>2
<1> HIDE DEF q
<1>4. r \in Ranges(n)
    BY DEF Ranges
<1>5. SortsRange(n, q, r)
    <2> HIDE DEF r
    <2>1. QED
        BY <1>3, <1>4, SorterSorts
<1> DEFINE e == q[r]
<1>6. e \in Ints(n) /\ Rearranged(n, e, a, 1, n) /\ SortedIn(n, e, 1, n)
    BY <1>5 DEF SortsRange
<1> HIDE DEF e
<1>7. SortedBehind(n, e, 0)
    BY <1>6 DEF SortedIn, SortedBehind
<1>8. QED
    BY <1>1, <1>6, <1>7, SortedRearrangement DEF e

-----------------------------------------------------------------------------
(* The merge.  What is left of both arrays, followed by what is in its place *)
(* behind: i values of b, j of a2, then b again.                             *)
Mixed(n, b, a2, i, j) == [k \in 1 .. n |-> IF k > i /\ k <= i + j THEN a2[k - i] ELSE b[k]]

MergeInv(n, all, a1, a2, b, i, j) ==
    /\ Rearranged(n, Mixed(n, b, a2, i, j), all, 1, n)
    /\ \A k \in 1 .. i : b[k] = a1[k]
    /\ \A p, q \in 1 .. n : p < q /\ p > i + j => b[p] <= b[q]
    /\ \A q \in i + j + 1 .. n : (\A k \in 1 .. i : a1[k] <= b[q]) /\ (\A k \in 1 .. j : a2[k] <= b[q])

Ascending(n, a) == \A p, q \in 1 .. n : p <= q => a[p] <= a[q]

LEMMA MixedIn ==
    ASSUME NEW n \in Nat, NEW n2 \in Nat, NEW b \in Ints(n), NEW a2 \in Ints(n2), NEW i \in 0 .. n, NEW j \in 0 .. n2
    PROVE  Mixed(n, b, a2, i, j) \in Ints(n)
BY DEF Mixed, Ints

LEMMA TakeFirst ==
    ASSUME NEW n1 \in Nat, NEW n2 \in Nat, NEW n, n = n1 + n2, NEW all \in Ints(n),
           NEW a1 \in Ints(n1), NEW a2 \in Ints(n2), Ascending(n1, a1), Ascending(n2, a2),
           NEW b \in Ints(n), NEW i \in 1 .. n1, NEW j \in 0 .. n2, MergeInv(n, all, a1, a2, b, i, j),
           j = 0 \/ b[i] > a2[j]
    PROVE  /\ Put(b, i + j, b[i]) \in Ints(n)
           /\ MergeInv(n, all, a1, a2, Put(b, i + j, b[i]), i - 1, j)
<1> DEFINE t == i + j
           c == Put(b, t, b[i])
           was == Mixed(n, b, a2, i, j)
           now == Mixed(n, c, a2, i - 1, j)
<1>1. n \in Nat /\ t \in 1 .. n /\ i \in 1 .. n /\ i \in 0 .. n /\ i - 1 \in 0 .. n /\ t \in i .. n
    OBVIOUS
<1>2. /\ \A k \in 1 .. n : b[k] \in Int
      /\ \A k \in 1 .. n1 : a1[k] \in Int
      /\ \A k \in 1 .. n2 : a2[k] \in Int
    BY <1>1 DEF Ints
<1>3. c \in Ints(n) /\ \A k \in 1 .. n : c[k] = IF k = t THEN b[i] ELSE b[k]
    <2>1. b[i] \in Int
        BY <1>1, <1>2
    <2> HIDE DEF t
    <2>2. QED
        BY <1>1, <2>1, PutIn
<1>4. was \in Ints(n) /\ now \in Ints(n)
    <2> HIDE DEF c
    <2>1. QED
        BY <1>1, <1>3, MixedIn
<1> HIDE DEF c
<1>5. now = MovedUp(n, was, i, t)
    <2>1. \A k \in 1 .. n : was[k] = IF k > i /\ k <= t THEN a2[k - i] ELSE b[k]
        BY DEF Mixed
    <2>2. \A k \in 1 .. n : now[k] = IF k > i - 1 /\ k <= t - 1 THEN a2[k - (i - 1)] ELSE c[k]
        BY DEF Mixed
    <2> HIDE DEF was, now, t
    <2>3. ASSUME NEW k \in 1 .. n PROVE now[k] = IF k < i \/ k > t THEN was[k] ELSE IF k = t THEN was[i] ELSE was[k + 1]
        <3>1. CASE k < i \/ k > t
            BY <1>1, <1>3, <2>1, <2>2, <3>1
        <3>2. CASE k = t
            BY <1>1, <1>3, <2>1, <2>2, <3>2
        <3>3. CASE k >= i /\ k < t
            <4>1. k + 1 \in 1 .. n /\ k + 1 > i /\ k + 1 <= t /\ (k + 1) - i = k - (i - 1)
                BY <1>1, <3>3
            <4>2. was[k + 1] = a2[(k + 1) - i] /\ now[k] = a2[k - (i - 1)]
                BY <1>1, <2>1, <2>2, <3>3, <4>1
            <4>3. QED
                BY <1>1, <3>3, <4>1, <4>2
        <3>4. QED
            BY <1>1, <3>1, <3>2, <3>3
    <2>4. now = [k \in 1 .. n |-> now[k]]
        BY <1>4 DEF Ints
    <2>5. QED
        BY <2>3, <2>4 DEF MovedUp
<1>6. Rearranged(n, now, all, 1, n)
    <2>1. Rearranged(n, was, all, 1, n)
        BY DEF MergeInv
    <2> HIDE DEF was, now, t
    <2>2. Rearranged(n, now, was, 1, n)
        BY <1>1, <1>4, <1>5, RearrangedUp
    <2>3. QED
        BY <1>1, <2>1, <2>2, RearrangedTwice
<1>7. \A k \in 1 .. i - 1 : c[k] = a1[k]
    BY <1>1, <1>3 DEF MergeInv
<1>8. c[t] = a1[i] /\ a1[i] = b[i]
    BY <1>1, <1>3 DEF MergeInv
<1>9. ASSUME NEW p \in 1 .. n, NEW q \in 1 .. n, p < q, p > i - 1 + j PROVE c[p] <= c[q]
    <2>1. CASE p = t
        <3>1. q \in i + j + 1 .. n /\ c[q] = b[q]
            BY <1>1, <1>3, <1>9, <2>1
        <3>2. a1[i] <= b[q]
            BY <3>1 DEF MergeInv
        <3>3. QED
            BY <1>8, <2>1, <3>1, <3>2
    <2>2. CASE p # t
        <3>1. p > i + j /\ c[p] = b[p] /\ c[q] = b[q]
            BY <1>1, <1>3, <1>9, <2>2
        <3>2. QED
            BY <1>9, <3>1 DEF MergeInv
    <2>3. QED
        BY <2>1, <2>2
<1>10. ASSUME NEW q \in i - 1 + j + 1 .. n
       PROVE  (\A k \in 1 .. i - 1 : a1[k] <= c[q]) /\ (\A k \in 1 .. j : a2[k] <= c[q])
    <2>1. CASE q = t
        <3>1. \A k \in 1 .. i - 1 : a1[k] <= a1[i]
            BY DEF Ascending
        <3>2. ASSUME NEW k \in 1 .. j PROVE a2[k] <= b[i]
            <4>1. j \in 1 .. n2 /\ k \in 1 .. n2 /\ b[i] > a2[j]
                OBVIOUS
            <4>2. a2[k] <= a2[j]
                BY <4>1 DEF Ascending
            <4>3. QED
                BY <1>1, <1>2, <4>1, <4>2
        <3>3. QED
            BY <1>8, <2>1, <3>1, <3>2
    <2>2. CASE q # t
        <3>1. q \in i + j + 1 .. n /\ c[q] = b[q]
            BY <1>1, <1>3, <2>2
        <3>2. \A k \in 1 .. i - 1 : k \in 1 .. i
            OBVIOUS
        <3>3. QED
            BY <3>1, <3>2 DEF MergeInv
    <2>3. QED
        BY <2>1, <2>2
<1>11. MergeInv(n, all, a1, a2, c, i - 1, j)
    BY <1>6, <1>7, <1>9, <1>10 DEF MergeInv
<1>12. QED
    BY <1>3, <1>11 DEF c

LEMMA TakeSecond ==
    ASSUME NEW n1 \in Nat, NEW n2 \in Nat, NEW n, n = n1 + n2, NEW all \in Ints(n),
           NEW a1 \in Ints(n1), NEW a2 \in Ints(n2), Ascending(n1, a1), Ascending(n2, a2),
           NEW b \in Ints(n), NEW i \in 0 .. n1, NEW j \in 1 .. n2, MergeInv(n, all, a1, a2, b, i, j),
           i = 0 \/ ~(b[i] > a2[j])
    PROVE  /\ Put(b, i + j, a2[j]) \in Ints(n)
           /\ MergeInv(n, all, a1, a2, Put(b, i + j, a2[j]), i, j - 1)
<1> DEFINE t == i + j
           c == Put(b, t, a2[j])
           was == Mixed(n, b, a2, i, j)
           now == Mixed(n, c, a2, i, j - 1)
<1>1. n \in Nat /\ t \in 1 .. n /\ i \in 0 .. n /\ j - 1 \in 0 .. n2 /\ j \in 0 .. n2
    OBVIOUS
<1>2. /\ \A k \in 1 .. n : b[k] \in Int
      /\ \A k \in 1 .. n1 : a1[k] \in Int
      /\ \A k \in 1 .. n2 : a2[k] \in Int
    BY <1>1 DEF Ints
<1>3. c \in Ints(n) /\ \A k \in 1 .. n : c[k] = IF k = t THEN a2[j] ELSE b[k]
    <2>1. a2[j] \in Int
        BY <1>2
    <2> HIDE DEF t
    <2>2. QED
        BY <1>1, <2>1, PutIn
<1>4. was \in Ints(n) /\ now \in Ints(n)
    <2> HIDE DEF c
    <2>1. QED
        BY <1>1, <1>3, MixedIn
<1> HIDE DEF c
<1>5. now = was
    <2>1. \A k \in 1 .. n : was[k] = IF k > i /\ k <= t THEN a2[k - i] ELSE b[k]
        BY DEF Mixed
    <2>2. \A k \in 1 .. n : now[k] = IF k > i /\ k <= t - 1 THEN a2[k - i] ELSE c[k]
        BY DEF Mixed
    <2>3. t - i = j
        OBVIOUS
    <2> HIDE DEF was, now
    <2>4. \A k \in 1 .. n : now[k] = was[k]
        BY <1>1, <1>3, <2>1, <2>2, <2>3
    <2>5. QED
        BY <1>1, <1>4, <2>4, SameInts
<1>6. Rearranged(n, now, all, 1, n)
    BY <1>5 DEF MergeInv
<1>7. \A k \in 1 .. i : c[k] = a1[k]
    BY <1>1, <1>3 DEF MergeInv
<1>8. c[t] = a2[j]
    BY <1>1, <1>3
<1>9. ASSUME NEW p \in 1 .. n, NEW q \in 1 .. n, p < q, p > i + (j - 1) PROVE c[p] <= c[q]
    <2>1. CASE p = t
        <3>1. q \in i + j + 1 .. n /\ c[q] = b[q]
            BY <1>1, <1>3, <1>9, <2>1
        <3>2. a2[j] <= b[q]
            BY <3>1 DEF MergeInv
        <3>3. QED
            BY <1>8, <2>1, <3>1, <3>2
    <2>2. CASE p # t
        <3>1. p > i + j /\ c[p] = b[p] /\ c[q] = b[q]
            BY <1>1, <1>3, <1>9, <2>2
        <3>2. QED
            BY <1>9, <3>1 DEF MergeInv
    <2>3. QED
        BY <2>1, <2>2
<1>10. ASSUME NEW q \in i + (j - 1) + 1 .. n
       PROVE  (\A k \in 1 .. i : a1[k] <= c[q]) /\ (\A k \in 1 .. j - 1 : a2[k] <= c[q])
    <2>1. CASE q = t
        <3>1. \A k \in 1 .. j - 1 : a2[k] <= a2[j]
            BY DEF Ascending
        <3>2. ASSUME NEW k \in 1 .. i PROVE a1[k] <= a2[j]
            <4>1. i \in 1 .. n1 /\ k \in 1 .. n1 /\ ~(b[i] > a2[j]) /\ i \in 1 .. i
                OBVIOUS
            <4>2. a1[k] <= a1[i] /\ b[i] = a1[i]
                BY <4>1 DEF Ascending, MergeInv
            <4>3. a1[i] \in Int /\ a1[k] \in Int /\ a2[j] \in Int
                BY <1>2, <4>1
            <4>4. QED
                BY <4>1, <4>2, <4>3
        <3>3. QED
            BY <1>8, <2>1, <3>1, <3>2
    <2>2. CASE q # t
        <3>1. q \in i + j + 1 .. n /\ c[q] = b[q]
            BY <1>1, <1>3, <2>2
        <3>2. \A k \in 1 .. j - 1 : k \in 1 .. j
            OBVIOUS
        <3>3. QED
            BY <3>1, <3>2 DEF MergeInv
    <2>3. QED
        BY <2>1, <2>2
<1>11. MergeInv(n, all, a1, a2, c, i, j - 1)
    BY <1>6, <1>7, <1>9, <1>10 DEF MergeInv
<1>12. QED
    BY <1>3, <1>11 DEF c

MergingOf(n, n1, n2) == [arr1 : Ints(n), i : 0 .. n1, j : 0 .. n2]

LEMMA MergeSorts ==
    ASSUME NEW n1 \in Nat, NEW n2 \in Nat, NEW a1 \in Ints(n1), NEW a2 \in Ints(n2),
           Ascending(n1, a1), Ascending(n2, a2)
    PROVE  SortOf(mergeArray(a1, a2), a1 \o a2)
<1> DEFINE n == n1 + n2
           all == a1 \o a2
           S == MergingOf(n, n1, n2)
           room == [k \in 1 .. n |-> IF k <= n1 THEN a1[k] ELSE 0]
           start == [arr1 |-> room, i |-> n1, j |-> n2]
           body == [k \in 1 .. n |-> [m \in S |->
               IF m.i > 0 /\ (m.j = 0 \/ m.arr1[m.i] > a2[m.j])
               THEN [arr1 |-> [m.arr1 EXCEPT ![m.i + m.j] = m.arr1[m.i]], i |-> m.i - 1, j |-> m.j]
               ELSE [arr1 |-> [m.arr1 EXCEPT ![m.i + m.j] = a2[m.j]], i |-> m.i, j |-> m.j - 1]]]
           Inv == [k \in 0 .. n |-> {m \in S : m.i + m.j = n - k /\ MergeInv(n, all, a1, a2, m.arr1, m.i, m.j)}]
           end == Loop(n, start, body)
<1>1. n \in Nat /\ n = n1 + n2
    OBVIOUS
<1>2. mergeArray(a1, a2) = end.arr1
    BY LenOfInts, Zenon DEF mergeArray, MergingOf
<1>3. all \in Ints(n) /\ \A k \in 1 .. n : all[k] = IF k <= n1 THEN a1[k] ELSE a2[k - n1]
    <2>1. a1 \in Seq(Int) /\ a2 \in Seq(Int) /\ Len(a1) = n1 /\ Len(a2) = n2
        BY LenOfInts
    <2>2. all \in Seq(Int)
        BY <2>1, ConcatProperties
    <2>3. Len(all) = n
        BY <2>1, ConcatProperties
    <2>4. ASSUME NEW k \in 1 .. n PROVE all[k] = IF k <= n1 THEN a1[k] ELSE a2[k - n1]
        BY <2>1, <2>3, ConcatProperties
    <2> HIDE DEF all
    <2>5. all \in Ints(n)
        BY <2>2, <2>3 DEF Ints
    <2>6. QED
        BY <2>4, <2>5
<1>4. start \in Inv[0]
    <2>1. room \in Ints(n)
        BY DEF Ints
    <2>2. start \in S
        <3> HIDE DEF room
        <3>1. QED
            BY <2>1 DEF MergingOf
    <2>3. Mixed(n, room, a2, n1, n2) = all
        <3>1. Mixed(n, room, a2, n1, n2) \in Ints(n)
            <4>1. n1 \in 0 .. n /\ n2 \in 0 .. n2
                OBVIOUS
            <4> HIDE DEF room
            <4>2. QED
                BY <1>1, <2>1, <4>1, MixedIn
        <3>2. \A k \in 1 .. n : Mixed(n, room, a2, n1, n2)[k] = all[k]
            <4> HIDE DEF all
            <4>1. QED
                BY <1>3 DEF Mixed
        <3> HIDE DEF all, room, n
        <3>3. QED
            BY <1>1, <1>3, <3>1, <3>2, SameInts
    <2>4. Rearranged(n, Mixed(n, room, a2, n1, n2), all, 1, n)
        <3> HIDE DEF all, n
        <3>1. Rearranged(n, all, all, 1, n)
            BY <1>1, RearrangedSame
        <3>2. QED
            BY <2>3, <3>1
    <2>5. MergeInv(n, all, a1, a2, room, n1, n2)
        <3>1. \A k \in 1 .. n1 : room[k] = a1[k]
            OBVIOUS
        <3>2. QED
            BY <2>4, <3>1 DEF MergeInv
    <2>6. start.arr1 = room /\ start.i = n1 /\ start.j = n2
        OBVIOUS
    <2> HIDE DEF start, room, S, all
    <2>7. QED
        BY <2>2, <2>5, <2>6
<1>5. ASSUME NEW k \in 1 .. n, NEW m \in Inv[k - 1] PROVE body[k][m] \in Inv[k]
    <2>1. k - 1 \in 0 .. n /\ k \in 0 .. n
        OBVIOUS
    <2>2. m \in S /\ m.i + m.j = n - (k - 1) /\ MergeInv(n, all, a1, a2, m.arr1, m.i, m.j)
        BY <2>1
    <2>3. PICK b \in Ints(n), i \in 0 .. n1, j \in 0 .. n2 : m = [arr1 |-> b, i |-> i, j |-> j]
        BY <2>2 DEF MergingOf
    <2>4. m.arr1 = b /\ m.i = i /\ m.j = j
        BY <2>3
    <2>5. i + j = n - (k - 1) /\ MergeInv(n, all, a1, a2, b, i, j)
        BY <2>2, <2>4
    <2>6. body[k][m] = IF i > 0 /\ (j = 0 \/ b[i] > a2[j])
                       THEN [arr1 |-> Put(b, i + j, b[i]), i |-> i - 1, j |-> j]
                       ELSE [arr1 |-> Put(b, i + j, a2[j]), i |-> i, j |-> j - 1]
        <3>1. body[k][m] = IF i > 0 /\ (j = 0 \/ b[i] > a2[j])
                           THEN [arr1 |-> [b EXCEPT ![i + j] = b[i]], i |-> i - 1, j |-> j]
                           ELSE [arr1 |-> [b EXCEPT ![i + j] = a2[j]], i |-> i, j |-> j - 1]
            BY <2>2, <2>4
        <3> HIDE DEF body
        <3>2. QED
            BY <3>1 DEF Put
    <2> HIDE DEF body
    <2>7. CASE i > 0 /\ (j = 0 \/ b[i] > a2[j])
        <3> DEFINE c == Put(b, i + j, b[i])
        <3>1. i \in 1 .. n1
            BY <2>7
        <3>2. c \in Ints(n) /\ MergeInv(n, all, a1, a2, c, i - 1, j)
            <4> HIDE DEF n, all
            <4>1. QED
                BY <1>1, <1>3, <2>5, <2>7, <3>1, TakeFirst
        <3>3. i - 1 \in 0 .. n1 /\ (i - 1) + j = n - k
            BY <2>5, <3>1
        <3> HIDE DEF c
        <3> DEFINE e == [arr1 |-> c, i |-> i - 1, j |-> j]
        <3>4. e \in S /\ e.arr1 = c /\ e.i = i - 1 /\ e.j = j
            BY <3>2, <3>3 DEF MergingOf
        <3>5. body[k][m] = e
            BY <2>6, <2>7 DEF c
        <3> HIDE DEF e, n, S, all
        <3>6. QED
            BY <2>1, <3>2, <3>3, <3>4, <3>5
    <2>8. CASE ~(i > 0 /\ (j = 0 \/ b[i] > a2[j]))
        <3> DEFINE c == Put(b, i + j, a2[j])
        <3>1. j \in 1 .. n2 /\ (i = 0 \/ ~(b[i] > a2[j]))
            BY <2>5, <2>8
        <3>2. c \in Ints(n) /\ MergeInv(n, all, a1, a2, c, i, j - 1)
            <4> HIDE DEF n, all
            <4>1. QED
                BY <1>1, <1>3, <2>5, <3>1, TakeSecond
        <3>3. j - 1 \in 0 .. n2 /\ i + (j - 1) = n - k
            <4>1. i + j = n - (k - 1) /\ k \in Int /\ i \in Int /\ j \in Int
                BY <2>5
            <4>2. QED
                BY <3>1, <4>1
        <3> HIDE DEF c
        <3> DEFINE e == [arr1 |-> c, i |-> i, j |-> j - 1]
        <3>4. e \in S /\ e.arr1 = c /\ e.i = i /\ e.j = j - 1
            BY <3>2, <3>3 DEF MergingOf
        <3>5. body[k][m] = e
            BY <2>6, <2>8 DEF c
        <3> HIDE DEF e, n, S, all
        <3>6. QED
            BY <2>1, <3>2, <3>3, <3>4, <3>5
    <2>9. QED
        BY <2>7, <2>8
<1>6. end \in Inv[n]
    <2> HIDE DEF n, start, body, Inv
    <2>1. QED
        BY <1>1, <1>4, <1>5, LoopInvariant
<1> HIDE DEF end
<1>7. n \in 0 .. n
    OBVIOUS
<1>8. end \in S /\ end.i + end.j = n - n /\ MergeInv(n, all, a1, a2, end.arr1, end.i, end.j)
    BY <1>6, <1>7
<1>9. PICK b \in Ints(n), i \in 0 .. n1, j \in 0 .. n2 : b = end.arr1 /\ i = end.i /\ j = end.j
    BY <1>8 DEF MergingOf
<1>10. i = 0 /\ j = 0 /\ MergeInv(n, all, a1, a2, b, 0, 0)
    BY <1>8, <1>9
<1> HIDE DEF n, all
<1>11. Mixed(n, b, a2, 0, 0) = b
    <2>1. \A k \in 1 .. n : Mixed(n, b, a2, 0, 0)[k] = b[k]
        BY <1>1 DEF Mixed
    <2>2. Mixed(n, b, a2, 0, 0) \in Ints(n)
        BY <1>1, MixedIn
    <2>3. QED
        BY <1>1, <2>1, <2>2, SameInts
<1>12. Rearranged(n, b, all, 1, n) /\ SortedBehind(n, b, 0)
    BY <1>1, <1>10, <1>11 DEF MergeInv, SortedBehind
<1>13. SortOf(b, all)
    BY <1>1, <1>3, <1>12, SortedRearrangement
<1>14. QED
    BY <1>2, <1>9, <1>13 DEF all

-----------------------------------------------------------------------------
LEMMA ArraysAreInts == ASSUME NEW a \in Arrays PROVE Len(a) \in Nat /\ a \in Ints(Len(a))
<1>1. PICK m \in 0 .. MaxArray : a \in [1 .. m -> 0 .. MaxValue]
    BY DEF Arrays, BoundedSeq, SeqOf
<1>2. m \in Nat /\ a \in Ints(m)
    BY <1>1, SortAssumption DEF Ints
<1>3. QED
    BY <1>2, LenOfInts

LEMMA SortedIsAscending == ASSUME NEW n \in Nat, NEW a \in Ints(n), Sorted(a) PROVE Ascending(n, a)
BY DEF Sorted, Ascending, Ints

ArraysAreRead ==
    /\ sorts.program = "sort" => sorts.arr \in Arrays
    /\ sorts.program = "merge" => /\ sorts.arr1 \in Arrays /\ Sorted(sorts.arr1)
                                  /\ sorts.arr2 \in Arrays /\ Sorted(sorts.arr2)

(* The three sorts of sort.c and mergeArray return the values they were      *)
(* given, as often as they were given, in ascending order: for arrays of any *)
(* length and any values.                                                    *)
THEOREM ProgramsSort == SortSpec => []SortsAgree
<1>1. SortInit => ArraysAreRead
    BY DEF SortInit, ArraysAreRead
<1>2. ArraysAreRead /\ [SortNext]_sortVars => ArraysAreRead'
    BY DEF ArraysAreRead, SortNext, sortVars
<1>3. ArraysAreRead => SortsAgree
    <2> SUFFICES ASSUME ArraysAreRead PROVE SortsAgree
        OBVIOUS
    <2>1. ASSUME sorts.program = "sort"
          PROVE  /\ SortOf(bubble_sort(sorts.arr), sorts.arr)
                 /\ SortOf(insert_sort(sorts.arr), sorts.arr)
                 /\ SortOf(quick_sort(sorts.arr), sorts.arr)
        <3>1. PICK n \in Nat : sorts.arr \in Ints(n)
            BY <2>1, ArraysAreInts DEF ArraysAreRead
        <3> DEFINE a == sorts.arr
        <3>2. SortOf(bubble_sort(a), a) /\ SortOf(insert_sort(a), a) /\ SortOf(quick_sort(a), a)
            <4> HIDE DEF a
            <4>1. a \in Ints(n)
                BY <3>1 DEF a
            <4>2. QED
                BY <4>1, BubbleSorts, InsertSorts, QuickSorts
        <3>3. QED
            BY <3>2
    <2>2. ASSUME sorts.program = "merge"
          PROVE  SortOf(mergeArray(sorts.arr1, sorts.arr2), sorts.arr1 \o sorts.arr2)
        <3>1. PICK n1 \in Nat : sorts.arr1 \in Ints(n1)
            BY <2>2, ArraysAreInts DEF ArraysAreRead
        <3>2. PICK n2 \in Nat : sorts.arr2 \in Ints(n2)
            BY <2>2, ArraysAreInts DEF ArraysAreRead
        <3> DEFINE a1 == sorts.arr1
                   a2 == sorts.arr2
        <3>3. Ascending(n1, a1) /\ Ascending(n2, a2)
            BY <2>2, <3>1, <3>2, SortedIsAscending DEF ArraysAreRead
        <3>4. SortOf(mergeArray(a1, a2), a1 \o a2)
            <4>1. a1 \in Ints(n1) /\ a2 \in Ints(n2)
                BY <3>1, <3>2
            <4> HIDE DEF a1, a2
            <4>2. QED
                BY <3>3, <4>1, MergeSorts
        <3>5. QED
            BY <3>4
    <2>3. QED
        BY <2>1, <2>2 DEF SortsAgree
<1>4. QED
    BY <1>1, <1>2, <1>3, PTL DEF SortSpec
=============================================================================
