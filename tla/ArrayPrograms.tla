---------------------------- MODULE ArrayPrograms ----------------------------
(***************************************************************************)
(* The array programs of exam/: what each returns for the array or matrix  *)
(* it reads.  Arrays start at 1 here.                                      *)
(***************************************************************************)
EXTENDS SortPrograms

CONSTANT MaxGrid   \* bound: rows and columns of a matrix

VARIABLE given  \* the program that runs, and what it has read

arrayVars == <<given>>

-----------------------------------------------------------------------------
(* huawei/processTask.c: the tasks, the shortest first, each to a processor  *)
(* that is free first.                                                       *)
processTask(m, tasks) ==
    LET s == insert_sort(tasks)
        n == Len(s)
        Assign(tm, i) ==
            LET first == CHOOSE p \in 1 .. m : \A q \in 1 .. m : tm[p] < tm[q] \/ (tm[p] = tm[q] /\ p <= q)
            IN  IF i <= m THEN [tm EXCEPT ![i] = s[i]] ELSE [tm EXCEPT ![first] = @ + s[i]]
    IN  IF m >= n THEN s[n] ELSE Max(ToSet(FoldLeftDomain(Assign, [p \in 1 .. m |-> 0], s)))

(* huawei/getPathLen.c: the ones in a row from a cell, in four directions.   *)
Run(grid, x, y, dx, dy) ==
    Max({0} \cup {k \in 1 .. MaxGrid : \A i \in 0 .. k - 1 :
            <<x + i * dx, y + i * dy>> \in DOMAIN grid /\ grid[<<x + i * dx, y + i * dy>>] = 1})
get_lenFaulty(grid, x, y) ==
    Max({Run(grid, x, y, d[1], d[2]) : d \in {<<1, 0>>, <<0, 1>>, <<1, 1>>}})
get_len(grid, x, y) ==
    Max({Run(grid, x, y, d[1], d[2]) : d \in {<<1, 0>>, <<0, 1>>, <<1, 1>>, <<1, -1>>}})
getPathLen(grid) == Max({0} \cup {get_len(grid, c[1], c[2]) : c \in {c \in DOMAIN grid : grid[c] = 1}})

(* point_to_offer/0301_duplicateInArray.c puts each value at its own index   *)
(* until it finds it there; 0302 halves the range of values.                 *)
RECURSIVE duplicate(_, _)
duplicate(arr, i) ==
    IF i > Len(arr) THEN -1
    ELSE LET v == arr[i]
         IN  IF v = i - 1 THEN duplicate(arr, i + 1)
             ELSE IF arr[v + 1] = v THEN v
             ELSE duplicate([arr EXCEPT ![i] = arr[v + 1], ![v + 1] = v], i)

countRange(arr, start, end) == Quantify(DOMAIN arr, LAMBDA i : arr[i] \in start .. end)

RECURSIVE duplicate0302(_, _, _)
duplicate0302(arr, start, end) ==
    LET mid == (end - start) \div 2 + start
        count == countRange(arr, start, mid)
    IN  IF end < start THEN -1
        ELSE IF start = end THEN IF count > 1 THEN start ELSE -1
        ELSE IF count > mid - start + 1 THEN duplicate0302(arr, start, mid)
        ELSE duplicate0302(arr, mid + 1, end)

(* point_to_offer/0401_findInMatrix.c walks from the upper right corner.     *)
RECURSIVE findInMatrix(_, _, _, _)
findInMatrix(grid, row, column, value) ==
    IF <<row, column>> \notin DOMAIN grid THEN FALSE
    ELSE IF value < grid[<<row, column>>] THEN findInMatrix(grid, row, column - 1, value)
    ELSE IF value > grid[<<row, column>>] THEN findInMatrix(grid, row + 1, column, value)
    ELSE TRUE

-----------------------------------------------------------------------------
(* The arrays and matrices that can be read, and the step that reads one.    *)
Grids(values) == UNION {[(1 .. r) \X (1 .. c) -> values] : r, c \in 1 .. MaxGrid}
SortedGrid(grid) == \A c, d \in DOMAIN grid : c[1] <= d[1] /\ c[2] <= d[2] => grid[c] <= grid[d]

ArrayInit == given = [program |-> "none"]
ArrayNext ==
    /\ given.program = "none"
    /\ \/ \E arr \in Arrays \ {<<>>}, m \in 1 .. 3 : given' = [program |-> "tasks", arr |-> arr, m |-> m]
       \/ \E grid \in Grids(0 .. 1) : given' = [program |-> "path", grid |-> grid]
       \/ \E arr \in Arrays : Len(arr) > 0 /\ (\A i \in DOMAIN arr : arr[i] < Len(arr))
                              /\ given' = [program |-> "duplicate", arr |-> arr]
       \/ \E grid \in Grids(0 .. 2), v \in 0 .. 2 :
             SortedGrid(grid) /\ given' = [program |-> "find", grid |-> grid, value |-> v]

ArraySpec == ArrayInit /\ [][ArrayNext]_arrayVars

-----------------------------------------------------------------------------
(* The searches find what is there, and only that: the longest line of ones  *)
(* in any of the eight directions, a duplicate, a value of the matrix.  And  *)
(* the time of processTask.c, which takes the shortest task first, is that of*)
(* a schedule, but not always of the best one: it stays below twice the best.*)
Makespan(m, arr, on) ==
    Max({MapThenSumSet(LAMBDA i : arr[i], {i \in DOMAIN arr : on[i] = p}) : p \in 1 .. m})
SearchesFind ==
    /\ given.program = "path" =>
          LET Longest(c, d) == Run(given.grid, c[1], c[2], d[1], d[2])
              directions == ((-1 .. 1) \X (-1 .. 1)) \ {<<0, 0>>}
          IN  getPathLen(given.grid) = Max({Longest(c, d) : c \in DOMAIN given.grid, d \in directions})
    /\ given.program = "duplicate" =>
          LET Twice(v) == countRange(given.arr, v, v) > 1
              found == duplicate(given.arr, 1)
          IN  /\ IF found = -1 THEN \A v \in 0 .. MaxValue : ~Twice(v) ELSE Twice(found)
              /\ (\A i \in DOMAIN given.arr : given.arr[i] > 0) =>
                    Twice(duplicate0302(given.arr, 1, Len(given.arr) - 1))
    /\ given.program = "find" =>
          LET columns == {c[2] : c \in DOMAIN given.grid}
          IN  findInMatrix(given.grid, 1, Max(columns), given.value)
                 <=> \E c \in DOMAIN given.grid : given.grid[c] = given.value
    /\ given.program = "tasks" =>
          LET times == {Makespan(given.m, given.arr, on) : on \in [DOMAIN given.arr -> 1 .. given.m]}
              time == processTask(given.m, given.arr)
          IN  time \in times /\ given.m * time <= (2 * given.m - 1) * Min(times)
=============================================================================
