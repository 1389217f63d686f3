-------------------------- MODULE ExpressionPrograms --------------------------
(***************************************************************************)
(* algorithm/stack/app, algorithm/tree and exam/haier/bracketMatch.c: what *)
(* the expression and tree programs print for what they read.  Characters  *)
(* are their codes, as in the code; a token is a number or a character.    *)
(***************************************************************************)
EXTENDS Integers, Sequences, SequencesExt, FiniteSetsExt

CONSTANTS
    Numbers,      \* the numbers in expressions
    OperatorCodes, \* numbers that are codes of operators
    MaxLeaves,    \* bound: numbers in one expression
    MaxBrackets,  \* bound: brackets in one line
    STACK_SIZE,   \* places on the stack of the bracket programs (16 in the code)
    MaxPowers,    \* bound: levels of a power
    MaxKeys       \* bound: values in a tree

ASSUME ExpressionAssumption == MaxLeaves \in Nat /\ STACK_SIZE \in Nat

VARIABLE input  \* the program that runs, and what it reads

expressionVars == <<input>>

PLUS == 43
MINUS == 45
TIMES == 42
OVER == 47
REMAINDER == 37
OPEN == 40
CLOSE == 41
StackOperators == {PLUS, MINUS, TIMES, OVER}  \* those of the programs on stacks
Operators == StackOperators \cup {REMAINDER}  \* those of expressionOperation

Number(n) == [number |-> TRUE, data |-> n]
Char(c) == [number |-> FALSE, data |-> c]

-----------------------------------------------------------------------------
(* Binary trees (bitree.c): NULL, or data and two subtrees.                  *)
NULL == <<>>
bitnode_alloc(data) == [data |-> data, left |-> NULL, right |-> NULL]
Node(op, l, r) == [data |-> op, left |-> l, right |-> r]
IsLeaf(t) == t.left = NULL /\ t.right = NULL

RECURSIVE bitree_init(_, _)
bitree_init(start, end) ==
    IF start > end THEN NULL
    ELSE Node(start, bitree_init(start * 2, end), bitree_init(start * 2 + 1, end))

RECURSIVE bitree_preorder(_), bitree_inorder(_), bitree_postorder(_), bitree_getlevel(_)
bitree_preorder(t) ==
    IF t = NULL THEN <<>> ELSE <<t.data>> \o bitree_preorder(t.left) \o bitree_preorder(t.right)
bitree_inorder(t) ==
    IF t = NULL THEN <<>> ELSE bitree_inorder(t.left) \o <<t.data>> \o bitree_inorder(t.right)
bitree_postorder(t) ==
    IF t = NULL THEN <<>> ELSE bitree_postorder(t.left) \o bitree_postorder(t.right) \o <<t.data>>
bitree_getlevel(t) ==
    IF t = NULL THEN 0 ELSE 1 + Max({bitree_getlevel(t.left), bitree_getlevel(t.right)})

(* findSort: a value that is in the tree already is not inserted again.      *)
RECURSIVE insert_node(_, _), find(_, _)
insert_nodeFaulty(t, data) ==
    IF t = NULL THEN bitnode_alloc(data)
    ELSE IF data < t.data THEN [t EXCEPT !.left = insert_node(t.left, data)]
    ELSE [t EXCEPT !.right = insert_node(t.right, data)]
insert_node(t, data) ==
    IF t = NULL THEN bitnode_alloc(data)
    ELSE IF data < t.data THEN [t EXCEPT !.left = insert_node(t.left, data)]
    ELSE IF data > t.data THEN [t EXCEPT !.right = insert_node(t.right, data)]
    ELSE t
find(t, data) ==
    IF t = NULL THEN FALSE
    ELSE data = t.data \/ find(IF data < t.data THEN t.left ELSE t.right, data)
SortTree(keys) == FoldLeft(insert_node, NULL, keys)

-----------------------------------------------------------------------------
(* expressionOperation: an operator takes its right operand off the stack    *)
(* first; the tree is evaluated, and printed with brackets around every      *)
(* operand.  printf_data takes a number that is the code of an operator for  *)
(* that operator.                                                            *)
Quotient(a, b) ==
    LET abs(x) == IF x < 0 THEN -x ELSE x
        q == abs(a) \div abs(b)
    IN  IF (a < 0) # (b < 0) THEN -q ELSE q
Apply(op, a, b) ==
    CASE op = PLUS -> a + b [] op = MINUS -> a - b [] op = TIMES -> a * b
      [] op = OVER -> Quotient(a, b) [] op = REMAINDER -> a - b * Quotient(a, b)

ReadTree(tokens) ==
    LET Read(stack, t) ==
            LET n == Len(stack)
            IN  IF t.number THEN Append(stack, bitnode_alloc(t.data))
                ELSE Append(SubSeq(stack, 1, n - 2), Node(t.data, stack[n - 1], stack[n]))
    IN  Last(FoldLeft(Read, <<>>, tokens))

RECURSIVE caculate(_), inorder_fn(_)
caculate(t) == IF IsLeaf(t) THEN t.data ELSE Apply(t.data, caculate(t.left), caculate(t.right))

printf_data(data) == IF data \in Operators THEN Char(data) ELSE Number(data)
inorder_fn(t) ==
    IF IsLeaf(t) THEN <<printf_data(t.data)>>
    ELSE <<Char(OPEN)>> \o inorder_fn(t.left) \o <<Char(CLOSE), printf_data(t.data), Char(OPEN)>>
         \o inorder_fn(t.right) \o <<Char(CLOSE)>>

(* postfixExpression: the same with the values on the stack, but without '%',*)
(* which it reports as unknown and skips; its operands stay where they are.  *)
postfixExpression(tokens) ==
    LET Read(stack, t) ==
            LET n == Len(stack)
            IN  IF t.number THEN Append(stack, t.data)
                ELSE IF t.data \notin StackOperators THEN stack
                ELSE Append(SubSeq(stack, 1, n - 2), Apply(t.data, stack[n - 1], stack[n]))
    IN  Last(FoldLeft(Read, <<>>, tokens))

-----------------------------------------------------------------------------
(* expressionConvert: a loop pops and prints until it has popped one of      *)
(* stops or the stack is empty.  ch is what was popped last: pop leaves it   *)
(* alone when the stack is empty, and nothing has set it at first.  MaxLeaves*)
(* numbers do not fill the 16 places of the stack.                           *)
PopUntil(s, stops) ==
    LET k == SelectLastInSeq(s.stack, LAMBDA c : c \in stops)
    IN  [s EXCEPT !.stack = SubSeq(s.stack, 1, k - 1),
                  !.ch = IF s.stack = <<>> THEN s.ch ELSE s.stack[Max({k, 1})],
                  !.out = @ \o [i \in 1 .. Len(s.stack) - k |-> Char(s.stack[Len(s.stack) + 1 - i])]]

Stops(op) == IF op \in {TIMES, OVER} THEN {OPEN, PLUS, MINUS} ELSE {OPEN}

Pushed(p, op) == [p EXCEPT !.stack = IF p.ch \in Stops(op) THEN @ \o <<p.ch, op>> ELSE Append(@, op)]
PushOperatorFaulty(s, op) == Pushed(PopUntil(s, Stops(op) \ {OPEN}), op)
PushOperator(s, op) == Pushed(PopUntil(s, Stops(op)), op)

Convert(s, t) ==
    IF s.error THEN s
    ELSE IF t.number THEN [s EXCEPT !.out = Append(@, t)]
    ELSE CASE t.data = OPEN -> [s EXCEPT !.stack = Append(@, OPEN)]
           [] t.data = CLOSE -> LET p == PopUntil(s, {OPEN}) IN [p EXCEPT !.error = p.ch # OPEN]
           [] t.data \in StackOperators -> PushOperator(s, t.data)
           [] OTHER -> s  \* '%' is unknown here too, and skipped

expressionConvert(tokens, ch) ==
    LET read == FoldLeft(Convert, [stack |-> <<>>, ch |-> ch, out |-> <<>>, error |-> FALSE], tokens)
        end == PopUntil(read, {OPEN})
    IN  IF read.error THEN read ELSE [end EXCEPT !.error = end.ch = OPEN]

-----------------------------------------------------------------------------
(* bracketMatch: a push on a full stack is lost, a pop from an empty one an  *)
(* error.  Only opening brackets are pushed: the stack is their number.      *)
PushBracket(depth) == IF depth = STACK_SIZE THEN depth ELSE depth + 1
bracketMatch(line) ==
    LET Read(s, c) ==
            IF s.error THEN s
            ELSE IF c = OPEN THEN [s EXCEPT !.depth = PushBracket(@)]
            ELSE [error |-> s.depth = 0, depth |-> s.depth - 1, count |-> s.count + 1]
        end == FoldLeft(Read, [error |-> FALSE, depth |-> 0, count |-> 0], line)
    IN  IF end.error \/ end.depth # 0 THEN -1 ELSE end.count

(* powerExpression: from the last exponent down, by repeated multiplication. *)
Times(x, y) == FoldSet(LAMBDA i, ret : ret * x, 1, 1 .. y)
powerExpression(arr) ==
    IF Len(arr) = 1 THEN arr[1]
    ELSE FoldRight(Times, Front(arr), Last(arr))

-----------------------------------------------------------------------------
(* The expressions, and how they are written.                                *)
TreesOf(numbers, most) ==
    LET trees[n \in 1 .. most] ==
            IF n = 1 THEN {bitnode_alloc(v) : v \in numbers}
            ELSE UNION {{Node(op, l, r) : op \in Operators, l \in trees[k], r \in trees[n - k]} : k \in 1 .. n - 1}
    IN  UNION {trees[n] : n \in 1 .. most}
Trees == TreesOf(Numbers, MaxLeaves) \cup TreesOf(Numbers \cup OperatorCodes, MaxLeaves - 1)

RECURSIVE Divides(_), Postfix(_), Infix(_)
Divides(t) ==
    IF IsLeaf(t) THEN TRUE
    ELSE Divides(t.left) /\ Divides(t.right) /\ (t.data \in {OVER, REMAINDER} => caculate(t.right) # 0)
Postfix(t) ==
    IF IsLeaf(t) THEN <<Number(t.data)>> ELSE Postfix(t.left) \o Postfix(t.right) \o <<Char(t.data)>>
Precedence(t) == IF IsLeaf(t) THEN 3 ELSE IF t.data \in {PLUS, MINUS} THEN 1 ELSE 2
Infix(t) ==  \* with no more brackets than it needs
    LET In(sub, least) ==
            IF Precedence(sub) >= least THEN Infix(sub) ELSE <<Char(OPEN)>> \o Infix(sub) \o <<Char(CLOSE)>>
    IN  IF IsLeaf(t) THEN <<Number(t.data)>>
        ELSE In(t.left, Precedence(t)) \o <<Char(t.data)>> \o In(t.right, Precedence(t) + 1)

ExpressionInit == input = [program |-> "none"]
ExpressionNext ==
    /\ input.program = "none"
    /\ \/ \E t \in Trees : Divides(t) /\ input' = [program |-> "postfix", tree |-> t]
       \/ \E t \in Trees, ch \in {0, OPEN, PLUS} : input' = [program |-> "convert", tree |-> t, ch |-> ch]
       \/ \E line \in BoundedSeq({OPEN, CLOSE}, MaxBrackets) : input' = [program |-> "brackets", line |-> line]
       \/ \E arr \in BoundedSeq(0 .. 2, MaxPowers) \ {<<>>} : input' = [program |-> "power", arr |-> arr]
       \/ \E keys \in BoundedSeq(1 .. MaxKeys, MaxKeys) : input' = [program |-> "sort", keys |-> keys]
       \/ \E n \in 1 .. 2 ^ MaxKeys : input' = [program |-> "tree", n |-> n]

ExpressionSpec == ExpressionInit /\ [][ExpressionNext]_expressionVars

-----------------------------------------------------------------------------
(* The programs agree on what an expression means, as far as they do.  A     *)
(* postfix expression makes the tree it was written from.  Where no number   *)
(* is the code of an operator, the tree is printed in postorder as it was    *)
(* read.  Without '%', its value is the one computed on the stack, and what  *)
(* is printed inorder, put behind another operand, converts back.            *)
(* An infix expression without '%' converts to its postfix form, if it does  *)
(* not begin with a bracket and if ch does not happen to hold a character    *)
(* that its first operator, or the end, tests.  Lines of brackets are judged *)
(* and counted rightly if they nest no deeper than the stack.                *)
(* Outside these conditions the programs differ from each other and from     *)
(* what their comments say: with '%' postfixExpression computes another      *)
(* value; an infix expression that begins with a bracket ends in an error,   *)
(* for the stale ch; brackets deeper than the stack are miscounted.          *)
RECURSIVE HasRemainder(_)
HasRemainder(t) ==
    ~IsLeaf(t) /\ (t.data = REMAINDER \/ HasRemainder(t.left) \/ HasRemainder(t.right))
PrintsRight(t) == \A i \in DOMAIN Postfix(t) : Postfix(t)[i].number => Postfix(t)[i].data \notin Operators
ChTested(infix) ==
    LET first == SelectInSeq(infix, LAMBDA t : ~t.number /\ t.data \in StackOperators)
    IN  IF first = 0 THEN {OPEN} ELSE Stops(infix[first].data)
Nesting(line) == Max({0} \cup {Quantify(1 .. i, LAMBDA j : line[j] = OPEN)
                               - Quantify(1 .. i, LAMBDA j : line[j] = CLOSE) : i \in DOMAIN line})
Balanced(line) ==
    LET Opened(i) == Quantify(1 .. i, LAMBDA j : line[j] = OPEN)
    IN  2 * Opened(Len(line)) = Len(line) /\ \A i \in DOMAIN line : 2 * Opened(i) >= i
RECURSIVE Power(_)
Power(arr) == IF Len(arr) = 1 THEN arr[1] ELSE Times(arr[1], Power(Tail(arr)))
NotationsAgree ==
    /\ input.program = "postfix" =>
          LET postfix == Postfix(input.tree)
              tree == ReadTree(postfix)
              printed == bitree_postorder(tree)
              behind == <<Number(1), Char(PLUS), Char(OPEN)>> \o inorder_fn(tree) \o <<Char(CLOSE)>>
              converted == expressionConvert(behind, 0)
          IN  /\ tree = input.tree
              /\ PrintsRight(tree) => [i \in DOMAIN printed |-> printf_data(printed[i])] = postfix
              /\ ~HasRemainder(tree) => postfixExpression(postfix) = caculate(tree)
              /\ PrintsRight(tree) /\ ~HasRemainder(tree) =>
                    ~converted.error /\ converted.out = <<Number(1)>> \o postfix \o <<Char(PLUS)>>
    /\ input.program = "convert" =>
          LET infix == Infix(input.tree)
              converted == expressionConvert(infix, input.ch)
          IN  ~HasRemainder(input.tree) /\ infix[1] # Char(OPEN) /\ input.ch \notin ChTested(infix) =>
                    ~converted.error /\ converted.out = Postfix(input.tree)
    /\ input.program = "brackets" /\ Nesting(input.line) <= STACK_SIZE =>
          bracketMatch(input.line) = IF Balanced(input.line) THEN Len(input.line) \div 2 ELSE -1
    /\ input.program = "power" => powerExpression(input.arr) = Power(input.arr)

(* A tree keeps every value once, in order, and finds what was inserted and  *)
(* nothing else, whatever the order; bitree_init makes a tree of 1 .. n with *)
(* no more levels than those values need.                                    *)
TreesKeepOrder ==
    /\ input.program = "sort" =>
          LET tree == SortTree(input.keys)
              sorted == bitree_inorder(tree)
          IN  /\ sorted = SetToSortSeq(ToSet(input.keys), <)
              /\ \A k \in 0 .. MaxKeys : find(tree, k) <=> k \in ToSet(input.keys)
    /\ input.program = "tree" =>
          LET tree == bitree_init(1, input.n)
          IN  /\ \A visited \in {bitree_preorder(tree), bitree_inorder(tree), bitree_postorder(tree)} :
                    Len(visited) = input.n /\ ToSet(visited) = 1 .. input.n
              /\ 2 ^ (bitree_getlevel(tree) - 1) <= input.n /\ input.n < 2 ^ bitree_getlevel(tree)
=============================================================================
