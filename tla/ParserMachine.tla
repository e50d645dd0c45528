---------------------------- MODULE ParserMachine ----------------------------
(***************************************************************************)
(* The machine the parse functions of parser.Parser run on: the cursor on  *)
(* the token sequence (what TokenCursor promises), the stack of function   *)
(* calls in progress, the AST nodes built so far and the error list.  The  *)
(* modules that extend this one give the parse functions, one definition   *)
(* per function and one disjunct per stretch of code between two calls.    *)
(***************************************************************************)
EXTENDS Integers, Sequences

CONSTANTS Tokens,            \* the token types of the inputs
          Inputs             \* the token sequences, comments and EOF left out
ASSUME InputsAssumption == /\ Tokens \subseteq STRING
                           /\ Inputs \subseteq Seq(Tokens)

VARIABLES input,
          pos,               \* curToken is input[pos], peekToken the one after
          stack,             \* the calls in progress, the innermost one last
          ret,               \* what the last function to return returned
          heap,              \* the AST nodes; a pointer is an index of heap
          errors             \* the token each error message is about
vars == <<input, pos, stack, ret, heap, errors>>

NIL      == 0                \* a nil ast.Expression
NoValue  == -1               \* nothing has returned yet
Panicked == -2               \* a nil dereference has unwound every call

(* Past the end every token is EOF: the lexer repeats it.                  *)
Tok(i) == IF i \in DOMAIN input THEN input[i] ELSE "EOF"
Cur  == Tok(pos)
Peek == Tok(pos + 1)

(* Loops that only move the cursor: the last element of `x {sep x}` that   *)
(* begins at i, and the first place from i on that has one of these types  *)
(* or is the end of the input.                                             *)
First(places) == CHOOSE j \in places : \A m \in places : j <= m
ListEnd(i, sep) ==
    First({j \in i..(i + Len(input) + 1) : (j - i) % 2 = 0 /\ Tok(j + 1) # sep})
FirstIn(i, types) ==
    First({j \in i..(i + Len(input) + 1) : Tok(j) \in types \cup {"EOF"}})

(* A call in progress: where in which function it is, its precedence       *)
(* argument, the place of the token its node is for, the first token of    *)
(* the expression it belongs to, and the operands it has collected.        *)
Frame(pc, prec, at, lo, kids) ==
    [pc |-> pc, prec |-> prec, at |-> at, lo |-> lo, kids |-> kids]

Top == stack[Len(stack)]
At(pc) == stack # <<>> /\ Top.pc = pc
GotInFront == <<ret>> \o Top.kids      \* mutant: operands in the wrong order
Got == Append(Top.kids, ret)           \* the operands with the one just parsed
GotIfAny == IF ret = NIL THEN Top.kids ELSE Got

(* The call at the top is to go on at `pc`, with these operands.           *)
Resume(pc, kids) ==
    [stack EXCEPT ![Len(stack)] = Frame(pc, Top.prec, Top.at, Top.lo, kids)]

(* From k tokens on, call `callee`; go on at `pc` when it returns.         *)
CallFrame(k, pc, kids, callee) ==
    /\ stack' = Append(Resume(pc, kids), callee)
    /\ pos' = pos + k
    /\ UNCHANGED <<input, ret, heap, errors>>
Call(k, pc, kids, fn) ==
    CallFrame(k, pc, kids, Frame(fn, 0, pos + k, pos + k, <<>>))
(* if cond { ... = p.fn() }: when there is nothing to call, go on as if the *)
(* call had returned nil, which is what the field of the node then holds.  *)
LOWEST == 1
Skip(k, pc, kids) ==
    /\ stack' = Resume(pc, kids)
    /\ pos' = pos + k
    /\ ret' = NIL
    /\ UNCHANGED <<input, heap, errors>>
CallIf(cond, k, pc, kids, fn) ==
    IF cond THEN CallFrame(k, pc, kids, Frame(fn, LOWEST, pos + k, pos + k, <<>>))
            ELSE Skip(0, pc, kids)

CallInPlace(k, pc, kids, prec) ==      \* mutant: the cursor does not move on
    CallFrame(0, pc, kids, Frame("parseExpression", prec, pos, pos, <<>>))
CallExpression(k, pc, kids, prec) ==
    CallFrame(k, pc, kids, Frame("parseExpression", prec, pos + k, pos + k, <<>>))

(* Go on at `pc` of the same function.                                     *)
Continue(k, pc, kids) ==
    /\ stack' = Resume(pc, kids)
    /\ pos' = pos + k
    /\ UNCHANGED <<input, ret, heap, errors>>

(* Record an error about the token e ahead and go on all the same.         *)
Complain(e, k, pc, kids) ==
    /\ stack' = Resume(pc, kids)
    /\ pos' = pos + k
    /\ errors' = Append(errors, pos + e)
    /\ UNCHANGED <<input, ret, heap>>

SkipComplaining(e, k, pc, kids) ==      \* both: no call, and an error
    /\ stack' = Resume(pc, kids)
    /\ pos' = pos + k
    /\ ret' = NIL
    /\ errors' = Append(errors, pos + e)
    /\ UNCHANGED <<input, heap>>

(* An expectPeek whose answer nobody looks at.                             *)
Expect(t, k, pc, kids) ==
    IF Tok(pos + k + 1) = t THEN Continue(k + 1, pc, kids)
                            ELSE Complain(k + 1, k, pc, kids)

(* return fn(...): the rest of the call is fn's, at the token k ahead.     *)
TailCall(k, fn) ==
    /\ stack' = [stack EXCEPT ![Len(stack)] = Frame(fn, Top.prec, pos + k, Top.lo, Top.kids)]
    /\ pos' = pos + k
    /\ UNCHANGED <<input, ret, heap, errors>>

Pop == stack' = SubSeq(stack, 1, Len(stack) - 1)

Return(v) == Pop /\ ret' = v /\ UNCHANGED <<input, pos, heap, errors>>

(* String() of a node calls String() of its children: it panics when one  *)
(* of them is nil or panics itself.  (The children String() does check for *)
(* nil, such as an ELSE clause, are left out of kids when they are nil.)   *)
Whole(kids) == \A i \in DOMAIN kids : kids[i] # NIL /\ heap[kids[i]].whole

(* A node for the token at `at`.  `lo` and `hi` are the tokens its call    *)
(* went through and `paren` tells whether a pair of parentheses around it  *)
(* was dropped: the AST keeps neither.                                     *)
Node(kind, at, kids, hi) ==
    [kind |-> kind, at |-> at, kids |-> kids, lo |-> Top.lo, hi |-> hi,
     paren |-> FALSE, whole |-> Whole(kids)]

BuildTo(kind, at, kids, hi, k) ==
    /\ heap' = Append(heap, Node(kind, at, kids, hi))
    /\ ret' = Len(heap) + 1
    /\ pos' = pos + k
    /\ Pop
    /\ UNCHANGED input
Build(kind, at, kids, k) == BuildTo(kind, at, kids, pos + k, k)

(* Return a new node, k tokens on; the second form records an error about  *)
(* the token e ahead as well.                                              *)
ReturnNew(kind, at, kids, k) == Build(kind, at, kids, k) /\ UNCHANGED errors
ReturnFlawed(kind, at, kids, k, e) ==
    Build(kind, at, kids, k) /\ errors' = Append(errors, pos + e)

ReturnExpecting(t, kind, kids, k) ==
    IF Tok(pos + k + 1) = t THEN ReturnNew(kind, Top.at, kids, k + 1)
                            ELSE ReturnFlawed(kind, Top.at, kids, k, k + 1)

(* Return a new node with the cursor one token behind its last one.        *)
ReturnPassing(kind, at, kids, k) ==
    BuildTo(kind, at, kids, pos + k - 1, k) /\ UNCHANGED errors

(* Return nil without a word, k tokens on.                                 *)
ReturnNil(k) == Pop /\ ret' = NIL /\ pos' = pos + k /\ UNCHANGED <<input, heap, errors>>

FailSilently(e, k) == ReturnNil(k)     \* mutant: no error is recorded
FailBehind(e, k) ==                    \* mutant: the error is about a token passed
    /\ Pop /\ ret' = NIL /\ pos' = pos + k
    /\ errors' = Append(errors, pos - e - 1)
    /\ UNCHANGED <<input, heap>>

(* Record an error about the token e ahead and return nil, k tokens on.    *)
Fail(e, k) ==
    /\ errors' = Append(errors, pos + e)
    /\ pos' = pos + k
    /\ ret' = NIL
    /\ Pop
    /\ UNCHANGED <<input, heap>>

(* A row of expectPeek calls that give up at the first token that is not   *)
(* the one asked for; "any" stands for a token taken as it comes.          *)
Mismatches(k, words) == {j \in DOMAIN words : words[j] \notin {"any", Tok(pos + k + j)}}
GiveUp(k, words) == LET j == k + First(Mismatches(k, words)) IN Fail(j, j - 1)
Require(k, words, action) ==
    IF Mismatches(k, words) = {} THEN action ELSE GiveUp(k, words)

(* A method call on a nil pointer: the panic leaves Parse as well.         *)
Panic == stack' = <<>> /\ ret' = Panicked /\ UNCHANGED <<input, pos, heap, errors>>

InitMachine(fn, prec) ==
    /\ input \in Inputs
    /\ pos = 1
    /\ stack = <<Frame(fn, prec, 1, 1, <<>>)>>
    /\ ret = NoValue
    /\ heap = <<>>
    /\ errors = <<>>

Finished == stack = <<>>
-----------------------------------------------------------------------------
(* The types, with the resume points and node kinds of the functions.  A   *)
(* function that goes on with the result of a call finds one.              *)
Frames(labels) == [pc : labels, prec : Nat, at : Nat, lo : Nat, kids : Seq(Nat)]
Nodes(kinds)   == [kind : kinds, at : Nat, kids : Seq(Nat), lo : Nat, hi : Nat,
                   paren : BOOLEAN, whole : BOOLEAN]
MachineTypeOK(labels, kinds, awaiting) ==
    /\ input \in Seq(Tokens)
    /\ pos \in Nat
    /\ stack \in Seq(Frames(labels))
    /\ ret \in Nat \cup {NoValue, Panicked}
    /\ stack # <<>> /\ Top.pc \in awaiting => ret \in Nat
    /\ heap \in Seq(Nodes(kinds))
    /\ errors \in Seq(Nat)
=============================================================================
