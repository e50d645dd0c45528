-------------------------- MODULE Expressions_proof --------------------------
(***************************************************************************)
(* Proofs about ParserMachine and Expressions: type correctness, and that  *)
(* nothing goes missing without an error.  First each helper of the        *)
(* machine keeps the inductive invariant whenever its arguments are what   *)
(* they should be; the resume points, the node kinds and the resume points *)
(* that go on with a result are parameters, so that the lemmas serve every *)
(* set of parse functions.  Then every parse function of Expressions keeps *)
(* it; the lemma about a function has one step for each stretch of its     *)
(* code.                                                                   *)
(***************************************************************************)
EXTENDS Expressions, TLAPS, WellFoundedInduction

(* parseAtTimeZoneExpression may return its left operand as it is: it must *)
(* have one.                                                               *)
NeedsLeft(pc) == pc = "parseAtTimeZoneExpression"
Fresh(pc, L, A) == pc \in L /\ pc \notin A /\ ~ NeedsLeft(pc)

(* Pointers to nodes that exist, as long as no error has been reported.    *)
Operands(kids) == /\ kids \in Seq(Nat)
                  /\ errors = <<>> => \A j \in DOMAIN kids : kids[j] \in DOMAIN heap

FramesOK == \A i \in DOMAIN stack : /\ Operands(stack[i].kids)
                                    /\ NeedsLeft(stack[i].pc) => stack[i].kids # <<>>
RetOK    == errors = <<>> => \/ ret = NoValue \/ ret \in DOMAIN heap
                             \/ ret = Panicked /\ SelectBroke
NoHole(node) == node.kind = "Select" \/ \A j \in DOMAIN node.kids : node.kids[j] # NIL
HeapOK   == errors = <<>> => /\ \A n \in DOMAIN heap : NoHole(heap[n])
                             /\ SelectBroke \/ \A n \in DOMAIN heap : heap[n].whole
MachineInv(L, K, A) == MachineTypeOK(L, K, A) /\ FramesOK /\ RetOK /\ HeapOK

LEMMA TopOK ==
    ASSUME NEW L, NEW K, NEW A, MachineInv(L, K, A), stack # <<>>
    PROVE  /\ Top \in Frames(L)
           /\ Len(stack) \in DOMAIN stack
           /\ Operands(Top.kids)
           /\ NeedsLeft(Top.pc) => Top.kids # <<>>
BY DEF MachineInv, MachineTypeOK, FramesOK, Top

LEMMA GotOK ==
    ASSUME NEW L, NEW K, NEW A, MachineInv(L, K, A), stack # <<>>, Top.pc \in A
    PROVE  /\ ret \in Nat
           /\ Operands(Got)
           /\ Operands(GotIfAny)
<1>1. Top.kids \in Seq(Nat) /\ ret \in Nat
  BY TopOK DEF MachineInv, MachineTypeOK, Operands
<1>2. Got \in Seq(Nat) /\ Len(Got) = Len(Top.kids) + 1
  BY <1>1 DEF Got
<1>3. ASSUME errors = <<>>, NEW j \in DOMAIN Got PROVE Got[j] \in DOMAIN heap
  <2>1. ret \in DOMAIN heap
    BY <1>1, <1>3 DEF MachineInv, RetOK, NoValue, Panicked
  <2>2. \A i \in DOMAIN Top.kids : Top.kids[i] \in DOMAIN heap
    BY TopOK, <1>3 DEF Operands
  <2> QED BY <1>1, <2>1, <2>2 DEF Got
<1>4. Operands(Got)
  BY <1>2, <1>3 DEF Operands
<1> QED BY <1>1, <1>4, TopOK DEF GotIfAny

LEMMA CallFrameOK ==
    ASSUME NEW L, NEW K, NEW A, MachineInv(L, K, A), stack # <<>>,
           NEW k \in Nat, NEW pc \in L, ~ NeedsLeft(pc),
           NEW kids, Operands(kids),
           NEW callee \in Frames(L), callee.pc \notin A, Operands(callee.kids),
           NeedsLeft(callee.pc) => callee.kids # <<>>,
           CallFrame(k, pc, kids, callee)
    PROVE  MachineInv(L, K, A)'
<1> DEFINE caller == Frame(pc, Top.prec, Top.at, Top.lo, kids)
           below  == Resume(pc, kids)
<1>1. caller \in Frames(L) /\ caller.pc = pc /\ caller.kids = kids
  <2>1. Top.prec \in Nat /\ Top.at \in Nat /\ Top.lo \in Nat
    BY TopOK DEF Frames
  <2>2. kids \in Seq(Nat)
    BY DEF Operands
  <2> QED BY <2>1, <2>2 DEF Frame, Frames
<1> HIDE DEF caller
<1>2. below \in Seq(Frames(L)) /\ Len(below) = Len(stack)
  <2>1. below = [stack EXCEPT ![Len(stack)] = caller]
    BY DEF Resume, caller
  <2> QED BY <1>1, <2>1, TopOK DEF MachineInv, MachineTypeOK
<1>3. stack' = Append(below, callee)
  BY DEF CallFrame
<1>5. \A i \in DOMAIN stack' : stack'[i] = callee \/ stack'[i] = caller \/ (i \in DOMAIN stack /\ stack'[i] = stack[i])
  <2>1. below = [stack EXCEPT ![Len(stack)] = caller]
    BY DEF Resume, caller
  <2> QED BY <1>2, <1>3, <2>1 DEF MachineInv, MachineTypeOK
<1>6. FramesOK'
  BY <1>1, <1>5 DEF FramesOK, MachineInv, CallFrame, Operands
<1>7. stack' # <<>> /\ Top' = callee
  BY <1>2, <1>3 DEF Top
<1>8. MachineTypeOK(L, K, A)'
  BY <1>2, <1>3, <1>7 DEF CallFrame, MachineInv, MachineTypeOK
<1>9. RetOK' /\ HeapOK'
  BY DEF RetOK, HeapOK, SelectBroke, MachineInv, CallFrame
<1> QED BY <1>6, <1>8, <1>9 DEF MachineInv

LEMMA CallOK ==
    ASSUME NEW L, NEW K, NEW A, MachineInv(L, K, A), stack # <<>>,
           NEW k \in Nat, NEW pc \in L, ~ NeedsLeft(pc),
           NEW kids, Operands(kids), NEW fn, Fresh(fn, L, A),
           Call(k, pc, kids, fn)
    PROVE  MachineInv(L, K, A)'
<1> DEFINE callee == Frame(fn, 0, pos + k, pos + k, <<>>)
<1>1. pos + k \in Nat /\ <<>> \in Seq(Nat) /\ Operands(<<>>)
  BY DEF MachineInv, MachineTypeOK, Operands
<1>2. callee \in Frames(L) /\ callee.pc = fn /\ callee.kids = <<>>
  BY <1>1 DEF Frame, Frames, Fresh
<1>3. CallFrame(k, pc, kids, callee)
  BY DEF Call
<1> HIDE DEF callee
<1>4. Operands(callee.kids)
  BY <1>1, <1>2
<1> QED BY <1>2, <1>3, <1>4, CallFrameOK DEF Fresh

LEMMA CallExpressionOK ==
    ASSUME NEW L, NEW K, NEW A, MachineInv(L, K, A), stack # <<>>,
           NEW k \in Nat, NEW pc \in L, ~ NeedsLeft(pc),
           NEW kids, Operands(kids), NEW prec \in Nat,
           Fresh("parseExpression", L, A),
           CallExpression(k, pc, kids, prec)
    PROVE  MachineInv(L, K, A)'
<1> DEFINE callee == Frame("parseExpression", prec, pos + k, pos + k, <<>>)
<1>1. pos + k \in Nat /\ <<>> \in Seq(Nat) /\ Operands(<<>>)
  BY DEF MachineInv, MachineTypeOK, Operands
<1>2. callee \in Frames(L) /\ callee.pc = "parseExpression" /\ callee.kids = <<>>
  BY <1>1 DEF Frame, Frames, Fresh
<1>3. CallFrame(k, pc, kids, callee)
  BY DEF CallExpression
<1> HIDE DEF callee
<1>4. Operands(callee.kids)
  BY <1>1, <1>2
<1> QED BY <1>2, <1>3, <1>4, CallFrameOK DEF Fresh

(* The frame on top is replaced by another one.                            *)
LEMMA ReplaceOK ==
    ASSUME NEW L, NEW K, NEW A, MachineInv(L, K, A), stack # <<>>,
           NEW frame \in Frames(L), Operands(frame.kids), frame.pc \notin A,
           NeedsLeft(frame.pc) => frame.kids # <<>>,
           stack' = [stack EXCEPT ![Len(stack)] = frame],
           pos' \in Nat, UNCHANGED <<input, ret, heap, errors>>
    PROVE  MachineInv(L, K, A)'
<1>1. Len(stack) \in DOMAIN stack
  BY TopOK
<1>2. /\ stack' \in Seq(Frames(L)) /\ Len(stack') = Len(stack)
      /\ stack' # <<>>
      /\ stack'[Len(stack)] = frame
      /\ \A i \in DOMAIN stack' : stack'[i] = frame \/ (i \in DOMAIN stack /\ stack'[i] = stack[i])
  BY <1>1 DEF MachineInv, MachineTypeOK
<1>3. Top' = frame
  BY <1>2 DEF Top
<1>4. MachineTypeOK(L, K, A)'
  BY <1>2, <1>3 DEF MachineInv, MachineTypeOK
<1>5. FramesOK'
  BY <1>2 DEF FramesOK, MachineInv, Operands
<1>6. RetOK' /\ HeapOK'
  BY DEF RetOK, HeapOK, SelectBroke, MachineInv
<1> QED BY <1>4, <1>5, <1>6 DEF MachineInv

LEMMA ContinueOK ==
    ASSUME NEW L, NEW K, NEW A, MachineInv(L, K, A), stack # <<>>,
           NEW k \in Nat, NEW pc, Fresh(pc, L, A), NEW kids, Operands(kids),
           Continue(k, pc, kids)
    PROVE  MachineInv(L, K, A)'
<1> DEFINE frame == Frame(pc, Top.prec, Top.at, Top.lo, kids)
<1>1. frame \in Frames(L) /\ frame.pc = pc /\ frame.kids = kids
  <2>1. Top.prec \in Nat /\ Top.at \in Nat /\ Top.lo \in Nat
    BY TopOK DEF Frames
  <2>2. kids \in Seq(Nat) /\ pc \in L
    BY DEF Operands, Fresh
  <2> QED BY <2>1, <2>2 DEF Frame, Frames
<1>2. /\ stack' = [stack EXCEPT ![Len(stack)] = frame]
      /\ pos' \in Nat
      /\ UNCHANGED <<input, ret, heap, errors>>
  BY DEF Continue, Resume, MachineInv, MachineTypeOK
<1> HIDE DEF frame
<1> QED BY <1>1, <1>2, ReplaceOK DEF Fresh

LEMMA TailCallOK ==
    ASSUME NEW L, NEW K, NEW A, MachineInv(L, K, A), stack # <<>>,
           NEW k \in Nat, NEW fn, Fresh(fn, L, A), TailCall(k, fn)
    PROVE  MachineInv(L, K, A)'
<1> DEFINE frame == Frame(fn, Top.prec, pos + k, Top.lo, Top.kids)
<1>1. frame \in Frames(L) /\ frame.pc = fn /\ frame.kids = Top.kids
  <2>1. pos + k \in Nat
    BY DEF MachineInv, MachineTypeOK
  <2>2. Top.prec \in Nat /\ Top.lo \in Nat /\ Top.kids \in Seq(Nat)
    BY TopOK DEF Frames
  <2> QED BY <2>1, <2>2 DEF Fresh, Frame, Frames
<1>2. /\ stack' = [stack EXCEPT ![Len(stack)] = frame]
      /\ pos' \in Nat
      /\ UNCHANGED <<input, ret, heap, errors>>
  BY DEF TailCall, MachineInv, MachineTypeOK
<1> HIDE DEF frame
<1> QED BY <1>1, <1>2, TopOK, ReplaceOK DEF Fresh

(* A call returns: what is left of the stack is as it was.                 *)
LEMMA PopOK ==
    ASSUME NEW L, NEW K, NEW A, MachineInv(L, K, A), stack # <<>>, Pop
    PROVE  /\ stack' \in Seq(Frames(L))
           /\ \A i \in DOMAIN stack' : i \in DOMAIN stack /\ stack'[i] = stack[i]
BY DEF MachineInv, MachineTypeOK, Pop

LEMMA ReturnOK ==
    ASSUME NEW L, NEW K, NEW A, MachineInv(L, K, A), stack # <<>>,
           NEW v \in Nat, errors = <<>> => v \in DOMAIN heap,
           Return(v)
    PROVE  MachineInv(L, K, A)'
<1>1. MachineTypeOK(L, K, A)'
  BY PopOK DEF Return, MachineInv, MachineTypeOK
<1>2. FramesOK' /\ RetOK' /\ HeapOK'
  BY PopOK DEF Return, MachineInv, FramesOK, RetOK, HeapOK, SelectBroke, Operands
<1> QED BY <1>1, <1>2 DEF MachineInv

LEMMA FailOK ==
    ASSUME NEW L, NEW K, NEW A, MachineInv(L, K, A), stack # <<>>,
           NEW e \in Nat, NEW k \in Nat, Fail(e, k)
    PROVE  MachineInv(L, K, A)'
<1>1. pos + e \in Nat /\ pos' \in Nat /\ errors' \in Seq(Nat) /\ errors' # <<>>
  BY DEF Fail, MachineInv, MachineTypeOK
<1>2. MachineTypeOK(L, K, A)'
  BY <1>1, PopOK DEF Fail, MachineInv, MachineTypeOK, NIL
<1>3. FramesOK'
  BY <1>1, PopOK DEF Fail, MachineInv, FramesOK, Operands
<1>4. RetOK' /\ HeapOK'
  BY <1>1 DEF Fail, RetOK, HeapOK, NIL
<1> QED BY <1>2, <1>3, <1>4 DEF MachineInv

LEMMA PanicOK ==
    ASSUME NEW L, NEW K, NEW A, MachineInv(L, K, A), errors # <<>> \/ SelectBroke, Panic
    PROVE  MachineInv(L, K, A)'
<1>1. MachineTypeOK(L, K, A)'
  BY DEF Panic, MachineInv, MachineTypeOK
<1>2. FramesOK' /\ RetOK' /\ HeapOK'
  BY DEF Panic, MachineInv, FramesOK, RetOK, HeapOK, SelectBroke
<1> QED BY <1>1, <1>2 DEF MachineInv

(* While no error is reported, a node made of operands is whole, or a      *)
(* SELECT is broken.                                                       *)
LEMMA WholeOK ==
    ASSUME NEW L, NEW K, NEW A, MachineInv(L, K, A), errors = <<>>, NEW kids, Operands(kids)
    PROVE  /\ Whole(kids) \/ SelectBroke
           /\ \A j \in DOMAIN kids : kids[j] # NIL
<1>1. \A j \in DOMAIN kids : kids[j] \in DOMAIN heap
  BY DEF Operands
<1>2. /\ heap \in Seq(Nodes(K)) /\ \A n \in DOMAIN heap : n # NIL
      /\ SelectBroke \/ \A n \in DOMAIN heap : heap[n].whole
  BY DEF MachineInv, HeapOK, MachineTypeOK, NIL
<1> QED BY <1>1, <1>2 DEF Whole

LEMMA NodeOK ==
    ASSUME NEW L, NEW K, NEW A, MachineInv(L, K, A), stack # <<>>,
           NEW kind \in K, NEW at \in Nat,
           NEW kids, Operands(kids), NEW hi \in Nat
    PROVE  /\ Node(kind, at, kids, hi) \in Nodes(K)
           /\ errors = <<>> => /\ Node(kind, at, kids, hi).whole \/ SelectBroke
                               /\ NoHole(Node(kind, at, kids, hi))
<1>1. Whole(kids) \in BOOLEAN
  BY DEF Whole, MachineInv, MachineTypeOK, Nodes, Operands
<1>2. Top.lo \in Nat /\ kids \in Seq(Nat)
  BY TopOK DEF Frames, Operands
<1>3. Node(kind, at, kids, hi) \in Nodes(K)
  BY <1>1, <1>2 DEF Node, Nodes
<1>4. /\ Node(kind, at, kids, hi).whole = Whole(kids)
      /\ Node(kind, at, kids, hi).kids = kids
  BY DEF Node
<1> QED BY <1>3, <1>4, WholeOK DEF NoHole

(* One more node on the heap: a SELECT that was broken still is.           *)
LEMMA HeapGrows ==
    ASSUME NEW K, heap \in Seq(Nodes(K)), NEW node \in Nodes(K), heap' = Append(heap, node)
    PROVE  /\ heap' \in Seq(Nodes(K))
           /\ DOMAIN heap \subseteq DOMAIN heap'
           /\ Len(heap) + 1 \in DOMAIN heap'
           /\ heap'[Len(heap) + 1] = node
           /\ \A n \in DOMAIN heap' : heap'[n] = node \/ (n \in DOMAIN heap /\ heap'[n] = heap[n])
           /\ SelectBroke => SelectBroke'
<1>1. /\ heap' \in Seq(Nodes(K))
      /\ DOMAIN heap \subseteq DOMAIN heap'
      /\ Len(heap) + 1 \in DOMAIN heap'
      /\ heap'[Len(heap) + 1] = node
      /\ \A n \in DOMAIN heap : heap'[n] = heap[n]
      /\ \A n \in DOMAIN heap' : heap'[n] = node \/ (n \in DOMAIN heap /\ heap'[n] = heap[n])
  OBVIOUS
<1>2. SelectBroke => SelectBroke'
  BY <1>1 DEF SelectBroke
<1> QED BY <1>1, <1>2

(* A call returns with one more node on the heap.                          *)
LEMMA BuildOK ==
    ASSUME NEW L, NEW K, NEW A, MachineInv(L, K, A), stack # <<>>,
           NEW kind \in K, NEW at \in Nat, NEW kids, Operands(kids),
           NEW hi \in Nat, NEW k \in Nat,
           BuildTo(kind, at, kids, hi, k),
           errors' = errors \/ \E e \in Nat : errors' = Append(errors, pos + e)
    PROVE  MachineInv(L, K, A)'
<1> DEFINE node == Node(kind, at, kids, hi)
<1>1. pos \in Nat /\ pos + k \in Nat
  BY DEF MachineInv, MachineTypeOK
<1>2. node \in Nodes(K) /\ (errors = <<>> => (node.whole \/ SelectBroke) /\ NoHole(node))
  BY <1>1, NodeOK
<1>3. heap' = Append(heap, node)
  BY DEF BuildTo
<1> HIDE DEF node
<1>4. heap \in Seq(Nodes(K))
  BY DEF MachineInv, MachineTypeOK
<1>5. /\ heap' \in Seq(Nodes(K))
      /\ DOMAIN heap \subseteq DOMAIN heap'
      /\ Len(heap) + 1 \in DOMAIN heap'
      /\ \A n \in DOMAIN heap' : heap'[n] = node \/ (n \in DOMAIN heap /\ heap'[n] = heap[n])
      /\ SelectBroke => SelectBroke'
  BY <1>2, <1>3, <1>4, HeapGrows
<1>6. ret' = Len(heap) + 1 /\ ret' \in Nat
  BY <1>4 DEF BuildTo
<1>7. errors' \in Seq(Nat) /\ (errors' = <<>> => errors = <<>>)
  <2>1. errors \in Seq(Nat)
    BY DEF MachineInv, MachineTypeOK
  <2>2. CASE errors' = errors
    BY <2>1, <2>2
  <2>3. ASSUME NEW e \in Nat, errors' = Append(errors, pos + e)
        PROVE  errors' \in Seq(Nat) /\ errors' # <<>>
    <3>1. pos + e \in Nat
      BY <1>1
    <3> QED BY <2>1, <2>3, <3>1
  <2> QED BY <2>2, <2>3
<1>8. Pop /\ pos' \in Nat /\ input' = input
  BY <1>1 DEF BuildTo
<1>9. MachineTypeOK(L, K, A)'
  BY <1>5, <1>6, <1>7, <1>8, PopOK DEF MachineInv, MachineTypeOK
<1>10. FramesOK'
  BY <1>5, <1>7, <1>8, PopOK DEF FramesOK, MachineInv, Operands
<1>11. RetOK' /\ HeapOK'
  BY <1>2, <1>5, <1>6, <1>7 DEF RetOK, HeapOK, MachineInv
<1> QED BY <1>9, <1>10, <1>11 DEF MachineInv

LEMMA ReturnNewOK ==
    ASSUME NEW L, NEW K, NEW A, MachineInv(L, K, A), stack # <<>>,
           NEW kind \in K, NEW at \in Nat, NEW kids, Operands(kids), NEW k \in Nat,
           ReturnNew(kind, at, kids, k)
    PROVE  MachineInv(L, K, A)'
<1>1. pos + k \in Nat
  BY DEF MachineInv, MachineTypeOK
<1> QED BY <1>1, BuildOK DEF ReturnNew, Build

LEMMA ReturnPassingOK ==
    ASSUME NEW L, NEW K, NEW A, MachineInv(L, K, A), stack # <<>>,
           NEW kind \in K, NEW at \in Nat, NEW kids, Operands(kids), NEW k \in Nat \ {0},
           ReturnPassing(kind, at, kids, k)
    PROVE  MachineInv(L, K, A)'
<1>1. pos + k - 1 \in Nat /\ k \in Nat
  BY DEF MachineInv, MachineTypeOK
<1> QED BY <1>1, BuildOK DEF ReturnPassing

LEMMA ReturnFlawedOK ==
    ASSUME NEW L, NEW K, NEW A, MachineInv(L, K, A), stack # <<>>,
           NEW kind \in K, NEW at \in Nat, NEW kids, Operands(kids),
           NEW k \in Nat, NEW e \in Nat,
           ReturnFlawed(kind, at, kids, k, e)
    PROVE  MachineInv(L, K, A)'
<1>1. pos + k \in Nat
  BY DEF MachineInv, MachineTypeOK
<1> QED BY <1>1, BuildOK DEF ReturnFlawed, Build

LEMMA StutterOK ==
    ASSUME NEW L, NEW K, NEW A, MachineInv(L, K, A), UNCHANGED vars
    PROVE  MachineInv(L, K, A)'
BY DEF vars, MachineInv, MachineTypeOK, FramesOK, RetOK, HeapOK, SelectBroke, Operands, Top
-----------------------------------------------------------------------------
(* The least of some places, and the two loops that move the cursor.       *)
LEMMA FirstOK ==
    ASSUME NEW places \in SUBSET Nat, places # {}
    PROVE  First(places) \in places
<1> DEFINE less == {pair \in Nat \X Nat : pair[1] < pair[2]}
<1>1. IsWellFoundedOn(less, Nat)
  BY NatLessThanWellFounded, Zenon DEF OpToRel
<1> HIDE DEF less
<1>2. \E j \in places : \A m \in places : <<m, j>> \notin less
  BY <1>1, WFMin
<1>3. ASSUME NEW m \in Nat, NEW j \in Nat, <<m, j>> \notin less PROVE j <= m
  <2>1. <<m, j>> \in Nat \X Nat /\ <<m, j>>[1] = m /\ <<m, j>>[2] = j
    OBVIOUS
  <2>2. ~ (m < j)
    BY <1>3, <2>1 DEF less
  <2> QED BY <2>2
<1>4. \E j \in places : \A m \in places : j <= m
  BY <1>2, <1>3
<1> QED BY <1>4 DEF First

LEMMA ListEndOK ==
    ASSUME input \in Seq(Tokens), NEW i \in Nat, NEW sep, sep # "EOF"
    PROVE  ListEnd(i, sep) \in Nat /\ i <= ListEnd(i, sep)
<1> DEFINE n      == Len(input)
           places == {j \in i..(i + n + 1) : (j - i) % 2 = 0 /\ Tok(j + 1) # sep}
<1>1. n \in Nat /\ \A j \in Nat : j > n => Tok(j) = "EOF"
  BY DEF Tok
<1>2. ListEnd(i, sep) = First(places)
  BY DEF ListEnd
<1> HIDE DEF n
<1>3. i + n - i = n /\ i + n + 1 - i = n + 1 /\ (n % 2 = 0 \/ (n + 1) % 2 = 0)
  BY <1>1
<1>4. i + n \in places \/ i + n + 1 \in places
  <2>1. Tok(i + n + 1) # sep /\ Tok(i + n + 1 + 1) # sep
    BY <1>1
  <2> QED BY <1>1, <1>3, <2>1
<1>5. places \in SUBSET Nat /\ \A j \in places : i <= j
  BY <1>1
<1> HIDE DEF places
<1> QED BY <1>2, <1>4, <1>5, FirstOK

LEMMA FirstInOK ==
    ASSUME input \in Seq(Tokens), NEW i \in Nat, NEW types
    PROVE  FirstIn(i, types) \in Nat /\ i <= FirstIn(i, types)
<1> DEFINE places == {j \in i..(i + Len(input) + 1) : Tok(j) \in types \cup {"EOF"}}
<1>1. i + Len(input) + 1 \in places
  BY DEF Tok
<1>2. places \in SUBSET Nat /\ \A j \in places : i <= j
  OBVIOUS
<1> HIDE DEF places
<1>3. First(places) \in places
  BY <1>1, <1>2, FirstOK
<1> QED BY <1>2, <1>3 DEF FirstIn, places

LEMMA ReturnExpectingOK ==
    ASSUME NEW L, NEW K, NEW A, MachineInv(L, K, A), stack # <<>>,
           NEW t, NEW kind \in K, NEW kids, Operands(kids), NEW k \in Nat,
           ReturnExpecting(t, kind, kids, k)
    PROVE  MachineInv(L, K, A)'
<1>1. Top.at \in Nat
  BY TopOK DEF Frames
<1> QED BY <1>1, ReturnNewOK, ReturnFlawedOK DEF ReturnExpecting

(* How far the list goes on from the cursor.                               *)
LEMMA ListFromCursor ==
    ASSUME NEW L, NEW K, NEW A, MachineInv(L, K, A), NEW k \in Nat, NEW sep, sep # "EOF"
    PROVE  ListEnd(pos + k, sep) \in Nat /\ pos + k <= ListEnd(pos + k, sep)
<1>1. pos + k \in Nat /\ input \in Seq(Tokens)
  BY DEF MachineInv, MachineTypeOK
<1> QED BY <1>1, ListEndOK

(* Where a row of expectPeek calls gives up.                               *)
LEMMA GiveUpOK ==
    ASSUME NEW L, NEW K, NEW A, MachineInv(L, K, A), stack # <<>>,
           NEW k \in Nat, NEW words, DOMAIN words \subseteq Nat \ {0},
           Mismatches(k, words) # {},
           GiveUp(k, words)
    PROVE  MachineInv(L, K, A)'
<1> DEFINE j == k + First(Mismatches(k, words))
<1>1. Mismatches(k, words) \in SUBSET Nat /\ 0 \notin Mismatches(k, words)
  BY DEF Mismatches
<1>2. j \in Nat /\ j - 1 \in Nat
  BY <1>1, FirstOK
<1>3. Fail(j, j - 1)
  BY DEF GiveUp
<1> HIDE DEF j
<1> QED BY <1>2, <1>3, FailOK
-----------------------------------------------------------------------------
(* Resume points, node kinds and awaiting points of a parser that has the  *)
(* functions of Expressions among its own.                                 *)
Scope(L, K, A) == Labels \subseteq L /\ Kinds \subseteq K /\ A \cap Labels = AwaitsResult

LEMMA KindsKnown ==
    ASSUME NEW L, NEW K, NEW A, Scope(L, K, A), NEW kind \in Kinds
    PROVE  kind \in K
BY DEF Scope

LEMMA AwaitsKnown ==
    ASSUME NEW L, NEW K, NEW A, Scope(L, K, A), NEW pc \in AwaitsResult
    PROVE  pc \in L /\ pc \in A /\ ~ NeedsLeft(pc)
BY DEF Scope, Labels, AwaitsResult, NeedsLeft

(* The points that do not go on with a result.                             *)
Starts == (Labels \ AwaitsResult) \ {"parseAtTimeZoneExpression"}
LEMMA StartsFresh ==
    ASSUME NEW L, NEW K, NEW A, Scope(L, K, A), NEW pc \in Starts
    PROVE  Fresh(pc, L, A)
BY DEF Scope, Starts, Fresh, NeedsLeft

LEMMA PrecedenceType == \A t : Precedence(t) \in Nat
BY DEF Precedence, LOWEST, OR_PREC, AND_PREC, COMPARE, BETWEEN_PREC, BITOR, BITXOR,
       BITAND, SHIFT, SUM, PRODUCT, CALL, INDEX

LEMMA PrefixFnType == \A t : PrefixFn(t) \in Starts \cup {"nil"}
BY DEF PrefixFn, Starts, Labels, AwaitsResult

LEMMA InfixFnType ==
    \A t : InfixFn(t) \in (Labels \ AwaitsResult) \cup {"nil"}
BY DEF InfixFn, Labels, AwaitsResult

LEMMA Here ==
    ASSUME NEW L, NEW K, NEW A, MachineInv(L, K, A), NEW pc, At(pc)
    PROVE  /\ stack # <<>> /\ Top.pc = pc
           /\ Top.at \in Nat /\ Top.prec \in Nat /\ Top.lo \in Nat
           /\ Operands(Top.kids) /\ Operands(<<>>)
           /\ pos \in Nat
<1>1. stack # <<>> /\ Top.pc = pc
  BY DEF At
<1>2. Top.at \in Nat /\ Top.prec \in Nat /\ Top.lo \in Nat
  BY <1>1, TopOK DEF Frames
<1>3. Operands(Top.kids)
  BY <1>1, TopOK
<1>4. Operands(<<>>)
  BY DEF Operands
<1>5. pos \in Nat
  BY DEF MachineInv, MachineTypeOK
<1> QED BY <1>1, <1>2, <1>3, <1>4, <1>5
(* The points and kinds one by one, so that a proof about a function need  *)
(* not look into the whole of the three sets.                              *)
Awaits(pc, L, A) == pc \in L /\ pc \in A /\ ~ NeedsLeft(pc)

LEMMA FreshPoints ==
    ASSUME NEW L, NEW K, NEW A, Scope(L, K, A)
    PROVE  /\ Fresh("parseAllExpression", L, A) /\ Fresh("parseBetweenExpression", L, A)
           /\ Fresh("parseCallExpression", L, A) /\ Fresh("parseCaseExpression", L, A)
           /\ Fresh("parseCollateExpression", L, A)
           /\ Fresh("parseDistinctFromExpression", L, A)
           /\ Fresh("parseDotExpression", L, A) /\ Fresh("parseExistsExpression", L, A)
           /\ Fresh("parseExpression", L, A) /\ Fresh("parseExpressionList", L, A)
           /\ Fresh("parseFrameBound", L, A) /\ Fresh("parseFunctionLiteral", L, A)
           /\ Fresh("parseGroupedExpression", L, A) /\ Fresh("parseInExpression", L, A)
           /\ Fresh("parseInfixExpression", L, A) /\ Fresh("parseIsNullExpression", L, A)
           /\ Fresh("parseLikeExpression", L, A) /\ Fresh("parseNotInfixExpression", L, A)
           /\ Fresh("parseOrderByItems", L, A) /\ Fresh("parseOverClause", L, A)
           /\ Fresh("parsePrefixExpression", L, A) /\ Fresh("parseScopeExpression", L, A)
           /\ Fresh("parseSelectStatement", L, A) /\ Fresh("parseSubqueryExpression", L, A)
           /\ Fresh("parseWindowFrame", L, A) /\ Fresh("parseCallExpression.Over", L, A)
           /\ Fresh("parseCaseExpression.End", L, A)
           /\ Fresh("parseCaseExpression.When", L, A)
           /\ Fresh("parseOverClause.Close", L, A) /\ Fresh("parseOverClause.Frame", L, A)
           /\ Fresh("parseOverClause.Order", L, A) /\ Fresh("parseDataType", L, A)
           /\ Fresh("parseCastExpression", L, A) /\ Fresh("parseConvertExpression", L, A)
           /\ Fresh("parseParseExpression", L, A) /\ Fresh("parseTrimExpression", L, A)
           /\ Fresh("parseCursorExpression", L, A) /\ Fresh("parseNextValueFor", L, A)
           /\ Fresh("parseNextValueForCompound", L, A)
           /\ Fresh("parseContainsExpression", L, A)
           /\ Fresh("parseFreetextExpression", L, A)
           /\ Fresh("parseContainsTableExpression", L, A)
           /\ Fresh("parseFreetextTableExpression", L, A)
BY StartsFresh DEF Starts, Labels, AwaitsResult

LEMMA AwaitPoints ==
    ASSUME NEW L, NEW K, NEW A, Scope(L, K, A)
    PROVE  /\ Awaits("parseOrderByItems.Item", L, A)
           /\ Awaits("parseFrameBound.Offset", L, A)
           /\ Awaits("parseWindowFrame.Start", L, A) /\ Awaits("parseWindowFrame.End", L, A)
           /\ Awaits("parseOverClause.Partition", L, A)
           /\ Awaits("parseOverClause.Ordered", L, A)
           /\ Awaits("parseOverClause.Framed", L, A) /\ Awaits("parseExpression.Left", L, A)
           /\ Awaits("parsePrefixExpression.Right", L, A)
           /\ Awaits("parseInfixExpression.Right", L, A)
           /\ Awaits("parseGroupedExpression.Subquery", L, A)
           /\ Awaits("parseGroupedExpression.Exp", L, A)
           /\ Awaits("parseDotExpression.Arguments", L, A)
           /\ Awaits("parseScopeExpression.Arguments", L, A)
           /\ Awaits("parseCallExpression.Arguments", L, A)
           /\ Awaits("parseCallExpression.WithinGroup", L, A)
           /\ Awaits("parseCallExpression.Clause", L, A)
           /\ Awaits("parseExpressionList.Key", L, A)
           /\ Awaits("parseExpressionList.Value", L, A)
           /\ Awaits("parseCaseExpression.Operand", L, A)
           /\ Awaits("parseCaseExpression.Condition", L, A)
           /\ Awaits("parseCaseExpression.Result", L, A)
           /\ Awaits("parseCaseExpression.Else", L, A)
           /\ Awaits("parseExistsExpression.Subquery", L, A)
           /\ Awaits("parseAllExpression.Subquery", L, A)
           /\ Awaits("parseSubqueryExpression.Select", L, A)
           /\ Awaits("parseLikeExpression.Pattern", L, A)
           /\ Awaits("parseLikeExpression.Escape", L, A)
           /\ Awaits("parseAtTimeZoneExpression.TimeZone", L, A)
           /\ Awaits("parseBetweenExpression.Low", L, A)
           /\ Awaits("parseBetweenExpression.High", L, A)
           /\ Awaits("parseInExpression.Value", L, A)
           /\ Awaits("parseInExpression.Subquery", L, A)
           /\ Awaits("parseDistinctFromExpression.Right", L, A)
           /\ Awaits("parseCastExpression.Expression", L, A)
           /\ Awaits("parseCastExpression.TargetType", L, A)
           /\ Awaits("parseConvertExpression.TargetType", L, A)
           /\ Awaits("parseConvertExpression.Expression", L, A)
           /\ Awaits("parseConvertExpression.Style", L, A)
           /\ Awaits("parseParseExpression.Expression", L, A)
           /\ Awaits("parseParseExpression.TargetType", L, A)
           /\ Awaits("parseParseExpression.Culture", L, A)
           /\ Awaits("parseTrimExpression.First", L, A)
           /\ Awaits("parseTrimExpression.Expression", L, A)
           /\ Awaits("parseCursorExpression.ForSelect", L, A)
           /\ Awaits("parseNextValueForCompound.Over", L, A)
           /\ Awaits("parseContainsExpression.SearchTerm", L, A)
           /\ Awaits("parseFreetextExpression.SearchTerm", L, A)
           /\ Awaits("parseContainsTableExpression.SearchTerm", L, A)
           /\ Awaits("parseFreetextTableExpression.SearchTerm", L, A)
BY AwaitsKnown DEF Awaits, AwaitsResult

LEMMA NodeKinds ==
    ASSUME NEW L, NEW K, NEW A, Scope(L, K, A)
    PROVE  /\ "AtTimeZone" \in K /\ "Between" \in K /\ "Case" \in K /\ "Collate" \in K
           /\ "Exists" \in K /\ "FrameBound" \in K /\ "FunctionCall" \in K
           /\ "Identifier" \in K /\ "In" \in K /\ "Infix" \in K /\ "IsDistinctFrom" \in K
           /\ "IsNull" \in K /\ "Like" \in K /\ "List" \in K /\ "Literal" \in K
           /\ "MethodCall" \in K /\ "OrderBy" \in K /\ "Over" \in K /\ "Prefix" \in K
           /\ "QualifiedIdentifier" \in K /\ "Select" \in K /\ "StaticMethodCall" \in K
           /\ "Subquery" \in K /\ "Tuple" \in K /\ "Variable" \in K /\ "WindowFrame" \in K
           /\ "DataType" \in K /\ "Conversion" \in K /\ "Trim" \in K
           /\ "CursorExpression" \in K /\ "NextValueFor" \in K /\ "FullText" \in K
BY KindsKnown DEF Kinds
-----------------------------------------------------------------------------
LEMMA parseOrderByItemsOK ==
    ASSUME NEW L, NEW K, NEW A, Scope(L, K, A), MachineInv(L, K, A), parseOrderByItems
    PROVE  MachineInv(L, K, A)'
<1>1. CASE At("parseOrderByItems")
  BY <1>1, Here, AwaitPoints, FreshPoints, CallExpressionOK
     DEF parseOrderByItems, At, LOWEST, Awaits
<1>2. CASE At("parseOrderByItems.Item")
  BY <1>2, Here, AwaitPoints, FreshPoints, NodeKinds, GotOK, CallExpressionOK, ReturnNewOK
     DEF parseOrderByItems, At, LOWEST, Awaits
<1> QED BY <1>1, <1>2 DEF parseOrderByItems

LEMMA parseFrameBoundOK ==
    ASSUME NEW L, NEW K, NEW A, Scope(L, K, A), MachineInv(L, K, A), parseFrameBound
    PROVE  MachineInv(L, K, A)'
<1>1. CASE At("parseFrameBound")
  BY <1>1, Here, AwaitPoints, FreshPoints, NodeKinds, CallExpressionOK, ReturnNewOK
     DEF parseFrameBound, At, LOWEST, Awaits
<1>2. CASE At("parseFrameBound.Offset")
  BY <1>2, Here, NodeKinds, AwaitPoints, GotOK, ReturnNewOK
     DEF parseFrameBound, At, Awaits
<1> QED BY <1>1, <1>2 DEF parseFrameBound

LEMMA parseWindowFrameOK ==
    ASSUME NEW L, NEW K, NEW A, Scope(L, K, A), MachineInv(L, K, A), parseWindowFrame
    PROVE  MachineInv(L, K, A)'
<1>1. CASE At("parseWindowFrame")
  BY <1>1, Here, AwaitPoints, FreshPoints, CallOK DEF parseWindowFrame, At, Awaits
<1>2. CASE At("parseWindowFrame.Start")
  BY <1>2, Here, AwaitPoints, FreshPoints, NodeKinds, GotOK, CallOK, ReturnFlawedOK
     DEF parseWindowFrame, At, Awaits
<1>3. CASE At("parseWindowFrame.End")
  BY <1>3, Here, NodeKinds, AwaitPoints, GotOK, ReturnNewOK
     DEF parseWindowFrame, At, Awaits
<1> QED BY <1>1, <1>2, <1>3 DEF parseWindowFrame

LEMMA OverCloseOK ==
    ASSUME NEW L, NEW K, NEW A, Scope(L, K, A), MachineInv(L, K, A), OverClose
    PROVE  MachineInv(L, K, A)'
<1>1. stack # <<>> /\ Top.at \in Nat /\ Operands(Top.kids)
  BY Here DEF OverClose, At
<1> QED BY <1>1, NodeKinds, ReturnPassingOK, FailOK DEF OverClose

LEMMA parseOverClauseOK ==
    ASSUME NEW L, NEW K, NEW A, Scope(L, K, A), MachineInv(L, K, A), parseOverClause
    PROVE  MachineInv(L, K, A)'
<1>1. CASE At("parseOverClause")
  BY <1>1, Here, AwaitPoints, FreshPoints, NodeKinds, CallExpressionOK, ContinueOK,
     ReturnNewOK, FailOK
     DEF parseOverClause, At, OverClose, LOWEST, Awaits
<1>2. CASE At("parseOverClause.Partition")
  BY <1>2, Here, AwaitPoints, FreshPoints, GotOK, CallExpressionOK, ContinueOK
     DEF parseOverClause, At, OverClose, LOWEST, Awaits
<1>3. CASE At("parseOverClause.Order")
  BY <1>3, Here, AwaitPoints, FreshPoints, CallOK, ContinueOK, FailOK
     DEF parseOverClause, At, OverClose, Awaits
<1>4. CASE At("parseOverClause.Ordered")
  BY <1>4, Here, FreshPoints, AwaitPoints, GotOK, ContinueOK
     DEF parseOverClause, At, OverClose, Awaits
<1>5. CASE At("parseOverClause.Frame")
  BY <1>5, Here, AwaitPoints, FreshPoints, CallOK, ContinueOK
     DEF parseOverClause, At, OverClose, Awaits
<1>6. CASE At("parseOverClause.Framed")
  BY <1>6, Here, FreshPoints, AwaitPoints, GotOK, ContinueOK
     DEF parseOverClause, At, OverClose, Awaits
<1>7. CASE OverClose
  BY <1>7, OverCloseOK
<1> QED BY <1>1, <1>2, <1>3, <1>4, <1>5, <1>6, <1>7 DEF parseOverClause

(* The expression on the left of an operator.                              *)
LEMMA LeftOK ==
    ASSUME NEW L, NEW K, NEW A, Scope(L, K, A), MachineInv(L, K, A),
           At("parseExpression.Left")
    PROVE  /\ ret \in Nat
           /\ Operands(<<ret>>)
           /\ errors = <<>> => ret \in DOMAIN heap
<1>1. ret \in Nat
  BY AwaitPoints DEF At, MachineInv, MachineTypeOK, Awaits
<1>2. errors = <<>> => ret \in DOMAIN heap
  BY <1>1 DEF MachineInv, RetOK, NoValue, Panicked
<1> QED BY <1>1, <1>2 DEF Operands

LEMMA parseExpressionOK ==
    ASSUME NEW L, NEW K, NEW A, Scope(L, K, A), MachineInv(L, K, A), parseExpression
    PROVE  MachineInv(L, K, A)'
<1>1. CASE At("parseExpression")
  BY <1>1, Here, AwaitsKnown, StartsFresh, PrefixFnType, CallOK, FailOK
     DEF parseExpression, At, AwaitsResult
<1>2. CASE At("parseExpression.Left")
  <2>1. /\ stack # <<>> /\ Operands(<<>>) /\ pos + 1 \in Nat
        /\ Top.lo \in Nat /\ ret \in Nat /\ Operands(<<ret>>)
    BY <1>2, Here, LeftOK DEF At
  <2>2. /\ "parseExpression.Left" \in L
        /\ ~ NeedsLeft("parseExpression.Left")
    BY AwaitPoints DEF Awaits
  <2>3. CASE Return(ret)
    BY <1>2, <2>1, <2>3, LeftOK, ReturnOK DEF At
  <2>4. ASSUME InfixFn(Peek) # "nil",
               CallFrame(1, "parseExpression.Left", <<>>,
                         Frame(InfixFn(Peek), 0, pos + 1, Top.lo, <<ret>>))
        PROVE  MachineInv(L, K, A)'
    <3> DEFINE callee == Frame(InfixFn(Peek), 0, pos + 1, Top.lo, <<ret>>)
    <3>1. InfixFn(Peek) \in L /\ InfixFn(Peek) \notin A
      BY <2>4, InfixFnType DEF Scope
    <3>2. callee \in Frames(L) /\ callee.pc \notin A /\ callee.kids = <<ret>>
      BY <2>1, <3>1 DEF Frame, Frames
    <3>3. CallFrame(1, "parseExpression.Left", <<>>, callee)
      BY <2>4
    <3> HIDE DEF callee
    <3>4. Operands(callee.kids) /\ callee.kids # <<>>
      BY <2>1, <3>2
    <3> QED BY <2>1, <2>2, <3>2, <3>3, <3>4, CallFrameOK
  <2> QED BY <1>2, <2>3, <2>4 DEF parseExpression, At
<1> QED BY <1>1, <1>2 DEF parseExpression

LEMMA parseLeafOK ==
    ASSUME NEW L, NEW K, NEW A, Scope(L, K, A), MachineInv(L, K, A), parseLeaf
    PROVE  MachineInv(L, K, A)'
<1>1. \A fn \in DOMAIN LeafKind : LeafKind[fn] \in K
  BY NodeKinds DEF LeafKind
<1> QED BY <1>1, Here, ReturnNewOK DEF parseLeaf

LEMMA parseFloatLiteralOK ==
    ASSUME NEW L, NEW K, NEW A, Scope(L, K, A), MachineInv(L, K, A), parseFloatLiteral
    PROVE  MachineInv(L, K, A)'
BY Here, FailOK DEF parseFloatLiteral

LEMMA parsePrefixExpressionOK ==
    ASSUME NEW L, NEW K, NEW A, Scope(L, K, A), MachineInv(L, K, A),
           parsePrefixExpression
    PROVE  MachineInv(L, K, A)'
<1>1. CASE At("parsePrefixExpression")
  BY <1>1, Here, AwaitPoints, FreshPoints, CallExpressionOK
     DEF parsePrefixExpression, At, PREFIX, Awaits
<1>2. CASE At("parsePrefixExpression.Right")
  BY <1>2, Here, NodeKinds, AwaitPoints, GotOK, ReturnNewOK
     DEF parsePrefixExpression, At, Awaits
<1> QED BY <1>1, <1>2 DEF parsePrefixExpression

LEMMA parseInfixExpressionOK ==
    ASSUME NEW L, NEW K, NEW A, Scope(L, K, A), MachineInv(L, K, A),
           parseInfixExpression
    PROVE  MachineInv(L, K, A)'
<1>1. CASE At("parseInfixExpression")
  BY <1>1, Here, AwaitPoints, FreshPoints, CallExpressionOK, PrecedenceType
     DEF parseInfixExpression, At, Awaits
<1>2. CASE At("parseInfixExpression.Right")
  BY <1>2, Here, NodeKinds, AwaitPoints, GotOK, ReturnNewOK
     DEF parseInfixExpression, At, Awaits
<1> QED BY <1>1, <1>2 DEF parseInfixExpression

LEMMA EXCEPTOutside ==
    ASSUME NEW S, NEW s \in Seq(S), NEW i \in Nat, i \notin DOMAIN s, NEW x
    PROVE  [s EXCEPT ![i] = x] = s
OBVIOUS

LEMMA DropParenthesesOK ==
    ASSUME NEW L, NEW K, NEW A, MachineInv(L, K, A), stack # <<>>, Top.pc \in A,
           DropParentheses
    PROVE  MachineInv(L, K, A)'
<1>1. /\ heap \in Seq(Nodes(K)) /\ ret \in Nat
      /\ Top.lo \in Nat /\ pos + 1 \in Nat
  <2>1. ret \in Nat /\ Top.lo \in Nat
    BY GotOK, TopOK DEF Frames
  <2>2. heap \in Seq(Nodes(K)) /\ pos + 1 \in Nat
    BY  DEF MachineInv, MachineTypeOK
  <2> QED BY <2>1, <2>2
<1>2. /\ heap' \in Seq(Nodes(K))
      /\ DOMAIN heap' = DOMAIN heap
      /\ \A n \in DOMAIN heap : /\ heap'[n].whole = heap[n].whole
                                /\ heap'[n].kind = heap[n].kind
                                /\ heap'[n].kids = heap[n].kids
  <2>1. CASE heap' = heap
    BY <1>1, <2>1
  <2>2. CASE ret \notin DOMAIN heap /\ heap' = [heap EXCEPT ![ret] = InParentheses(heap[ret])]
    BY <1>1, <2>2, EXCEPTOutside
  <2>3. CASE ret \in DOMAIN heap /\ heap' = [heap EXCEPT ![ret] = InParentheses(heap[ret])]
    <3> DEFINE node == InParentheses(heap[ret])
    <3>1. heap[ret] \in Nodes(K)
      BY <1>1, <2>3
    <3>2. /\ node \in Nodes(K) /\ node.whole = heap[ret].whole
          /\ node.kind = heap[ret].kind /\ node.kids = heap[ret].kids
      BY <1>1, <3>1 DEF InParentheses, Nodes
    <3>3. heap' = [heap EXCEPT ![ret] = node]
      BY <2>3
    <3> HIDE DEF node
    <3> QED BY <1>1, <2>3, <3>2, <3>3
  <2> QED BY <2>1, <2>2, <2>3 DEF DropParentheses
<1>3. Pop /\ pos' \in Nat /\ UNCHANGED <<input, ret, errors>>
  BY <1>1 DEF DropParentheses
<1>4. MachineTypeOK(L, K, A)'
  BY <1>1, <1>2, <1>3, PopOK DEF MachineInv, MachineTypeOK
<1>5. FramesOK'
  BY <1>2, <1>3, PopOK DEF MachineInv, FramesOK, Operands
<1>6. RetOK' /\ HeapOK'
  <2>1. SelectBroke' = SelectBroke
    BY <1>2 DEF SelectBroke
  <2>2. \A n \in DOMAIN heap : NoHole(heap'[n]) = NoHole(heap[n])
    BY <1>2 DEF NoHole
  <2> QED BY <1>2, <1>3, <2>1, <2>2 DEF MachineInv, RetOK, HeapOK
<1> QED BY <1>4, <1>5, <1>6 DEF MachineInv

LEMMA parseGroupedExpressionOK ==
    ASSUME NEW L, NEW K, NEW A, Scope(L, K, A), MachineInv(L, K, A),
           parseGroupedExpression
    PROVE  MachineInv(L, K, A)'
<1>1. CASE At("parseGroupedExpression")
  BY <1>1, Here, AwaitPoints, FreshPoints, NodeKinds, CallOK, CallExpressionOK,
     ReturnNewOK
     DEF parseGroupedExpression, At, LOWEST, Awaits
<1>2. CASE At("parseGroupedExpression.Subquery")
  <2>1. pos + 1 \in Nat
    BY <1>2, Here
  <2> QED BY <1>2, <2>1, Here, NodeKinds, AwaitPoints, GotOK, ReturnNewOK, FailOK
             DEF parseGroupedExpression, At, Awaits
<1>3. CASE At("parseGroupedExpression.Exp")
  BY <1>3, Here, AwaitPoints, DropParenthesesOK, FailOK
     DEF parseGroupedExpression, At, Awaits
<1> QED BY <1>1, <1>2, <1>3 DEF parseGroupedExpression

LEMMA parseDotExpressionOK ==
    ASSUME NEW L, NEW K, NEW A, Scope(L, K, A), MachineInv(L, K, A), parseDotExpression
    PROVE  MachineInv(L, K, A)'
<1>1. CASE At("parseDotExpression")
  BY <1>1, Here, AwaitPoints, FreshPoints, NodeKinds, CallOK, ReturnNewOK
     DEF parseDotExpression, At, Awaits
<1>2. CASE At("parseDotExpression.Arguments")
  BY <1>2, Here, NodeKinds, AwaitPoints, GotOK, ReturnNewOK
     DEF parseDotExpression, At, Awaits
<1> QED BY <1>1, <1>2 DEF parseDotExpression

LEMMA parseScopeExpressionOK ==
    ASSUME NEW L, NEW K, NEW A, Scope(L, K, A), MachineInv(L, K, A),
           parseScopeExpression
    PROVE  MachineInv(L, K, A)'
<1>1. CASE At("parseScopeExpression")
  <2>1. CASE Whole(Top.kids)
    BY <1>1, <2>1, Here, AwaitPoints, FreshPoints, NodeKinds, CallOK, ReturnNewOK
       DEF parseScopeExpression, At, Awaits
  <2>2. CASE ~ Whole(Top.kids)
    <3>1. errors # <<>> \/ SelectBroke
      BY <1>1, <2>2, Here, WholeOK
    <3> QED BY <1>1, <2>2, <3>1, PanicOK DEF parseScopeExpression, At
  <2> QED BY <2>1, <2>2
<1>2. CASE At("parseScopeExpression.Arguments")
  BY <1>2, Here, NodeKinds, AwaitPoints, GotOK, ReturnNewOK
     DEF parseScopeExpression, At, Awaits
<1> QED BY <1>1, <1>2 DEF parseScopeExpression

LEMMA FirstMissingOK ==
    ASSUME ~ \A j \in 2..5 : Tok(pos + j) = WithinGroup[j]
    PROVE  FirstMissing \in Nat /\ FirstMissing - 1 \in Nat
<1>1. \E j \in 2..5 : /\ Tok(pos + j) # WithinGroup[j]
                     /\ \A i \in 2..(j - 1) : Tok(pos + i) = WithinGroup[i]
  OBVIOUS
<1>2. FirstMissing \in 2..5
  BY <1>1 DEF FirstMissing
<1> QED BY <1>2

LEMMA parseCallExpressionOK ==
    ASSUME NEW L, NEW K, NEW A, Scope(L, K, A), MachineInv(L, K, A), parseCallExpression
    PROVE  MachineInv(L, K, A)'
<1>1. CASE At("parseCallExpression")
  BY <1>1, Here, AwaitPoints, FreshPoints, CallOK DEF parseCallExpression, At, Awaits
<1>2. CASE At("parseCallExpression.Arguments")
  <2>1. CASE \A j \in 2..5 : Tok(pos + j) = WithinGroup[j]
    BY <1>2, <2>1, Here, AwaitPoints, FreshPoints, GotOK, CallOK, ContinueOK
       DEF parseCallExpression, At, Awaits
  <2>2. CASE ~ \A j \in 2..5 : Tok(pos + j) = WithinGroup[j]
    <3>1. FirstMissing \in Nat /\ FirstMissing - 1 \in Nat
      BY <2>2, FirstMissingOK
    <3> QED BY <1>2, <2>2, <3>1, Here, AwaitPoints, FreshPoints, GotOK, ContinueOK, FailOK
               DEF parseCallExpression, At, Awaits
  <2> QED BY <2>1, <2>2
<1>3. CASE At("parseCallExpression.WithinGroup")
  BY <1>3, Here, FreshPoints, AwaitPoints, GotOK, ContinueOK, FailOK
     DEF parseCallExpression, At, Awaits
<1>4. CASE At("parseCallExpression.Over")
  BY <1>4, Here, AwaitPoints, FreshPoints, NodeKinds, CallOK, ReturnNewOK
     DEF parseCallExpression, At, Awaits
<1>5. CASE At("parseCallExpression.Clause")
  BY <1>5, Here, NodeKinds, AwaitPoints, GotOK, ReturnNewOK
     DEF parseCallExpression, At, Awaits
<1> QED BY <1>1, <1>2, <1>3, <1>4, <1>5 DEF parseCallExpression

LEMMA parseExpressionListOK ==
    ASSUME NEW L, NEW K, NEW A, Scope(L, K, A), MachineInv(L, K, A), parseExpressionList
    PROVE  MachineInv(L, K, A)'
<1>1. CASE At("parseExpressionList")
  BY <1>1, Here, AwaitPoints, FreshPoints, NodeKinds, CallExpressionOK, ReturnNewOK
     DEF parseExpressionList, At, LOWEST, Awaits
<1>2. CASE At("parseExpressionList.Key")
  BY <1>2, Here, AwaitPoints, FreshPoints, NodeKinds, GotOK, CallExpressionOK,
     ReturnNewOK, FailOK
     DEF parseExpressionList, At, LOWEST, Awaits
<1>3. CASE At("parseExpressionList.Value")
  BY <1>3, Here, AwaitPoints, FreshPoints, NodeKinds, GotOK, CallExpressionOK,
     ReturnNewOK, FailOK
     DEF parseExpressionList, At, LOWEST, Awaits
<1> QED BY <1>1, <1>2, <1>3 DEF parseExpressionList

(* A new node, and the function that takes it over.                        *)
LEMMA NodeAndTailCallOK ==
    ASSUME NEW L, NEW K, NEW A, MachineInv(L, K, A), stack # <<>>,
           NEW node \in Nodes(K), errors = <<>> => (node.whole \/ SelectBroke) /\ NoHole(node),
           NEW callee \in Frames(L), callee.pc \notin A,
           callee.kids = <<Len(heap) + 1>>,
           heap' = Append(heap, node),
           stack' = [stack EXCEPT ![Len(stack)] = callee],
           pos' = pos + 1,
           UNCHANGED <<input, ret, errors>>
    PROVE  MachineInv(L, K, A)'
<1>1. /\ heap' \in Seq(Nodes(K))
      /\ DOMAIN heap \subseteq DOMAIN heap'
      /\ Len(heap) + 1 \in DOMAIN heap'
      /\ \A n \in DOMAIN heap' : heap'[n] = node \/ (n \in DOMAIN heap /\ heap'[n] = heap[n])
      /\ SelectBroke => SelectBroke'
  BY HeapGrows DEF MachineInv, MachineTypeOK
<1>2. /\ stack' \in Seq(Frames(L)) /\ Len(stack') = Len(stack) /\ stack' # <<>>
      /\ stack'[Len(stack)] = callee
      /\ \A i \in DOMAIN stack' :
            stack'[i] = callee \/ (i \in DOMAIN stack /\ stack'[i] = stack[i])
  BY TopOK DEF MachineInv, MachineTypeOK
<1>3. Top' = callee
  BY <1>2 DEF Top
<1>4. MachineTypeOK(L, K, A)'
  BY <1>1, <1>2, <1>3 DEF MachineInv, MachineTypeOK
<1>5. /\ callee.kids \in Seq(Nat) /\ callee.kids # <<>>
      /\ \A j \in DOMAIN callee.kids : callee.kids[j] \in DOMAIN heap'
  BY <1>1 DEF MachineInv, MachineTypeOK
<1>6. FramesOK'
  BY <1>1, <1>2, <1>5 DEF FramesOK, MachineInv, Operands
<1>7. RetOK' /\ HeapOK'
  BY <1>1 DEF RetOK, HeapOK, MachineInv
<1> QED BY <1>4, <1>6, <1>7 DEF MachineInv

LEMMA parseFunctionLiteralOK ==
    ASSUME NEW L, NEW K, NEW A, Scope(L, K, A), MachineInv(L, K, A),
           parseFunctionLiteral
    PROVE  MachineInv(L, K, A)'
<1>1. CASE At("parseFunctionLiteral")
  <2>1. CASE Peek # "LPAREN"
    BY <1>1, <2>1, Here, NodeKinds, ReturnNewOK DEF parseFunctionLiteral, At
  <2>2. CASE Peek = "LPAREN"
    <3> DEFINE node   == Node("Identifier", pos, <<>>, pos)
               callee == Frame("parseCallExpression", Top.prec, pos + 1, Top.lo,
                               <<Len(heap) + 1>>)
    <3>1. /\ node \in Nodes(K)
          /\ errors = <<>> => (node.whole \/ SelectBroke) /\ NoHole(node)
      BY <1>1, Here, NodeKinds, NodeOK
    <3>2. /\ Fresh("parseCallExpression", L, A)
          /\ callee \in Frames(L) /\ callee.pc = "parseCallExpression"
          /\ callee.kids = <<Len(heap) + 1>>
      <4>1. Fresh("parseCallExpression", L, A)
        BY FreshPoints
      <4>2. /\ Top.prec \in Nat /\ Top.lo \in Nat /\ pos + 1 \in Nat
            /\ <<Len(heap) + 1>> \in Seq(Nat)
        <5>1. Top.prec \in Nat /\ Top.lo \in Nat /\ pos + 1 \in Nat
          BY <1>1, Here
        <5>2. heap \in Seq(Nodes(K))
          BY  DEF MachineInv, MachineTypeOK
        <5> QED BY <5>1, <5>2
      <4> QED BY <4>1, <4>2 DEF Fresh, Frame, Frames
    <3>3. /\ heap' = Append(heap, node)
          /\ stack' = [stack EXCEPT ![Len(stack)] = callee]
          /\ pos' = pos + 1
          /\ UNCHANGED <<input, ret, errors>>
      BY <1>1, <2>2 DEF parseFunctionLiteral, At
    <3> HIDE DEF node, callee
    <3> QED BY <1>1, <3>1, <3>2, <3>3, Here, NodeAndTailCallOK DEF Fresh
  <2> QED BY <2>1, <2>2
<1> QED BY <1>1 DEF parseFunctionLiteral

LEMMA CaseEndOK ==
    ASSUME NEW L, NEW K, NEW A, Scope(L, K, A), MachineInv(L, K, A), CaseEnd
    PROVE  MachineInv(L, K, A)'
BY Here, NodeKinds, ReturnNewOK, FailOK DEF CaseEnd

LEMMA parseCaseExpressionOK ==
    ASSUME NEW L, NEW K, NEW A, Scope(L, K, A), MachineInv(L, K, A), parseCaseExpression
    PROVE  MachineInv(L, K, A)'
<1>1. CASE At("parseCaseExpression")
  BY <1>1, Here, AwaitPoints, FreshPoints, CallExpressionOK, ContinueOK
     DEF parseCaseExpression, At, CaseEnd, LOWEST, Awaits
<1>2. CASE At("parseCaseExpression.Operand")
  BY <1>2, Here, FreshPoints, AwaitPoints, GotOK, ContinueOK
     DEF parseCaseExpression, At, CaseEnd, Awaits
<1>3. CASE At("parseCaseExpression.When")
  <2>1. CASE CaseEnd
    BY <2>1, CaseEndOK
  <2>2. CASE ~ CaseEnd
    BY <1>3, <2>2, Here, AwaitPoints, FreshPoints, CallExpressionOK
       DEF parseCaseExpression, At, LOWEST, Awaits
  <2> QED BY <2>1, <2>2
<1>4. CASE At("parseCaseExpression.Condition")
  BY <1>4, Here, AwaitPoints, FreshPoints, GotOK, CallExpressionOK, FailOK
     DEF parseCaseExpression, At, CaseEnd, LOWEST, Awaits
<1>5. CASE At("parseCaseExpression.Result")
  BY <1>5, Here, FreshPoints, AwaitPoints, GotOK, ContinueOK
     DEF parseCaseExpression, At, CaseEnd, Awaits
<1>6. CASE At("parseCaseExpression.Else")
  BY <1>6, Here, FreshPoints, AwaitPoints, GotOK, ContinueOK
     DEF parseCaseExpression, At, CaseEnd, Awaits
<1>7. CASE CaseEnd
  BY <1>7, CaseEndOK
<1> QED BY <1>1, <1>2, <1>3, <1>4, <1>5, <1>6, <1>7 DEF parseCaseExpression

LEMMA parseExistsExpressionOK ==
    ASSUME NEW L, NEW K, NEW A, Scope(L, K, A), MachineInv(L, K, A),
           parseExistsExpression
    PROVE  MachineInv(L, K, A)'
<1>1. CASE At("parseExistsExpression")
  BY <1>1, Here, AwaitPoints, FreshPoints, CallOK, FailOK
     DEF parseExistsExpression, At, Awaits
<1>2. CASE At("parseExistsExpression.Subquery")
  BY <1>2, Here, NodeKinds, AwaitPoints, GotOK, ReturnNewOK, FailOK
     DEF parseExistsExpression, At, Awaits
<1> QED BY <1>1, <1>2 DEF parseExistsExpression

LEMMA parseAllExpressionOK ==
    ASSUME NEW L, NEW K, NEW A, Scope(L, K, A), MachineInv(L, K, A), parseAllExpression
    PROVE  MachineInv(L, K, A)'
<1>1. CASE At("parseAllExpression")
  BY <1>1, Here, AwaitPoints, FreshPoints, CallOK, FailOK
     DEF parseAllExpression, At, Awaits
<1>2. CASE At("parseAllExpression.Subquery")
  BY <1>2, Here, NodeKinds, AwaitPoints, GotOK, ReturnNewOK, FailOK
     DEF parseAllExpression, At, Awaits
<1> QED BY <1>1, <1>2 DEF parseAllExpression

LEMMA parseSubqueryExpressionOK ==
    ASSUME NEW L, NEW K, NEW A, Scope(L, K, A), MachineInv(L, K, A),
           parseSubqueryExpression
    PROVE  MachineInv(L, K, A)'
<1>1. CASE At("parseSubqueryExpression")
  BY <1>1, Here, AwaitPoints, FreshPoints, CallOK DEF parseSubqueryExpression, At, Awaits
<1>2. CASE At("parseSubqueryExpression.Select")
  BY <1>2, Here, NodeKinds, AwaitPoints, GotOK, ReturnNewOK
     DEF parseSubqueryExpression, At, Awaits
<1> QED BY <1>1, <1>2 DEF parseSubqueryExpression

(* A SELECT with a hole in it: the parser goes on, or panics.              *)
LEMMA BrokenOK ==
    ASSUME NEW L, NEW K, NEW A, MachineInv(L, K, A), stack # <<>>, "Select" \in K,
           NEW at \in Nat, NEW k \in Nat,
           heap' = Append(heap, Node("Select", at, <<NIL>>, pos + k)),
           pos' = pos + k, input' = input,
           errors' \in {errors, Append(errors, pos + k)},
           \/ Pop /\ ret' = Len(heap) + 1
           \/ stack' = <<>> /\ ret' = Panicked
    PROVE  MachineInv(L, K, A)'
<1> DEFINE node == Node("Select", at, <<NIL>>, pos + k)
<1>1. heap \in Seq(Nodes(K)) /\ errors \in Seq(Nat) /\ pos + k \in Nat
  BY  DEF MachineInv, MachineTypeOK
<1>2. Whole(<<NIL>>) \in BOOLEAN /\ <<NIL>> \in Seq(Nat) /\ Top.lo \in Nat
  <2>1. Whole(<<NIL>>) \in BOOLEAN
    BY  DEF Whole, NIL
  <2> QED BY <2>1, TopOK DEF NIL, Frames
<1>3. node \in Nodes(K) /\ node.kind = "Select" /\ ~ node.whole
  <2>1. ~ Whole(<<NIL>>)
    BY DEF Whole, NIL
  <2> QED BY <1>1, <1>2, <2>1 DEF Node, Nodes
<1>4. heap' = Append(heap, node)
  OBVIOUS
<1> HIDE DEF node
<1>5. /\ heap' \in Seq(Nodes(K)) /\ Len(heap) + 1 \in DOMAIN heap' /\ Len(heap) + 1 \in Nat
      /\ DOMAIN heap \subseteq DOMAIN heap'
      /\ heap'[Len(heap) + 1] = node
      /\ \A n \in DOMAIN heap' : heap'[n] = node \/ (n \in DOMAIN heap /\ heap'[n] = heap[n])
  BY <1>1, <1>3, <1>4, HeapGrows
<1>6. errors' \in Seq(Nat) /\ (errors' = <<>> => errors = <<>>)
  <2>1. CASE errors' = errors
    BY <1>1, <2>1
  <2>2. CASE errors' = Append(errors, pos + k)
    <3>1. errors' \in Seq(Nat) /\ errors' # <<>>
      BY <1>1, <2>2
    <3> QED BY <3>1
  <2> QED BY <2>1, <2>2
<1>7. SelectBroke'
  BY <1>3, <1>5 DEF SelectBroke
<1>8. NoHole(node)
  BY <1>3 DEF NoHole
<1>9. stack' = <<>> \/ (/\ stack' \in Seq(Frames(L))
                       /\ \A i \in DOMAIN stack' : i \in DOMAIN stack /\ stack'[i] = stack[i])
  BY PopOK
<1>10. stack' \in Seq(Frames(L)) /\ \A i \in DOMAIN stack' : i \in DOMAIN stack /\ stack'[i] = stack[i]
  <2>1. CASE stack' = <<>>
    <3>1. <<>> \in Seq(Frames(L)) /\ DOMAIN stack' = {}
      BY <2>1
    <3> QED BY <2>1, <3>1
  <2> QED BY <1>9, <2>1
<1>11. ret' \in Nat \cup {NoValue, Panicked} /\ (stack' # <<>> => ret' \in Nat)
  BY <1>5
<1>12. MachineTypeOK(L, K, A)'
  BY <1>1, <1>5, <1>6, <1>10, <1>11 DEF MachineInv, MachineTypeOK
<1>13. FramesOK'
  BY <1>5, <1>6, <1>10 DEF MachineInv, FramesOK, Operands
<1>14. RetOK'
  BY <1>5, <1>7 DEF RetOK
<1>15. HeapOK'
  BY <1>5, <1>6, <1>7, <1>8 DEF MachineInv, HeapOK
<1> QED BY <1>12, <1>13, <1>14, <1>15 DEF MachineInv

LEMMA NestedSelectOK ==
    ASSUME NEW L, NEW K, NEW A, Scope(L, K, A), MachineInv(L, K, A),
           NestedSelect
    PROVE  MachineInv(L, K, A)'
<1>1. stack # <<>> /\ Top.at \in Nat /\ Operands(<<>>)
  BY Here DEF NestedSelect
<1>2. PICK k \in 1..MaxSelect :
         \/ ReturnNew("Select", Top.at, <<>>, k)
         \/ ReturnNew("Select", Top.at, <<NIL>>, k)
         \/ ReturnFlawed("Select", Top.at, <<NIL>>, k, k)
         \/ Fail(k + 1, k)
         \/ SelectPanics(k)
  BY DEF NestedSelect
<1>3. k \in Nat /\ k + 1 \in Nat /\ "Select" \in K
  BY SelectAssumption, NodeKinds
<1>4. CASE \/ ReturnNew("Select", Top.at, <<NIL>>, k)
           \/ ReturnFlawed("Select", Top.at, <<NIL>>, k, k)
  BY <1>1, <1>3, <1>4, BrokenOK DEF ReturnNew, ReturnFlawed, Build, BuildTo
<1>5. CASE SelectPanics(k)
  BY <1>1, <1>3, <1>5, BrokenOK DEF SelectPanics
<1> QED BY <1>1, <1>2, <1>3, <1>4, <1>5, ReturnNewOK, FailOK

LEMMA parseLikeExpressionOK ==
    ASSUME NEW L, NEW K, NEW A, Scope(L, K, A), MachineInv(L, K, A), parseLikeExpression
    PROVE  MachineInv(L, K, A)'
<1>1. CASE At("parseLikeExpression")
  BY <1>1, Here, AwaitPoints, FreshPoints, CallExpressionOK
     DEF parseLikeExpression, At, COMPARE, Awaits
<1>2. CASE At("parseLikeExpression.Pattern")
  BY <1>2, Here, AwaitPoints, FreshPoints, NodeKinds, GotOK, CallExpressionOK, ReturnNewOK
     DEF parseLikeExpression, At, LOWEST, Awaits
<1>3. CASE At("parseLikeExpression.Escape")
  BY <1>3, Here, NodeKinds, AwaitPoints, GotOK, ReturnNewOK
     DEF parseLikeExpression, At, Awaits
<1> QED BY <1>1, <1>2, <1>3 DEF parseLikeExpression

LEMMA parseCollateExpressionOK ==
    ASSUME NEW L, NEW K, NEW A, Scope(L, K, A), MachineInv(L, K, A),
           parseCollateExpression
    PROVE  MachineInv(L, K, A)'
BY Here, NodeKinds, ReturnNewOK DEF parseCollateExpression

LEMMA parseAtTimeZoneExpressionOK ==
    ASSUME NEW L, NEW K, NEW A, Scope(L, K, A), MachineInv(L, K, A),
           parseAtTimeZoneExpression
    PROVE  MachineInv(L, K, A)'
<1>1. CASE At("parseAtTimeZoneExpression")
  <2>1. CASE Peek # "TIME"
    <3>1. /\ Top.kids[1] \in Nat
          /\ errors = <<>> => Top.kids[1] \in DOMAIN heap
      BY <1>1, Here, TopOK DEF NeedsLeft, Operands
    <3> QED BY <1>1, <2>1, <3>1, Here, ReturnOK DEF parseAtTimeZoneExpression, At
  <2>2. CASE Peek = "TIME"
    BY <1>1, <2>2, Here, AwaitPoints, FreshPoints, CallExpressionOK, FailOK
       DEF parseAtTimeZoneExpression, At, CALL, Awaits
  <2> QED BY <2>1, <2>2
<1>2. CASE At("parseAtTimeZoneExpression.TimeZone")
  BY <1>2, Here, NodeKinds, AwaitPoints, GotOK, ReturnNewOK
     DEF parseAtTimeZoneExpression, At, Awaits
<1> QED BY <1>1, <1>2 DEF parseAtTimeZoneExpression

LEMMA parseBetweenExpressionOK ==
    ASSUME NEW L, NEW K, NEW A, Scope(L, K, A), MachineInv(L, K, A),
           parseBetweenExpression
    PROVE  MachineInv(L, K, A)'
<1>1. CASE At("parseBetweenExpression")
  BY <1>1, Here, AwaitPoints, FreshPoints, CallExpressionOK
     DEF parseBetweenExpression, At, AND_PREC, Awaits
<1>2. CASE At("parseBetweenExpression.Low")
  BY <1>2, Here, AwaitPoints, FreshPoints, GotOK, CallExpressionOK, FailOK
     DEF parseBetweenExpression, At, BETWEEN_PREC, Awaits
<1>3. CASE At("parseBetweenExpression.High")
  BY <1>3, Here, NodeKinds, AwaitPoints, GotOK, ReturnNewOK
     DEF parseBetweenExpression, At, Awaits
<1> QED BY <1>1, <1>2, <1>3 DEF parseBetweenExpression

LEMMA parseInExpressionOK ==
    ASSUME NEW L, NEW K, NEW A, Scope(L, K, A), MachineInv(L, K, A), parseInExpression
    PROVE  MachineInv(L, K, A)'
<1>1. CASE At("parseInExpression")
  BY <1>1, Here, AwaitPoints, FreshPoints, CallOK, CallExpressionOK, FailOK
     DEF parseInExpression, At, LOWEST, Awaits
<1>2. CASE At("parseInExpression.Value")
  BY <1>2, Here, AwaitPoints, FreshPoints, NodeKinds, GotOK, CallExpressionOK,
     ReturnNewOK, FailOK
     DEF parseInExpression, At, LOWEST, Awaits
<1>3. CASE At("parseInExpression.Subquery")
  BY <1>3, Here, NodeKinds, AwaitPoints, GotOK, ReturnNewOK, FailOK
     DEF parseInExpression, At, Awaits
<1> QED BY <1>1, <1>2, <1>3 DEF parseInExpression

LEMMA parseIsNullExpressionOK ==
    ASSUME NEW L, NEW K, NEW A, Scope(L, K, A), MachineInv(L, K, A),
           parseIsNullExpression
    PROVE  MachineInv(L, K, A)'
BY Here, NodeKinds, ReturnNewOK, FailOK DEF parseIsNullExpression

LEMMA parseDistinctFromExpressionOK ==
    ASSUME NEW L, NEW K, NEW A, Scope(L, K, A), MachineInv(L, K, A),
           parseDistinctFromExpression
    PROVE  MachineInv(L, K, A)'
<1>1. CASE At("parseDistinctFromExpression")
  BY <1>1, Here, AwaitPoints, FreshPoints, CallExpressionOK
     DEF parseDistinctFromExpression, At, COMPARE, Awaits
<1>2. CASE At("parseDistinctFromExpression.Right")
  BY <1>2, Here, NodeKinds, AwaitPoints, GotOK, ReturnNewOK
     DEF parseDistinctFromExpression, At, Awaits
<1> QED BY <1>1, <1>2 DEF parseDistinctFromExpression

LEMMA parseNotInfixExpressionOK ==
    ASSUME NEW L, NEW K, NEW A, Scope(L, K, A), MachineInv(L, K, A),
           parseNotInfixExpression
    PROVE  MachineInv(L, K, A)'
<1>1. Peek \in {"IN", "LIKE", "BETWEEN"} => Fresh(InfixFn(Peek), L, A)
  <2>1. Peek \in {"IN", "LIKE", "BETWEEN"} => InfixFn(Peek) \in Starts
    BY DEF InfixFn, Starts, Labels, AwaitsResult
  <2> QED BY <2>1, StartsFresh
<1> QED BY <1>1, Here, TailCallOK, FailOK DEF parseNotInfixExpression

-----------------------------------------------------------------------------
LEMMA parseDataTypeOK ==
    ASSUME NEW L, NEW K, NEW A, Scope(L, K, A), MachineInv(L, K, A), parseDataType
    PROVE  MachineInv(L, K, A)'
<1> DEFINE name == ListEnd(pos, "DOT")
           size == name + 2
           last == CASE Cur = "XML" /\ name = pos                      -> ListEnd(size, "DOT")
                     [] Tok(size) # "MAX" /\ Tok(size + 1) = "COMMA" -> size + 2
                     [] OTHER                                          -> size
<1>1. pos \in Nat /\ input \in Seq(Tokens)
  BY DEF MachineInv, MachineTypeOK
<1>2. name \in Nat /\ pos <= name
  BY <1>1, ListEndOK
<1>3. \/ ReturnExpecting("RPAREN", "DataType", <<>>, last - pos)
      \/ ReturnNew("DataType", pos, <<>>, name - pos)
  BY DEF parseDataType
<1> HIDE DEF name
<1>4. ListEnd(size, "DOT") \in Nat /\ size <= ListEnd(size, "DOT")
  BY <1>1, <1>2, ListEndOK
<1>5. last \in {ListEnd(size, "DOT"), size + 2, size}
  OBVIOUS
<1>6. last \in Nat /\ pos <= last
  BY <1>1, <1>2, <1>4, <1>5
<1> HIDE DEF last
<1>7. last - pos \in Nat /\ name - pos \in Nat
  BY <1>1, <1>2, <1>6
<1>8. stack # <<>> /\ Operands(<<>>) /\ "DataType" \in K
  BY Here, NodeKinds DEF parseDataType
<1> QED BY <1>1, <1>3, <1>7, <1>8, ReturnExpectingOK, ReturnNewOK

LEMMA parseCastExpressionOK ==
    ASSUME NEW L, NEW K, NEW A, Scope(L, K, A), MachineInv(L, K, A), parseCastExpression
    PROVE  MachineInv(L, K, A)'
<1>1. CASE At("parseCastExpression")
  BY <1>1, Here, AwaitPoints, FreshPoints, CallExpressionOK, GiveUpOK
     DEF parseCastExpression, At, Require, LOWEST, Awaits
<1>2. CASE At("parseCastExpression.Expression")
  BY <1>2, Here, AwaitPoints, FreshPoints, GotOK, CallOK, GiveUpOK
     DEF parseCastExpression, At, Require, Awaits
<1>3. CASE At("parseCastExpression.TargetType")
  BY <1>3, Here, NodeKinds, AwaitPoints, GotOK, ReturnNewOK, GiveUpOK
     DEF parseCastExpression, At, Require, Awaits
<1> QED BY <1>1, <1>2, <1>3 DEF parseCastExpression

LEMMA parseConvertExpressionOK ==
    ASSUME NEW L, NEW K, NEW A, Scope(L, K, A), MachineInv(L, K, A),
           parseConvertExpression
    PROVE  MachineInv(L, K, A)'
<1>1. CASE At("parseConvertExpression")
  BY <1>1, Here, AwaitPoints, FreshPoints, CallOK, GiveUpOK
     DEF parseConvertExpression, At, Require, Awaits
<1>2. CASE At("parseConvertExpression.TargetType")
  BY <1>2, Here, AwaitPoints, FreshPoints, GotOK, CallExpressionOK, GiveUpOK
     DEF parseConvertExpression, At, Require, LOWEST, Awaits
<1>3. CASE At("parseConvertExpression.Expression")
  BY <1>3, Here, AwaitPoints, FreshPoints, NodeKinds, GotOK, CallExpressionOK,
     ReturnNewOK, GiveUpOK
     DEF parseConvertExpression, At, Require, LOWEST, Awaits
<1>4. CASE At("parseConvertExpression.Style")
  BY <1>4, Here, NodeKinds, AwaitPoints, GotOK, ReturnNewOK, GiveUpOK
     DEF parseConvertExpression, At, Require, Awaits
<1> QED BY <1>1, <1>2, <1>3, <1>4 DEF parseConvertExpression

LEMMA parseParseExpressionOK ==
    ASSUME NEW L, NEW K, NEW A, Scope(L, K, A), MachineInv(L, K, A),
           parseParseExpression
    PROVE  MachineInv(L, K, A)'
<1>1. CASE At("parseParseExpression")
  BY <1>1, Here, AwaitPoints, FreshPoints, CallExpressionOK, GiveUpOK
     DEF parseParseExpression, At, Require, LOWEST, Awaits
<1>2. CASE At("parseParseExpression.Expression")
  BY <1>2, Here, AwaitPoints, FreshPoints, GotOK, CallOK, GiveUpOK
     DEF parseParseExpression, At, Require, Awaits
<1>3. CASE At("parseParseExpression.TargetType")
  BY <1>3, Here, AwaitPoints, FreshPoints, NodeKinds, GotOK, CallExpressionOK,
     ReturnNewOK, GiveUpOK
     DEF parseParseExpression, At, Require, LOWEST, Awaits
<1>4. CASE At("parseParseExpression.Culture")
  BY <1>4, Here, NodeKinds, AwaitPoints, GotOK, ReturnNewOK, GiveUpOK
     DEF parseParseExpression, At, Require, Awaits
<1> QED BY <1>1, <1>2, <1>3, <1>4 DEF parseParseExpression

LEMMA parseTrimExpressionOK ==
    ASSUME NEW L, NEW K, NEW A, Scope(L, K, A), MachineInv(L, K, A), parseTrimExpression
    PROVE  MachineInv(L, K, A)'
<1>1. CASE At("parseTrimExpression")
  BY <1>1, Here, AwaitPoints, FreshPoints, CallExpressionOK, GiveUpOK
     DEF parseTrimExpression, At, Require, LOWEST, Awaits
<1>2. CASE At("parseTrimExpression.First")
  BY <1>2, Here, AwaitPoints, FreshPoints, NodeKinds, GotOK, CallExpressionOK,
     ReturnNewOK, GiveUpOK
     DEF parseTrimExpression, At, Require, LOWEST, Awaits
<1>3. CASE At("parseTrimExpression.Expression")
  BY <1>3, Here, NodeKinds, AwaitPoints, GotOK, ReturnNewOK, GiveUpOK
     DEF parseTrimExpression, At, Require, Awaits
<1> QED BY <1>1, <1>2, <1>3 DEF parseTrimExpression

LEMMA CursorOptionsFrom ==
    ASSUME input \in Seq(Tokens), pos \in Nat, NEW i \in Nat, pos < i
    PROVE  parseCursorOptions(i) \in Nat
<1> DEFINE places == {j \in i..(i + Len(input)) : Tok(j) \notin CursorOptions}
<1>1. Len(input) \in Nat
  OBVIOUS
<1>2. i + Len(input) \in places
  BY <1>1 DEF Tok, CursorOptions
<1>3. places \in SUBSET Nat /\ \A j \in places : pos <= j
  BY <1>1
<1> HIDE DEF places
<1>4. First(places) \in places
  BY <1>2, <1>3, FirstOK
<1>5. parseCursorOptions(i) = First(places) - pos
  BY DEF parseCursorOptions, places
<1>6. First(places) \in Nat /\ pos <= First(places)
  BY <1>3, <1>4
<1> HIDE DEF First
<1>7. First(places) - pos \in Nat
  BY <1>1, <1>6
<1> QED BY <1>5, <1>7

LEMMA parseCursorOptionsOK ==
    ASSUME input \in Seq(Tokens), pos \in Nat
    PROVE  parseCursorOptions(pos + 1) \in Nat /\ parseCursorOptions(pos + 2) \in Nat
<1>1. pos + 1 \in Nat /\ pos + 2 \in Nat /\ pos < pos + 1 /\ pos < pos + 2
  OBVIOUS
<1> QED BY <1>1, CursorOptionsFrom

LEMMA parseCursorExpressionOK ==
    ASSUME NEW L, NEW K, NEW A, Scope(L, K, A), MachineInv(L, K, A),
           parseCursorExpression
    PROVE  MachineInv(L, K, A)'
<1>1. CASE At("parseCursorExpression")
  <2> DEFINE k == parseCursorOptions(pos + 1)
  <2>1. k \in Nat
    BY parseCursorOptionsOK DEF MachineInv, MachineTypeOK
  <2>2. \/ Call(k + 1, "parseCursorExpression.ForSelect", <<>>, "parseSelectStatement")
        \/ ReturnNew("CursorExpression", Top.at, <<>>, k)
    BY <1>1 DEF parseCursorExpression, At
  <2> HIDE DEF k
  <2>3. k + 1 \in Nat
    BY <2>1
  <2> QED BY <1>1, <2>1, <2>2, <2>3, Here, AwaitPoints, FreshPoints, NodeKinds, CallOK,
             ReturnNewOK
          DEF Awaits
<1>2. CASE At("parseCursorExpression.ForSelect")
  BY <1>2, Here, NodeKinds, AwaitPoints, GotOK, ReturnNewOK
     DEF parseCursorExpression, At, Awaits
<1> QED BY <1>1, <1>2 DEF parseCursorExpression

LEMMA parseNextValueForOK ==
    ASSUME NEW L, NEW K, NEW A, Scope(L, K, A), MachineInv(L, K, A), parseNextValueFor
    PROVE  MachineInv(L, K, A)'
<1> DEFINE k == ListEnd(pos + 3, "DOT") - pos
<1>1. k \in Nat
  <2>1. pos \in Nat
    BY DEF MachineInv, MachineTypeOK
  <2>2. ListEnd(pos + 3, "DOT") \in Nat /\ pos + 3 <= ListEnd(pos + 3, "DOT")
    BY ListFromCursor
  <2> QED BY <2>1, <2>2
<1>2. \/ ReturnNew("NextValueFor", Top.at, <<>>, k)
      \/ Mismatches(0, <<"VALUE", "FOR">>) # {} /\ GiveUp(0, <<"VALUE", "FOR">>)
  BY DEF parseNextValueFor, Require
<1> HIDE DEF k
<1>3. stack # <<>> /\ Top.at \in Nat /\ Operands(<<>>) /\ "NextValueFor" \in K
  BY Here, NodeKinds DEF parseNextValueFor
<1> QED BY <1>1, <1>2, <1>3, ReturnNewOK, GiveUpOK

LEMMA parseNextValueForCompoundOK ==
    ASSUME NEW L, NEW K, NEW A, Scope(L, K, A), MachineInv(L, K, A),
           parseNextValueForCompound
    PROVE  MachineInv(L, K, A)'
<1>1. CASE At("parseNextValueForCompound")
  <2> DEFINE k == ListEnd(pos + 1, "DOT") - pos
  <2>1. k \in Nat
    <3>1. pos \in Nat
      BY DEF MachineInv, MachineTypeOK
    <3>2. ListEnd(pos + 1, "DOT") \in Nat /\ pos + 1 <= ListEnd(pos + 1, "DOT")
      BY ListFromCursor
    <3> QED BY <3>1, <3>2
  <2>2. \/ Call(k + 1, "parseNextValueForCompound.Over", <<>>, "parseOverClause")
        \/ ReturnNew("NextValueFor", Top.at, <<>>, k)
    BY <1>1 DEF parseNextValueForCompound, At
  <2> HIDE DEF k
  <2>3. k + 1 \in Nat
    BY <2>1
  <2> QED BY <1>1, <2>1, <2>2, <2>3, Here, AwaitPoints, FreshPoints, NodeKinds, CallOK,
             ReturnNewOK
          DEF Awaits
<1>2. CASE At("parseNextValueForCompound.Over")
  BY <1>2, Here, NodeKinds, AwaitPoints, GotOK, ReturnNewOK
     DEF parseNextValueForCompound, At, Awaits
<1> QED BY <1>1, <1>2 DEF parseNextValueForCompound

LEMMA SearchTermAtOK ==
    ASSUME input \in Seq(Tokens), pos \in Nat, NEW table \in BOOLEAN
    PROVE  SearchTermAt(table) - pos \in Nat
<1>1. ASSUME NEW i \in Nat PROVE PastComma(i) \in Nat /\ i <= PastComma(i)
  BY DEF PastComma
<1>2. ASSUME NEW i \in Nat PROVE ColumnsEnd(i) \in Nat /\ i <= ColumnsEnd(i)
  <2>1. FirstIn(i + 1, {"RPAREN"}) \in Nat /\ i + 1 <= FirstIn(i + 1, {"RPAREN"})
    BY FirstInOK
  <2>2. \A j \in Nat : j > i => PastComma(j) \in Nat /\ i <= PastComma(j)
    BY <1>1
  <2>3. CASE Tok(i) = "LPAREN"
    BY <2>1, <2>2, <2>3 DEF ColumnsEnd
  <2>4. CASE Tok(i) # "LPAREN"
    BY <2>2, <2>4 DEF ColumnsEnd
  <2> QED BY <2>3, <2>4
<1>3. pos + 2 \in Nat /\ pos + 3 \in Nat
  OBVIOUS
<1>4. PastComma(pos + 3) \in Nat /\ pos + 3 <= PastComma(pos + 3)
  BY <1>1, <1>3
<1>5. /\ ColumnsEnd(pos + 2) \in Nat /\ pos + 2 <= ColumnsEnd(pos + 2)
      /\ ColumnsEnd(PastComma(pos + 3)) \in Nat
      /\ PastComma(pos + 3) <= ColumnsEnd(PastComma(pos + 3))
  BY <1>2, <1>3, <1>4
<1> QED BY <1>4, <1>5 DEF SearchTermAt

LEMMA FullTextOK ==
    ASSUME NEW L, NEW K, NEW A, Scope(L, K, A), MachineInv(L, K, A),
           NEW fn, NEW term \in L, term \in A, ~ NeedsLeft(term), NEW table \in BOOLEAN,
           FullText(fn, term, table)
    PROVE  MachineInv(L, K, A)'
<1> DEFINE k == SearchTermAt(table) - pos
<1>1. k \in Nat /\ LOWEST \in Nat
  BY SearchTermAtOK DEF LOWEST, MachineInv, MachineTypeOK
<1>2. CASE At(fn) /\ Require(0, <<"LPAREN">>, CallExpression(k, term, <<>>, LOWEST))
  <2>1. \/ CallExpression(k, term, <<>>, LOWEST)
        \/ Mismatches(0, <<"LPAREN">>) # {} /\ GiveUp(0, <<"LPAREN">>)
    BY <1>2 DEF Require
  <2> HIDE DEF k
  <2> QED BY <1>1, <1>2, <2>1, Here, FreshPoints, CallExpressionOK, GiveUpOK
<1>3. CASE At(term) /\ \E n \in Nat : ReturnNew("FullText", Top.at, GotIfAny, n)
  BY <1>3, Here, NodeKinds, GotOK, ReturnNewOK
<1> QED BY <1>2, <1>3 DEF FullText

LEMMA ConversionStepOK ==
    ASSUME NEW L, NEW K, NEW A, Scope(L, K, A), MachineInv(L, K, A), ConversionStep
    PROVE  MachineInv(L, K, A)'
<1>1. CASE \/ parseContainsExpression \/ parseFreetextExpression
           \/ parseContainsTableExpression \/ parseFreetextTableExpression
  BY <1>1, AwaitPoints, FullTextOK
     DEF Awaits, parseContainsExpression, parseFreetextExpression, parseContainsTableExpression,
         parseFreetextTableExpression
<1> QED BY <1>1, parseDataTypeOK, parseCastExpressionOK, parseConvertExpressionOK,
           parseParseExpressionOK, parseTrimExpressionOK, parseCursorExpressionOK,
           parseNextValueForOK, parseNextValueForCompoundOK
           DEF ConversionStep

-----------------------------------------------------------------------------
LEMMA ExpressionStepOK ==
    ASSUME NEW L, NEW K, NEW A, Scope(L, K, A), MachineInv(L, K, A), ExpressionStep
    PROVE  MachineInv(L, K, A)'
<1>1. CASE WindowStep
  BY <1>1, parseOrderByItemsOK, parseFrameBoundOK, parseWindowFrameOK, parseOverClauseOK
     DEF WindowStep
<1>2. CASE ConversionStep
  BY <1>2, ConversionStepOK
<1> QED BY <1>1, <1>2, parseExpressionOK, parseLeafOK, parseFloatLiteralOK,
           parsePrefixExpressionOK, parseInfixExpressionOK, parseGroupedExpressionOK,
           parseDotExpressionOK, parseScopeExpressionOK, parseCallExpressionOK,
           parseExpressionListOK, parseFunctionLiteralOK, parseCaseExpressionOK,
           parseExistsExpressionOK, parseAllExpressionOK, parseSubqueryExpressionOK,
           parseLikeExpressionOK, parseCollateExpressionOK, parseAtTimeZoneExpressionOK,
           parseBetweenExpressionOK, parseInExpressionOK, parseIsNullExpressionOK,
           parseDistinctFromExpressionOK, parseNotInfixExpressionOK
           DEF ExpressionStep

(* The machine may begin with any function that needs no left operand.     *)
LEMMA InitMachineOK ==
    ASSUME NEW L, NEW K, NEW A, NEW fn, Fresh(fn, L, A), NEW prec \in Nat,
           InitMachine(fn, prec)
    PROVE  MachineInv(L, K, A)
<1> DEFINE first == Frame(fn, prec, 1, 1, <<>>)
<1>1. first \in Frames(L) /\ first.pc = fn /\ first.kids = <<>>
  BY  DEF Fresh, Frame, Frames
<1>2. stack = <<first>> /\ input \in Seq(Tokens)
      /\ pos = 1 /\ ret = NoValue /\ heap = <<>> /\ errors = <<>>
  BY InputsAssumption DEF InitMachine
<1> HIDE DEF first
<1>3. stack \in Seq(Frames(L)) /\ Top = first
  BY <1>1, <1>2 DEF Top
<1>4. MachineTypeOK(L, K, A)
  <2>1. /\ pos \in Nat /\ ret \in Nat \cup {NoValue, Panicked}
        /\ heap \in Seq(Nodes(K)) /\ errors \in Seq(Nat)
    BY <1>2
  <2>2. Top.pc \notin A
    BY <1>1, <1>3 DEF Fresh
  <2> QED BY <1>2, <1>3, <2>1, <2>2 DEF MachineTypeOK
<1>5. FramesOK
  <2>1. \A i \in DOMAIN stack : stack[i] = first
    BY <1>2
  <2>2. Operands(<<>>) /\ ~ NeedsLeft(fn)
    BY  DEF Operands, Fresh
  <2> QED BY <1>1, <2>1, <2>2 DEF FramesOK
<1>6. RetOK /\ HeapOK
  BY <1>2 DEF RetOK, HeapOK, SelectBroke
<1> QED BY <1>4, <1>5, <1>6 DEF MachineInv

(* The inductive invariant: beyond the types, operands and results point   *)
(* to nodes, and nodes are whole but over a broken SELECT, for as long as  *)
(* there is no error.                                                      *)
IInv == MachineInv(Labels, Kinds, AwaitsResult)

LEMMA InitIInv == Init => IInv
<1>1. Fresh("parseExpression", Labels, AwaitsResult)
  BY DEF Fresh, Labels, AwaitsResult, NeedsLeft
<1> QED BY <1>1, InitMachineOK DEF Init, IInv, LOWEST

LEMMA NextIInv == IInv /\ [Next]_vars => IInv'
<1> SUFFICES ASSUME IInv, [Next]_vars PROVE IInv'
  OBVIOUS
<1>1. Scope(Labels, Kinds, AwaitsResult)
  BY DEF Scope, Labels
<1>2. CASE ExpressionStep
  BY <1>1, <1>2, ExpressionStepOK DEF IInv
<1>3. CASE NestedSelect
  BY <1>1, <1>3, NestedSelectOK DEF IInv
<1>4. CASE UNCHANGED vars
  BY <1>4, StutterOK DEF IInv
<1> QED BY <1>2, <1>3, <1>4 DEF Next

(* Every value the parser of expressions keeps has its type, and a         *)
(* function that goes on with the result of a call finds one.              *)
THEOREM ExpressionTypes == Spec => []TypeOK
<1>1. IInv => TypeOK
  BY  DEF IInv, MachineInv, TypeOK
<1> QED BY <1>1, InitIInv, NextIInv, PTL DEF Spec

(* Nothing goes missing silently: without an error no function returns nil *)
(* (parser.go reports the token it cannot use before each `return nil`)    *)
(* and no node but a SELECT has a nil child; if no SELECT is broken either *)
(* (parser.go:3092-3094 and 1842-1856 break one without an error), every   *)
(* node can be printed and parseScopeExpression does not panic.            *)
THEOREM NothingMissing == Spec => []NilIsReported
<1>1. IInv => NilIsReported
  <2> SUFFICES ASSUME IInv, errors = <<>> PROVE NilIsReported
    BY DEF NilIsReported
  <2>1. /\ heap \in Seq(Nodes(Kinds))
        /\ \/ ret = NoValue \/ ret \in DOMAIN heap
           \/ ret = Panicked /\ SelectBroke
        /\ \A n \in DOMAIN heap : NoHole(heap[n])
        /\ SelectBroke \/ \A n \in DOMAIN heap : heap[n].whole
    BY DEF IInv, MachineInv, MachineTypeOK, RetOK, HeapOK
  <2>2. ret # NIL /\ (ret = Panicked => SelectBroke)
    BY <2>1 DEF NIL, NoValue, Panicked
  <2> QED BY <2>1, <2>2 DEF NilIsReported, NoHole
<1> QED BY <1>1, InitIInv, NextIInv, PTL DEF Spec
=============================================================================
