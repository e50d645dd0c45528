----------------------------- MODULE Program_proof -----------------------------
(***************************************************************************)
(* Proofs about the machine as ParseProgram runs it: where a nil may come  *)
(* from, where it is taken and where it is kept.  The invariant below is   *)
(* the one the helpers of ParserMachine keep; Statements_proof shows that  *)
(* every parse function uses them as it asks for.                          *)
(***************************************************************************)
EXTENDS Statements, Expressions_proof

(* The functions, and the points in them, from which a call may return nil *)
(* although no error was reported.                                         *)
MayReturnNil ==
    {"parseAlterFulltextStatement", "parseAlterPartitionStatement",
     "parseAlterResourceStatement", "parseAlterStatement", "parseAlterTableAction",
     "parseAlterViewStatement", "parseAlterViewStatement.Body", "parseBeginStatement",
     "parseCreateDatabaseOrScopedCredential", "parseCreateFulltextStatement",
     "parseCreatePartitionStatement", "parseCreateStatement", "parseCreateTableStatement",
     "parseCreateViewStatement", "parseCreateViewStatement.Body", "parseDropFulltextStatement",
     "parseDropStatement", "parseGroupingSets", "parseMergeWhenClause", "parseStatement",
     "parseTryCatchStatement", "parseTryCatchStatement.Between", "parseTryCatchStatement.Tried",
     "parseTryCatchStatement.Try"}

(* The points that may find such a nil, or that there was nothing to call. *)
MayGetNil ==
    {"ParseProgram.Statement", "parseAlterFunctionStatement.Parameters",
     "parseAlterProcedureStatement.Parameters", "parseAlterProcedureStatement.Statement",
     "parseAlterTableStatement.Next", "parseBeginEndBlock.Statement",
     "parseCreateFunctionStatement.Parameters", "parseCreateIndexStatement.Where",
     "parseCreateProcedureStatement.Block", "parseCreateProcedureStatement.Parameters",
     "parseCreateProcedureStatement.Statement", "parseDeclareCursorStatement.ForSelect",
     "parseDeleteStatement.Alias", "parseDeleteStatement.End", "parseDeleteStatement.From",
     "parseDeleteStatement.Hints", "parseDeleteStatement.Output", "parseDeleteStatement.Target",
     "parseDeleteStatement.Where", "parseExecStatement.End", "parseExecStatement.ResultSets",
     "parseGroupByItems.Item", "parseIfStatement.Alternative", "parseIfStatement.Consequence",
     "parseInsertStatement.Columns", "parseInsertStatement.End", "parseInsertStatement.Hints",
     "parseInsertStatement.Source", "parseMergeStatement.Clause", "parseMergeStatement.End",
     "parseMergeWhenClause.End", "parseMergeWhenClause.Then", "parseParameterDef.Output",
     "parseSelectStatement.End", "parseSelectStatement.Group", "parseSelectStatement.Having",
     "parseSelectStatement.Offset", "parseSelectStatement.Option", "parseSelectStatement.Order",
     "parseSelectStatement.Union", "parseSelectStatement.Where", "parseSelectStatement.Window",
     "parseTableReference.Sampled",
     "parseTableReference.Timed", "parseTryCatchStatement.Caught",
     "parseTryCatchStatement.Tried", "parseUpdateStatement.End", "parseUpdateStatement.From",
     "parseUpdateStatement.Hints", "parseUpdateStatement.Output", "parseUpdateStatement.Set",
     "parseUpdateStatement.Target", "parseUpdateStatement.Where", "parseWhileStatement.Body",
     "parseWindowDefinitions.Close", "parseWithStatement.Query",
     "parseWithXmlnamespacesStatement.Query"}

(* The points that may hold one among their operands.                      *)
MayHoldNil ==
    {"parseGroupByItems.Item", "parseIfStatement.Alternative", "parseMergeStatement.Alias",
     "parseMergeStatement.Clause", "parseMergeStatement.Condition", "parseMergeStatement.End",
     "parseMergeStatement.On", "parseMergeStatement.When", "parseOptionClause.Binding",
     "parseOptionClause.Close", "parseOptionClause.Hint", "parseOptionClause.Next",
     "parseOptionClause.Number", "parseOptionClause.Value", "parseOptionClause.Valued"}

(* The points that look at the first operand they have collected.          *)
NeedsOperand ==
    {"parseAtTimeZoneExpression", "parseParenthesizedSelectStatement.Set",
     "parseParenthesizedSelectStatement.Right"}

NilHolders == MayHoldNil \cup MayLack

(* Operands are nil or nodes that exist.  As long as no error is reported  *)
(* only the points of MayHoldNil and the nodes of MayLack hold a nil.      *)
Operand(v)      == v \in 0..Len(heap)
Complete(kids)  == \A j \in DOMAIN kids : kids[j] # NIL
Holds(x, kids)  ==
    /\ kids \in Seq(Nat)
    /\ \A j \in DOMAIN kids : kids[j] <= Len(heap)
    /\ errors = <<>> /\ x \notin NilHolders => Complete(kids)

CallsHold    == \A i \in DOMAIN stack : /\ Holds(stack[i].pc, stack[i].kids)
                                        /\ stack[i].pc \in NeedsOperand => stack[i].kids # <<>>
CallersReady == \A i \in DOMAIN stack : i - 1 \in DOMAIN stack /\ stack[i].pc \in MayReturnNil
                                            => stack[i - 1].pc \in MayGetNil
ResultReady  == stack # <<>> /\ Top.pc \in TakesResult =>
                    Operand(ret) /\ (errors = <<>> /\ ret = NIL => Top.pc \in MayGetNil)
NodesHold    == \A n \in DOMAIN heap : Holds(heap[n].kind, heap[n].kids)
(* A node is broken because a node is that lacks a child.                  *)
SomethingLacks == \E n \in DOMAIN heap : ~ Complete(heap[n].kids)
BrokenByLack == /\ (\E n \in DOMAIN heap : ~ heap[n].whole) => SomethingLacks
                /\ errors = <<>> /\ ret = Panicked => SomethingLacks

ProgramInv ==
    /\ MachineTypeOK(ProgramPoints, ProgramKinds, TakesResult)
    /\ CallsHold /\ CallersReady /\ ResultReady /\ NodesHold /\ BrokenByLack
-----------------------------------------------------------------------------
LEMMA AppendFacts ==
    ASSUME NEW S, NEW s \in Seq(S), NEW e \in S
    PROVE  /\ Append(s, e) \in Seq(S) /\ Len(Append(s, e)) = Len(s) + 1
           /\ DOMAIN Append(s, e) = DOMAIN s \cup {Len(s) + 1}
           /\ Append(s, e)[Len(s) + 1] = e
           /\ \A i \in DOMAIN s : Append(s, e)[i] = s[i]
OBVIOUS

LEMMA FrontFacts ==
    ASSUME NEW S, NEW s \in Seq(S), s # <<>>
    PROVE  /\ SubSeq(s, 1, Len(s) - 1) \in Seq(S) /\ Len(SubSeq(s, 1, Len(s) - 1)) = Len(s) - 1
           /\ \A i \in DOMAIN SubSeq(s, 1, Len(s) - 1) : i \in DOMAIN s /\ SubSeq(s, 1, Len(s) - 1)[i] = s[i]
OBVIOUS
-----------------------------------------------------------------------------
(* The call at the top, and what it holds.                                 *)
LEMMA AtTop ==
    ASSUME ProgramInv, stack # <<>>
    PROVE  /\ input \in Seq(Tokens)
           /\ Top \in Frames(ProgramPoints) /\ Len(stack) \in DOMAIN stack
           /\ stack \in Seq(Frames(ProgramPoints))
           /\ pos \in Nat /\ Top.at \in Nat /\ Top.prec \in Nat /\ Top.lo \in Nat
           /\ Top.pc \in ProgramPoints
           /\ Holds(Top.pc, Top.kids)
           /\ Top.pc \in NeedsOperand => Top.kids # <<>>
           /\ heap \in Seq(Nodes(ProgramKinds)) /\ Len(heap) \in Nat /\ errors \in Seq(Nat)
<1>1. stack \in Seq(Frames(ProgramPoints)) /\ Len(stack) \in DOMAIN stack
  BY DEF ProgramInv, MachineTypeOK
<1>2. Top \in Frames(ProgramPoints)
  BY <1>1 DEF Top
<1>3. Holds(Top.pc, Top.kids) /\ (Top.pc \in NeedsOperand => Top.kids # <<>>)
  BY <1>1 DEF ProgramInv, CallsHold, Top
<1>4. input \in Seq(Tokens) /\ pos \in Nat /\ heap \in Seq(Nodes(ProgramKinds)) /\ Len(heap) \in Nat /\ errors \in Seq(Nat)
  BY DEF ProgramInv, MachineTypeOK
<1> QED BY <1>1, <1>2, <1>3, <1>4 DEF Frames

LEMMA NoneHeld == \A x : Holds(x, <<>>)
<1>1. <<>> \in Seq(Nat) /\ DOMAIN <<>> = {}
  OBVIOUS
<1> QED BY <1>1 DEF Holds, Complete

LEMMA NilHeld == \A x : x \in NilHolders => Holds(x, <<NIL>>) /\ Holds(x, <<NIL, NIL>>)
<1>1. <<0>> \in Seq(Nat) /\ <<0, 0>> \in Seq(Nat) /\ DOMAIN <<0>> = {1} /\ DOMAIN <<0, 0>> = {1, 2}
  OBVIOUS
<1>2. heap \in Seq(Nodes(ProgramKinds)) => Len(heap) \in Nat
  OBVIOUS
<1> QED BY <1>1, <1>2 DEF Holds, NIL

(* What the call at the top holds may go where it is expected.             *)
LEMMA TopHeld ==
    ASSUME ProgramInv, stack # <<>>
    PROVE  \A x, kids : kids = Top.kids /\ (x \notin NilHolders => Top.pc \notin NilHolders)
                           => Holds(x, kids)
<1>1. Holds(Top.pc, Top.kids)
  BY AtTop
<1> QED BY <1>1 DEF Holds
-----------------------------------------------------------------------------
(* What is held stays held while the heap grows and errors are added.      *)
Onward == Len(heap) <= Len(heap)' /\ (errors' = <<>> => errors = <<>>)

LEMMA HeldStays ==
    ASSUME ProgramInv, Onward, heap' \in Seq(Nodes(ProgramKinds)), NEW x, NEW kids, Holds(x, kids)
    PROVE  Holds(x, kids)'
<1>1. Len(heap) \in Nat /\ Len(heap') \in Nat
  BY DEF ProgramInv, MachineTypeOK
<1>2. \A j \in DOMAIN kids : kids[j] \in Nat
  BY DEF Holds
<1> QED BY <1>1, <1>2 DEF Holds, Onward, Complete

LEMMA Replaced ==
    ASSUME ProgramInv, stack # <<>>, Onward, heap' \in Seq(Nodes(ProgramKinds)),
           NEW frame \in Frames(ProgramPoints), Holds(frame.pc, frame.kids)',
           frame.pc \in NeedsOperand => frame.kids # <<>>,
           frame.pc \in MayReturnNil => Top.pc \in MayReturnNil,
           stack' = [stack EXCEPT ![Len(stack)] = frame]
    PROVE  /\ stack' \in Seq(Frames(ProgramPoints)) /\ stack' # <<>> /\ Top' = frame
           /\ CallsHold' /\ CallersReady'
<1>1. stack \in Seq(Frames(ProgramPoints)) /\ Len(stack) \in DOMAIN stack
  BY AtTop
<1>2. /\ stack' \in Seq(Frames(ProgramPoints)) /\ DOMAIN stack' = DOMAIN stack
      /\ stack'[Len(stack)] = frame
      /\ \A i \in DOMAIN stack : i # Len(stack) => stack'[i] = stack[i]
  BY <1>1
<1>3. stack' # <<>> /\ Top' = frame
  BY <1>1, <1>2 DEF Top
<1>4. CallsHold'
  <2>1. ASSUME NEW i \in DOMAIN stack, i # Len(stack)
        PROVE  Holds(stack[i].pc, stack[i].kids)' /\ (stack[i].pc \in NeedsOperand => stack[i].kids # <<>>)'
    <3>1. Holds(stack[i].pc, stack[i].kids) /\ (stack[i].pc \in NeedsOperand => stack[i].kids # <<>>)
      BY DEF ProgramInv, CallsHold
    <3>2. stack'[i] = stack[i]
      BY <1>2, <2>1
    <3> DEFINE pc == stack[i].pc
               kids == stack[i].kids
    <3>3. Holds(pc, kids)
      BY <3>1
    <3> QED BY <3>1, <3>2, HeldStays
  <2> QED BY <1>2, <2>1 DEF CallsHold
<1>5. CallersReady'
  BY <1>1, <1>2 DEF CallersReady, ProgramInv, Top
<1> QED BY <1>2, <1>3, <1>4, <1>5

LEMMA Pushed ==
    ASSUME ProgramInv, stack # <<>>, Onward, heap' \in Seq(Nodes(ProgramKinds)),
           NEW caller \in Frames(ProgramPoints), Holds(caller.pc, caller.kids)',
           caller.pc \in NeedsOperand => caller.kids # <<>>,
           caller.pc \in MayReturnNil => Top.pc \in MayReturnNil,
           NEW callee \in Frames(ProgramPoints), Holds(callee.pc, callee.kids)',
           callee.pc \in NeedsOperand => callee.kids # <<>>,
           callee.pc \in MayReturnNil => caller.pc \in MayGetNil,
           stack' = Append([stack EXCEPT ![Len(stack)] = caller], callee)
    PROVE  /\ stack' \in Seq(Frames(ProgramPoints)) /\ stack' # <<>> /\ Top' = callee
           /\ CallsHold' /\ CallersReady'
<1>1. stack \in Seq(Frames(ProgramPoints)) /\ Len(stack) \in DOMAIN stack
  BY AtTop
<1> DEFINE below == [stack EXCEPT ![Len(stack)] = caller]
<1>2. /\ below \in Seq(Frames(ProgramPoints)) /\ DOMAIN below = DOMAIN stack
      /\ Len(below) = Len(stack)
      /\ below[Len(stack)] = caller
      /\ \A i \in DOMAIN stack : i # Len(stack) => below[i] = stack[i]
  BY <1>1
<1>3. stack' = Append(below, callee)
  OBVIOUS
<1> HIDE DEF below
<1>4. /\ stack' \in Seq(Frames(ProgramPoints)) /\ Len(stack') = Len(stack) + 1
      /\ DOMAIN stack' = DOMAIN stack \cup {Len(stack) + 1}
      /\ stack'[Len(stack) + 1] = callee /\ stack'[Len(stack)] = caller
      /\ \A i \in DOMAIN stack : i # Len(stack) => stack'[i] = stack[i]
  <2>1. below \in Seq(Frames(ProgramPoints)) /\ Len(stack) \in DOMAIN below
    BY <1>1, <1>2
  <2>2. /\ Append(below, callee) \in Seq(Frames(ProgramPoints))
        /\ Len(Append(below, callee)) = Len(below) + 1
        /\ DOMAIN Append(below, callee) = DOMAIN below \cup {Len(below) + 1}
        /\ Append(below, callee)[Len(below) + 1] = callee
        /\ \A i \in DOMAIN below : Append(below, callee)[i] = below[i]
    BY <2>1, AppendFacts
  <2> QED BY <1>1, <1>2, <1>3, <2>1, <2>2
<1>5. stack' # <<>> /\ Top' = callee
  BY <1>1, <1>4 DEF Top
<1>6. CallsHold'
  <2>1. ASSUME NEW i \in DOMAIN stack, i # Len(stack)
        PROVE  Holds(stack[i].pc, stack[i].kids)' /\ (stack[i].pc \in NeedsOperand => stack[i].kids # <<>>)'
    <3>1. Holds(stack[i].pc, stack[i].kids) /\ (stack[i].pc \in NeedsOperand => stack[i].kids # <<>>)
      BY DEF ProgramInv, CallsHold
    <3>2. stack'[i] = stack[i]
      BY <1>4, <2>1
    <3> QED BY <3>1, <3>2, HeldStays
  <2> QED BY <1>4, <2>1 DEF CallsHold
<1>7. CallersReady'
  <2>1. CallersReady
    BY DEF ProgramInv
  <2> QED BY <1>1, <1>4, <2>1 DEF CallersReady, Top
<1> QED BY <1>4, <1>5, <1>6, <1>7

LEMMA Popped ==
    ASSUME ProgramInv, stack # <<>>, Onward, heap' \in Seq(Nodes(ProgramKinds)), Pop
    PROVE  /\ stack' \in Seq(Frames(ProgramPoints))
           /\ CallsHold' /\ CallersReady'
           /\ stack' # <<>> /\ Top.pc \in MayReturnNil => Top'.pc \in MayGetNil
<1>1. stack \in Seq(Frames(ProgramPoints)) /\ Len(stack) \in DOMAIN stack
  BY AtTop
<1>2. /\ stack' \in Seq(Frames(ProgramPoints)) /\ Len(stack') = Len(stack) - 1
      /\ \A i \in DOMAIN stack' : i \in DOMAIN stack /\ stack'[i] = stack[i]
  BY <1>1, FrontFacts DEF Pop
<1>3. CallsHold'
  <2>1. ASSUME NEW i \in DOMAIN stack'
        PROVE  Holds(stack[i].pc, stack[i].kids)' /\ (stack[i].pc \in NeedsOperand => stack[i].kids # <<>>)'
    <3>1. i \in DOMAIN stack /\ stack'[i] = stack[i]
      BY <1>2, <2>1
    <3>2. Holds(stack[i].pc, stack[i].kids) /\ (stack[i].pc \in NeedsOperand => stack[i].kids # <<>>)
      BY <3>1 DEF ProgramInv, CallsHold
    <3> QED BY <3>1, <3>2, HeldStays
  <2> QED BY <2>1 DEF CallsHold
<1>4. CallersReady
  BY DEF ProgramInv
<1>5. CallersReady'
  BY <1>1, <1>2, <1>4 DEF CallersReady
<1>6. stack' # <<>> /\ Top.pc \in MayReturnNil => Top'.pc \in MayGetNil
  BY <1>1, <1>2, <1>4 DEF CallersReady, Top
<1> QED BY <1>2, <1>3, <1>5, <1>6

(* The heap stays as it is, or one node more is made.                      *)
LEMMA NodesStay ==
    ASSUME ProgramInv, heap' = heap, errors' = <<>> => errors = <<>>
    PROVE  /\ Onward /\ heap' \in Seq(Nodes(ProgramKinds)) /\ NodesHold'
           /\ (\E n \in DOMAIN heap : ~ heap[n].whole)' => SomethingLacks'
           /\ SomethingLacks => SomethingLacks'
<1>1. heap \in Seq(Nodes(ProgramKinds)) /\ Len(heap) \in Nat
  BY DEF ProgramInv, MachineTypeOK
<1>2. Onward
  BY <1>1 DEF Onward
<1>3. NodesHold'
  BY DEF ProgramInv, NodesHold, Holds, Complete
<1>4. SomethingLacks' = SomethingLacks
  BY DEF SomethingLacks, Complete
<1>5. (\E n \in DOMAIN heap : ~ heap[n].whole) => SomethingLacks
  BY DEF ProgramInv, BrokenByLack
<1> QED BY <1>1, <1>2, <1>3, <1>4, <1>5

LEMMA NodeAdded ==
    ASSUME ProgramInv, stack # <<>>, NEW kind \in ProgramKinds, NEW at \in Nat, NEW hi \in Nat,
           NEW kids, Holds(kind, kids), heap' = Append(heap, Node(kind, at, kids, hi)),
           errors' = <<>> => errors = <<>>
    PROVE  /\ Onward /\ heap' \in Seq(Nodes(ProgramKinds)) /\ NodesHold'
           /\ Len(heap') = Len(heap) + 1
           /\ (\E n \in DOMAIN heap : ~ heap[n].whole)' => SomethingLacks'
           /\ SomethingLacks => SomethingLacks'
<1> DEFINE node == Node(kind, at, kids, hi)
<1>1. heap \in Seq(Nodes(ProgramKinds)) /\ Len(heap) \in Nat
  BY AtTop
<1>2. kids \in Seq(Nat) /\ \A j \in DOMAIN kids : kids[j] \in Nat /\ kids[j] <= Len(heap)
  BY DEF Holds
<1>3. node \in Nodes(ProgramKinds) /\ node.kind = kind /\ node.kids = kids /\ node.whole = Whole(kids)
  <2>1. Whole(kids) \in BOOLEAN
    BY DEF Whole
  <2>2. Top.lo \in Nat
    BY AtTop
  <2> QED BY <1>2, <2>1, <2>2 DEF Node, Nodes
<1> HIDE DEF node
<1>4. heap' = Append(heap, node)
  BY DEF node
<1>5. /\ heap' \in Seq(Nodes(ProgramKinds)) /\ Len(heap') = Len(heap) + 1
      /\ DOMAIN heap' = DOMAIN heap \cup {Len(heap) + 1}
      /\ heap'[Len(heap) + 1] = node
      /\ \A n \in DOMAIN heap : heap'[n] = heap[n]
  BY <1>1, <1>3, <1>4
<1>6. Onward
  BY <1>1, <1>5 DEF Onward
<1>7. Holds(kind, kids)'
  BY <1>5, <1>6, HeldStays
<1>8. NodesHold'
  <2>1. ASSUME NEW n \in DOMAIN heap PROVE Holds(heap[n].kind, heap[n].kids)'
    <3>1. Holds(heap[n].kind, heap[n].kids)
      BY DEF ProgramInv, NodesHold
    <3>2. heap'[n] = heap[n]
      BY <1>5
    <3> QED BY <1>5, <1>6, <3>1, <3>2, HeldStays
  <2> QED BY <1>3, <1>5, <1>7, <2>1 DEF NodesHold
<1>9. SomethingLacks => SomethingLacks'
  BY <1>5 DEF SomethingLacks, Complete
<1>10. ASSUME ~ Whole(kids) PROVE SomethingLacks'
  <2>1. PICK j \in DOMAIN kids : ~ (kids[j] # NIL /\ heap[kids[j]].whole)
    BY <1>10 DEF Whole
  <2>2. CASE kids[j] = NIL
    <3>1. ~ Complete(node.kids)
      BY <1>3, <2>2 DEF Complete
    <3> QED BY <1>5, <3>1 DEF SomethingLacks, Complete
  <2>3. CASE kids[j] # NIL
    <3>1. kids[j] \in DOMAIN heap
      BY <1>1, <1>2, <2>3 DEF NIL
    <3> QED BY <1>9, <2>1, <2>3, <3>1 DEF ProgramInv, BrokenByLack
  <2> QED BY <2>2, <2>3
<1>11. (\E n \in DOMAIN heap : ~ heap[n].whole)' => SomethingLacks'
  BY <1>3, <1>5, <1>9, <1>10 DEF ProgramInv, BrokenByLack
<1> QED BY <1>5, <1>6, <1>8, <1>9, <1>11
-----------------------------------------------------------------------------
(* What the call at the top and the result it has found make of operands.  *)
LEMMA ResultFound ==
    ASSUME ProgramInv, stack # <<>>, Top.pc \in TakesResult
    PROVE  /\ ret \in Nat /\ ret <= Len(heap)
           /\ errors = <<>> /\ ret = NIL => Top.pc \in MayGetNil
BY AtTop DEF ProgramInv, ResultReady, Operand

LEMMA GotHeld ==
    ASSUME ProgramInv, stack # <<>>, Top.pc \in TakesResult
    PROVE  /\ \A x : (x \notin NilHolders => Top.pc \notin NilHolders /\ (ret # NIL \/ Top.pc \notin MayGetNil))
                        => Holds(x, Got)
           /\ \A x : (x \notin NilHolders => Top.pc \notin NilHolders) => Holds(x, GotIfAny)
           /\ Got # <<>>
<1>1. Holds(Top.pc, Top.kids) /\ ret \in Nat /\ ret <= Len(heap) /\ Len(heap) \in Nat
  BY AtTop, ResultFound
<1>2. Top.kids \in Seq(Nat)
  BY <1>1 DEF Holds
<1>3. /\ Got \in Seq(Nat) /\ DOMAIN Got = DOMAIN Top.kids \cup {Len(Top.kids) + 1}
      /\ Got[Len(Top.kids) + 1] = ret /\ Got # <<>>
      /\ \A j \in DOMAIN Top.kids : Got[j] = Top.kids[j]
  BY <1>1, <1>2 DEF Got
<1>4. \A j \in DOMAIN Got : Got[j] <= Len(heap)
  BY <1>1, <1>3 DEF Holds
<1>5. Complete(Top.kids) /\ ret # NIL => Complete(Got)
  BY <1>3 DEF Complete
<1>6. errors = <<>> /\ ret = NIL => Top.pc \in MayGetNil
  BY ResultFound
<1>7. errors = <<>> /\ Top.pc \notin NilHolders => Complete(Top.kids)
  BY <1>1 DEF Holds
<1>8. ASSUME NEW x, x \notin NilHolders => Top.pc \notin NilHolders /\ (ret # NIL \/ Top.pc \notin MayGetNil)
      PROVE  Holds(x, Got)
  BY <1>3, <1>4, <1>5, <1>6, <1>7, <1>8 DEF Holds
<1>9. ASSUME NEW x, x \notin NilHolders => Top.pc \notin NilHolders
      PROVE  Holds(x, GotIfAny)
  BY <1>2, <1>3, <1>4, <1>5, <1>7, <1>9, TopHeld DEF Holds, GotIfAny
<1> QED BY <1>3, <1>8, <1>9

LEMMA NilAppended ==
    ASSUME ProgramInv, NEW kids, NEW y, Holds(y, kids), NEW x \in NilHolders
    PROVE  Holds(x, Append(kids, NIL))
<1>1. kids \in Seq(Nat) /\ Len(heap) \in Nat
  BY DEF Holds, ProgramInv, MachineTypeOK
<1>2. /\ Append(kids, 0) \in Seq(Nat)
      /\ DOMAIN Append(kids, 0) = DOMAIN kids \cup {Len(kids) + 1}
      /\ Append(kids, 0)[Len(kids) + 1] = 0
      /\ \A j \in DOMAIN kids : Append(kids, 0)[j] = kids[j]
  BY <1>1, AppendFacts
<1> QED BY <1>1, <1>2 DEF Holds, NIL
-----------------------------------------------------------------------------
(* The helpers of ParserMachine keep the invariant.  A point gets its      *)
(* result from the point in front of it or from a call.                    *)
Resumes(q) == /\ q \in ProgramPoints /\ q \notin NeedsOperand
              /\ q \in MayReturnNil => Top.pc \in MayReturnNil
Passes(q)  == q \in TakesResult =>
                 /\ Top.pc \in TakesResult
                 /\ Top.pc \in MayGetNil /\ ret = NIL => q \in MayGetNil
Calls(q, fn) == /\ fn \in ProgramPoints /\ fn \notin TakesResult /\ fn \notin NeedsOperand
                /\ fn \in MayReturnNil => q \in MayGetNil

LEMMA ErrorsGrow ==
    ASSUME errors \in Seq(Nat),
           errors' = errors \/ \E e \in Nat : errors' = Append(errors, e)
    PROVE  errors' \in Seq(Nat) /\ (errors' = <<>> => errors = <<>>)
<1>1. CASE errors' = errors
  BY <1>1
<1>2. ASSUME NEW e \in Nat, errors' = Append(errors, e)
      PROVE  errors' \in Seq(Nat) /\ errors' # <<>>
  BY <1>2
<1> QED BY <1>1, <1>2

LEMMA MoveKeeps ==
    ASSUME ProgramInv, stack # <<>>,
           NEW q, q \in ProgramPoints,
           q \in MayReturnNil => Top.pc \in MayReturnNil, Passes(q),
           NEW at \in Nat, NEW kids, Holds(q, kids), q \in NeedsOperand => kids # <<>>,
           stack' = [stack EXCEPT ![Len(stack)] = Frame(q, Top.prec, at, Top.lo, kids)],
           pos' \in Nat, UNCHANGED <<input, ret, heap>>,
           errors' = errors \/ \E e \in Nat : errors' = Append(errors, e)
    PROVE  ProgramInv'
<1> DEFINE frame == Frame(q, Top.prec, at, Top.lo, kids)
<1>1. /\ stack \in Seq(Frames(ProgramPoints)) /\ Top \in Frames(ProgramPoints)
      /\ errors \in Seq(Nat)
      /\ Top.prec \in Nat /\ Top.lo \in Nat
  BY AtTop
<1>2. frame \in Frames(ProgramPoints) /\ frame.pc = q /\ frame.kids = kids
  <2>1. kids \in Seq(Nat)
    BY DEF Holds
  <2> QED BY <1>1, <2>1 DEF Frame, Frames
<1>3. errors' \in Seq(Nat) /\ (errors' = <<>> => errors = <<>>)
  BY <1>1, ErrorsGrow
<1>4. /\ Onward /\ heap' \in Seq(Nodes(ProgramKinds)) /\ NodesHold'
      /\ (\E n \in DOMAIN heap : ~ heap[n].whole)' => SomethingLacks'
      /\ SomethingLacks => SomethingLacks'
  BY <1>3, NodesStay
<1> HIDE DEF frame
<1>5. Holds(q, kids)'
  BY <1>4, HeldStays
<1>6. stack' = [stack EXCEPT ![Len(stack)] = frame]
  BY DEF frame
<1>7. stack' \in Seq(Frames(ProgramPoints)) /\ stack' # <<>> /\ Top' = frame /\ CallsHold' /\ CallersReady'
  BY <1>2, <1>4, <1>5, <1>6, Replaced
<1>8. MachineTypeOK(ProgramPoints, ProgramKinds, TakesResult)'
  <2>1. Top'.pc \in TakesResult => ret' \in Nat
    BY <1>2, <1>7, ResultFound DEF Passes
  <2> QED BY <1>3, <1>4, <1>7, <2>1 DEF ProgramInv, MachineTypeOK
<1>9. ResultReady'
  <2>1. ASSUME q \in TakesResult
        PROVE  Operand(ret) /\ (errors = <<>> /\ ret = NIL => q \in MayGetNil)
    BY <2>1, ResultFound DEF Passes, Operand
  <2> QED BY <1>2, <1>3, <1>7, <2>1 DEF ResultReady, Operand
<1>10. BrokenByLack'
  BY <1>3, <1>4 DEF BrokenByLack, ProgramInv
<1> QED BY <1>4, <1>7, <1>8, <1>9, <1>10 DEF ProgramInv
(* What the points are like: where a function begins nothing is held,      *)
(* returned or found; another takes a result; that may be a nil; or it may *)
(* leave with a nil.                                                       *)
Ordinary(x) == x \in ProgramPoints /\ x \notin NeedsOperand /\ x \notin NilHolders
Begins(x) == Ordinary(x) /\ x \notin TakesResult /\ x \notin MayReturnNil
Takes(x)  == Ordinary(x) /\ x \in TakesResult /\ x \notin MayReturnNil /\ x \notin MayGetNil
Gets(x)   == Ordinary(x) /\ x \in TakesResult /\ x \notin MayReturnNil /\ x \in MayGetNil
Leaves(x) == Ordinary(x) /\ x \notin TakesResult /\ x \in MayReturnNil
(* The points that may hold a nil already, likewise.                       *)
Holder(x)    == /\ x \in ProgramPoints /\ x \notin NeedsOperand /\ x \in NilHolders
                /\ x \notin MayReturnNil
Keeps(x)     == Holder(x) /\ x \notin TakesResult
TakesMore(x) == Holder(x) /\ x \in TakesResult /\ x \notin MayGetNil
GetsMore(x)  == Holder(x) /\ x \in TakesResult /\ x \in MayGetNil

LEMMA ContinueKeeps ==
    ASSUME ProgramInv, stack # <<>>, NEW k, NEW q, NEW kids, Continue(k, q, kids),
           pos + k \in Nat, Resumes(q), Passes(q), Holds(q, kids)
    PROVE  ProgramInv'
<1>1. stack' = [stack EXCEPT ![Len(stack)] = Frame(q, Top.prec, Top.at, Top.lo, kids)]
  BY DEF Continue, Resume
<1>2. pos' \in Nat /\ UNCHANGED <<input, ret, heap, errors>> /\ Top.at \in Nat
  BY AtTop DEF Continue
<1> QED BY <1>1, <1>2, MoveKeeps DEF Resumes

LEMMA ComplainKeeps ==
    ASSUME ProgramInv, stack # <<>>, NEW e, NEW k, NEW q, NEW kids, Complain(e, k, q, kids),
           pos + e \in Nat, pos + k \in Nat, Resumes(q), Passes(q), Holds(q, kids)
    PROVE  ProgramInv'
<1>1. stack' = [stack EXCEPT ![Len(stack)] = Frame(q, Top.prec, Top.at, Top.lo, kids)]
  BY DEF Complain, Resume
<1>2. /\ pos' \in Nat /\ UNCHANGED <<input, ret, heap>> /\ Top.at \in Nat
      /\ \E m \in Nat : errors' = Append(errors, m)
  BY AtTop DEF Complain
<1> QED BY <1>1, <1>2, MoveKeeps DEF Resumes

LEMMA ExpectKeeps ==
    ASSUME ProgramInv, stack # <<>>, NEW t, NEW k, NEW q, NEW kids, Expect(t, k, q, kids),
           k \in Int, pos + k \in Nat, Resumes(q), Passes(q), Holds(q, kids)
    PROVE  ProgramInv'
<1>1. pos + (k + 1) \in Nat
  BY AtTop
<1>2. CASE Continue(k + 1, q, kids)
  BY <1>1, <1>2, ContinueKeeps
<1>3. CASE Complain(k + 1, k, q, kids)
  BY <1>1, <1>3, ComplainKeeps
<1> QED BY <1>2, <1>3 DEF Expect

(* The rest of a call is another function's.                               *)
Hands(fn) == /\ fn \in ProgramPoints /\ fn \notin TakesResult
             /\ fn \in NeedsOperand => Top.pc \in NeedsOperand
             /\ fn \in MayReturnNil => Top.pc \in MayReturnNil
             /\ fn \notin NilHolders => Top.pc \notin NilHolders

LEMMA TailCallKeeps ==
    ASSUME ProgramInv, stack # <<>>, NEW k, NEW fn, TailCall(k, fn), pos + k \in Nat,
           Hands(fn)
    PROVE  ProgramInv'
<1>1. Holds(fn, Top.kids) /\ (fn \in NeedsOperand => Top.kids # <<>>)
  BY TopHeld, AtTop DEF Hands
<1>2. /\ stack' = [stack EXCEPT ![Len(stack)] = Frame(fn, Top.prec, pos + k, Top.lo, Top.kids)]
      /\ pos' \in Nat /\ UNCHANGED <<input, ret, heap, errors>>
  BY DEF TailCall
<1> QED BY <1>1, <1>2, MoveKeeps DEF Hands, Passes

LEMMA HandOnKeeps ==
    ASSUME ProgramInv, stack # <<>>, NEW k, NEW fn, HandOn(k, fn), pos + k \in Nat, Hands(fn)
    PROVE  ProgramInv'
<1>1. Holds(fn, Top.kids) /\ (fn \in NeedsOperand => Top.kids # <<>>)
  BY TopHeld, AtTop DEF Hands
<1>2. /\ stack' = [stack EXCEPT ![Len(stack)] = Frame(fn, Top.prec, Top.at, Top.lo, Top.kids)]
      /\ pos' \in Nat /\ UNCHANGED <<input, ret, heap, errors>> /\ Top.at \in Nat
  BY AtTop DEF HandOn
<1> QED BY <1>1, <1>2, MoveKeeps DEF Hands, Passes

(* There is nothing to call: the result is nil.                            *)
LEMMA SkippedKeeps ==
    ASSUME ProgramInv, stack # <<>>, pos' \in Nat, NEW q, Resumes(q), NEW kids, Holds(q, kids),
           stack' = Resume(q, kids), ret' = NIL, UNCHANGED <<input, heap>>,
           errors' = errors \/ \E e \in Nat : errors' = Append(errors, e),
           errors' = <<>> => q \in MayGetNil
    PROVE  ProgramInv'
<1> DEFINE frame == Frame(q, Top.prec, Top.at, Top.lo, kids)
<1>1. errors' \in Seq(Nat) /\ (errors' = <<>> => errors = <<>>)
  BY AtTop, ErrorsGrow
<1>2. frame \in Frames(ProgramPoints) /\ frame.pc = q /\ frame.kids = kids
  <2>1. kids \in Seq(Nat)
    BY DEF Holds
  <2> QED BY <2>1, AtTop DEF Frame, Frames, Resumes
<1>3. /\ Onward /\ heap' \in Seq(Nodes(ProgramKinds)) /\ NodesHold'
      /\ (\E n \in DOMAIN heap : ~ heap[n].whole)' => SomethingLacks'
      /\ SomethingLacks => SomethingLacks'
  BY <1>1, NodesStay
<1>4. stack' = [stack EXCEPT ![Len(stack)] = frame]
  BY DEF Resume
<1> HIDE DEF frame
<1>5. Holds(q, kids)'
  BY <1>3, HeldStays
<1>6. stack' \in Seq(Frames(ProgramPoints)) /\ stack' # <<>> /\ Top' = frame /\ CallsHold' /\ CallersReady'
  BY <1>2, <1>3, <1>4, <1>5, Replaced DEF Resumes
<1>7. ret' \in 0..Len(heap') /\ ret' \in Nat
  BY AtTop DEF NIL
<1>8. MachineTypeOK(ProgramPoints, ProgramKinds, TakesResult)'
  BY <1>1, <1>3, <1>6, <1>7 DEF ProgramInv, MachineTypeOK
<1>9. ResultReady'
  BY <1>2, <1>6, <1>7 DEF ResultReady, Operand
<1>10. BrokenByLack'
  BY <1>3 DEF BrokenByLack, NIL, Panicked
<1> QED BY <1>3, <1>6, <1>8, <1>9, <1>10 DEF ProgramInv

LEMMA SkipKeeps ==
    ASSUME ProgramInv, stack # <<>>, NEW k, NEW q, NEW kids, Skip(k, q, kids),
           pos + k \in Nat, Resumes(q), q \in MayGetNil, Holds(q, kids)
    PROVE  ProgramInv'
BY SkippedKeeps DEF Skip

LEMMA SkipComplainingKeeps ==
    ASSUME ProgramInv, stack # <<>>, NEW e, NEW k, NEW q, NEW kids,
           SkipComplaining(e, k, q, kids), pos + e \in Nat, pos + k \in Nat, Resumes(q),
           Holds(q, kids)
    PROVE  ProgramInv'
<1>1. errors \in Seq(Nat)
  BY AtTop
<1>2. errors' = Append(errors, pos + e)
  BY DEF SkipComplaining
<1>3. errors' # <<>>
  BY <1>1, <1>2
<1>4. stack' = Resume(q, kids) /\ pos' \in Nat /\ ret' = NIL /\ UNCHANGED <<input, heap>>
  BY DEF SkipComplaining
<1> QED BY <1>2, <1>3, <1>4, SkippedKeeps
-----------------------------------------------------------------------------
LEMMA CallHoldingKeeps ==
    ASSUME ProgramInv, stack # <<>>, NEW k, NEW q, NEW kids, NEW callee,
           CallFrame(k, q, kids, callee), pos + k \in Nat, q \in ProgramPoints,
           q \in NeedsOperand => kids # <<>>, q \in MayReturnNil => Top.pc \in MayReturnNil,
           Holds(q, kids),
           callee \in Frames(ProgramPoints), callee.pc \notin TakesResult,
           callee.pc \in NeedsOperand => callee.kids # <<>>,
           callee.pc \in MayReturnNil => q \in MayGetNil, Holds(callee.pc, callee.kids)
    PROVE  ProgramInv'
<1> DEFINE caller == Frame(q, Top.prec, Top.at, Top.lo, kids)
<1>1. caller \in Frames(ProgramPoints) /\ caller.pc = q /\ caller.kids = kids
  <2>1. kids \in Seq(Nat)
    BY DEF Holds
  <2> QED BY <2>1, AtTop DEF Frame, Frames
<1>2. /\ stack' = Append([stack EXCEPT ![Len(stack)] = caller], callee)
      /\ pos' \in Nat /\ UNCHANGED <<input, ret, heap, errors>>
  BY DEF CallFrame, Resume
<1> HIDE DEF caller
<1>3. /\ Onward /\ heap' \in Seq(Nodes(ProgramKinds)) /\ NodesHold'
      /\ (\E n \in DOMAIN heap : ~ heap[n].whole)' => SomethingLacks'
      /\ SomethingLacks => SomethingLacks'
  BY <1>2, NodesStay
<1>4. Holds(q, kids)' 
  BY <1>3, HeldStays
<1>5. Holds(callee.pc, callee.kids)'
  <2> DEFINE fn == callee.pc
             held == callee.kids
  <2>1. Holds(fn, held)
    OBVIOUS
  <2> QED BY <1>3, <2>1, HeldStays
<1>6. stack' \in Seq(Frames(ProgramPoints)) /\ stack' # <<>> /\ Top' = callee /\ CallsHold' /\ CallersReady'
  BY <1>1, <1>2, <1>3, <1>4, <1>5, Pushed
<1>7. MachineTypeOK(ProgramPoints, ProgramKinds, TakesResult)'
  BY <1>2, <1>3, <1>6 DEF ProgramInv, MachineTypeOK
<1>8. ResultReady'
  BY <1>6 DEF ResultReady
<1>9. BrokenByLack'
  BY <1>2, <1>3 DEF BrokenByLack, ProgramInv
<1> QED BY <1>3, <1>6, <1>7, <1>8, <1>9 DEF ProgramInv

LEMMA CallFrameKeeps ==
    ASSUME ProgramInv, stack # <<>>, NEW k, NEW q, NEW kids, NEW callee,
           CallFrame(k, q, kids, callee), pos + k \in Nat, Resumes(q), Holds(q, kids),
           callee \in Frames(ProgramPoints), callee.pc \notin TakesResult,
           callee.pc \in NeedsOperand => callee.kids # <<>>,
           callee.pc \in MayReturnNil => q \in MayGetNil, Holds(callee.pc, callee.kids)
    PROVE  ProgramInv'
BY CallHoldingKeeps DEF Resumes

LEMMA NewCall ==
    ASSUME ProgramInv, NEW prec \in Nat, NEW i \in Nat, NEW q, NEW fn, Calls(q, fn)
    PROVE  LET callee == Frame(fn, prec, i, i, <<>>) IN
           /\ callee \in Frames(ProgramPoints) /\ callee.pc \notin TakesResult
           /\ callee.pc \notin NeedsOperand
           /\ callee.pc \in MayReturnNil => q \in MayGetNil
           /\ Holds(callee.pc, callee.kids)
<1>1. <<>> \in Seq(Nat)
  OBVIOUS
<1>2. Holds(fn, <<>>)
  BY NoneHeld
<1> QED BY <1>1, <1>2 DEF Frame, Frames, Calls

LEMMA CallKeeps ==
    ASSUME ProgramInv, stack # <<>>, NEW k, NEW q, NEW kids, NEW fn, Call(k, q, kids, fn),
           pos + k \in Nat, Resumes(q), Holds(q, kids), Calls(q, fn)
    PROVE  ProgramInv'
<1> DEFINE callee == Frame(fn, 0, pos + k, pos + k, <<>>)
<1>1. /\ callee \in Frames(ProgramPoints) /\ callee.pc \notin TakesResult
      /\ callee.pc \notin NeedsOperand
      /\ callee.pc \in MayReturnNil => q \in MayGetNil
      /\ Holds(callee.pc, callee.kids)
  BY NewCall
<1>2. CallFrame(k, q, kids, callee)
  BY DEF Call
<1> HIDE DEF callee
<1> QED BY <1>1, <1>2, CallFrameKeeps

LEMMA CallExpressionKeeps ==
    ASSUME ProgramInv, stack # <<>>, NEW k, NEW q, NEW kids, NEW prec,
           CallExpression(k, q, kids, prec), pos + k \in Nat, Resumes(q), Holds(q, kids),
           prec \in Nat, Calls(q, "parseExpression")
    PROVE  ProgramInv'
<1> DEFINE callee == Frame("parseExpression", prec, pos + k, pos + k, <<>>)
<1>1. /\ callee \in Frames(ProgramPoints) /\ callee.pc \notin TakesResult
      /\ callee.pc \notin NeedsOperand
      /\ callee.pc \in MayReturnNil => q \in MayGetNil
      /\ Holds(callee.pc, callee.kids)
  BY NewCall
<1>2. CallFrame(k, q, kids, callee)
  BY DEF CallExpression
<1> HIDE DEF callee
<1> QED BY <1>1, <1>2, CallFrameKeeps

LEMMA CallIfKeeps ==
    ASSUME ProgramInv, stack # <<>>, NEW cond, NEW k, NEW q, NEW kids, NEW fn,
           CallIf(cond, k, q, kids, fn), pos + k \in Nat, Resumes(q), q \in MayGetNil,
           Holds(q, kids), Calls(q, fn)
    PROVE  ProgramInv'
<1> DEFINE callee == Frame(fn, LOWEST, pos + k, pos + k, <<>>)
<1>1. /\ callee \in Frames(ProgramPoints) /\ callee.pc \notin TakesResult
      /\ callee.pc \notin NeedsOperand
      /\ callee.pc \in MayReturnNil => q \in MayGetNil
      /\ Holds(callee.pc, callee.kids)
  BY NewCall DEF LOWEST
<1>2. CallFrame(k, q, kids, callee) \/ Skip(0, q, kids)
  BY DEF CallIf
<1> HIDE DEF callee
<1>3. CASE CallFrame(k, q, kids, callee)
  BY <1>1, <1>3, CallFrameKeeps
<1>4. pos + 0 \in Nat
  BY AtTop
<1>5. CASE Skip(0, q, kids)
  BY <1>4, <1>5, SkipKeeps
<1> QED BY <1>2, <1>3, <1>5

(* The call of a function that takes the last result as its operand.       *)
LEMMA CallWithKeeps ==
    ASSUME ProgramInv, stack # <<>>, NEW k, pos + k \in Nat, NEW q, Resumes(q),
           NEW kids, Holds(q, kids), Top.pc \in TakesResult, ret = NIL => Top.pc \notin MayGetNil,
           NEW fn \in ProgramPoints, fn \notin TakesResult, fn \in MayReturnNil => q \in MayGetNil,
           NEW prec \in Nat, NEW at \in Nat, NEW lo \in Nat,
           CallFrame(k, q, kids, Frame(fn, prec, at, lo, <<ret>>))
    PROVE  ProgramInv'
<1> DEFINE callee == Frame(fn, prec, at, lo, <<ret>>)
<1>1. /\ ret \in Nat /\ ret <= Len(heap)
      /\ errors = <<>> => ret # NIL
  BY ResultFound
<1>2. /\ <<ret>> \in Seq(Nat) /\ DOMAIN <<ret>> = {1} /\ <<ret>>[1] = ret /\ <<ret>> # <<>>
  BY <1>1
<1>3. Holds(fn, <<ret>>)
  BY <1>1, <1>2 DEF Holds, Complete
<1>4. /\ callee \in Frames(ProgramPoints) /\ callee.pc = fn /\ callee.kids = <<ret>>
  BY <1>2 DEF Frame, Frames
<1>5. CallFrame(k, q, kids, callee)
  OBVIOUS
<1> HIDE DEF callee
<1> QED BY <1>2, <1>3, <1>4, <1>5, CallFrameKeeps
-----------------------------------------------------------------------------
(* A call returns, with a node more on the heap or without.                *)
LEMMA LeaveKeeps ==
    ASSUME ProgramInv, stack # <<>>, Onward, heap' \in Seq(Nodes(ProgramKinds)), NodesHold',
           (\E n \in DOMAIN heap : ~ heap[n].whole)' => SomethingLacks',
           Pop, pos' \in Nat, input' = input, errors' \in Seq(Nat),
           ret' \in 0..Len(heap'), errors' = <<>> /\ ret' = NIL => Top.pc \in MayReturnNil
    PROVE  ProgramInv'
<1>1. /\ stack' \in Seq(Frames(ProgramPoints)) /\ CallsHold' /\ CallersReady'
      /\ stack' # <<>> /\ Top.pc \in MayReturnNil => Top'.pc \in MayGetNil
  BY Popped
<1>2. Len(heap') \in Nat /\ ret' \in Nat
  OBVIOUS
<1>3. MachineTypeOK(ProgramPoints, ProgramKinds, TakesResult)'
  BY <1>1, <1>2 DEF ProgramInv, MachineTypeOK
<1>4. ResultReady'
  BY <1>1 DEF ResultReady, Operand
<1>5. BrokenByLack'
  BY <1>2 DEF BrokenByLack, Panicked
<1> QED BY <1>1, <1>3, <1>4, <1>5 DEF ProgramInv

LEMMA ReturnKeeps ==
    ASSUME ProgramInv, stack # <<>>, NEW v, Return(v), v \in Nat, v <= Len(heap),
           errors = <<>> /\ v = NIL => Top.pc \in MayReturnNil
    PROVE  ProgramInv'
<1>1. /\ Pop /\ ret' = v /\ UNCHANGED <<input, pos, heap, errors>> /\ Len(heap) \in Nat
      /\ pos \in Nat /\ errors \in Seq(Nat)
  BY AtTop DEF Return
<1>2. /\ Onward /\ heap' \in Seq(Nodes(ProgramKinds)) /\ NodesHold'
      /\ (\E n \in DOMAIN heap : ~ heap[n].whole)' => SomethingLacks'
  BY <1>1, NodesStay
<1>3. ret' \in 0..Len(heap')
  BY <1>1
<1> QED BY <1>1, <1>2, <1>3, LeaveKeeps

LEMMA ReturnNilKeeps ==
    ASSUME ProgramInv, stack # <<>>, NEW k, ReturnNil(k), pos + k \in Nat,
           Top.pc \in MayReturnNil
    PROVE  ProgramInv'
<1>1. /\ Pop /\ ret' = NIL /\ UNCHANGED <<input, heap, errors>> /\ Len(heap) \in Nat
      /\ pos' \in Nat /\ errors \in Seq(Nat)
  BY AtTop DEF ReturnNil
<1>2. /\ Onward /\ heap' \in Seq(Nodes(ProgramKinds)) /\ NodesHold'
      /\ (\E n \in DOMAIN heap : ~ heap[n].whole)' => SomethingLacks'
  BY <1>1, NodesStay
<1>3. ret' \in 0..Len(heap')
  BY <1>1 DEF NIL
<1> QED BY <1>1, <1>2, <1>3, LeaveKeeps

LEMMA FailKeeps ==
    ASSUME ProgramInv, stack # <<>>, NEW e, NEW k, Fail(e, k), pos + e \in Nat,
           pos + k \in Nat
    PROVE  ProgramInv'
<1>1. /\ Pop /\ ret' = NIL /\ UNCHANGED <<input, heap>> /\ Len(heap) \in Nat
      /\ pos' \in Nat /\ errors \in Seq(Nat) /\ errors' = Append(errors, pos + e)
  BY AtTop DEF Fail
<1>2. errors' \in Seq(Nat) /\ errors' # <<>>
  BY <1>1
<1>3. /\ Onward /\ heap' \in Seq(Nodes(ProgramKinds)) /\ NodesHold'
      /\ (\E n \in DOMAIN heap : ~ heap[n].whole)' => SomethingLacks'
  BY <1>1, <1>2, NodesStay
<1>4. ret' \in 0..Len(heap')
  BY <1>1 DEF NIL
<1> QED BY <1>1, <1>2, <1>3, <1>4, LeaveKeeps

LEMMA GiveUpKeeps ==
    ASSUME ProgramInv, stack # <<>>, NEW k, NEW words, GiveUp(k, words), k \in Int,
           pos + k \in Nat, DOMAIN words \subseteq Nat \ {0}, Mismatches(k, words) # {}
    PROVE  ProgramInv'
<1> DEFINE j == k + First(Mismatches(k, words))
<1>1. Mismatches(k, words) \in SUBSET Nat /\ 0 \notin Mismatches(k, words)
  BY DEF Mismatches
<1>2. First(Mismatches(k, words)) \in Nat \ {0}
  BY <1>1, FirstOK
<1>3. pos + j \in Nat /\ pos + (j - 1) \in Nat
  BY <1>2, AtTop
<1>4. Fail(j, j - 1)
  BY DEF GiveUp
<1> HIDE DEF j
<1> QED BY <1>3, <1>4, FailKeeps

LEMMA BuildKeeps ==
    ASSUME ProgramInv, stack # <<>>, NEW kind \in ProgramKinds, NEW at \in Nat,
           NEW kids, Holds(kind, kids), NEW hi \in Nat, NEW k, pos + k \in Nat,
           BuildTo(kind, at, kids, hi, k),
           errors' = errors \/ \E e \in Nat : errors' = Append(errors, e)
    PROVE  ProgramInv'
<1>1. errors' \in Seq(Nat) /\ (errors' = <<>> => errors = <<>>)
  BY AtTop, ErrorsGrow
<1>2. /\ heap' = Append(heap, Node(kind, at, kids, hi)) /\ ret' = Len(heap) + 1
      /\ pos' \in Nat /\ Pop /\ input' = input
  BY DEF BuildTo
<1>3. /\ Onward /\ heap' \in Seq(Nodes(ProgramKinds)) /\ NodesHold'
      /\ Len(heap') = Len(heap) + 1
      /\ (\E n \in DOMAIN heap : ~ heap[n].whole)' => SomethingLacks'
  BY <1>1, <1>2, NodeAdded
<1>4. ret' \in 0..Len(heap') /\ ret' # NIL
  BY <1>2, <1>3, AtTop DEF NIL
<1> QED BY <1>1, <1>2, <1>3, <1>4, LeaveKeeps

LEMMA ReturnNewKeeps ==
    ASSUME ProgramInv, stack # <<>>, NEW kind, NEW at, NEW kids, NEW k,
           ReturnNew(kind, at, kids, k), kind \in ProgramKinds, at \in Nat, Holds(kind, kids),
           pos + k \in Nat
    PROVE  ProgramInv'
BY BuildKeeps DEF ReturnNew, Build

LEMMA ReturnPassingKeeps ==
    ASSUME ProgramInv, stack # <<>>, NEW kind, NEW at, NEW kids, NEW k \in Nat \ {0},
           ReturnPassing(kind, at, kids, k), kind \in ProgramKinds, at \in Nat, Holds(kind, kids)
    PROVE  ProgramInv'
<1>1. pos + k - 1 \in Nat /\ pos + k \in Nat
  BY AtTop
<1> QED BY <1>1, BuildKeeps DEF ReturnPassing

(* Once there is an error what a node holds does not matter any more, but  *)
(* the operands themselves must have been in order.                        *)
LEMMA ReturnFlawedKeeps ==
    ASSUME ProgramInv, stack # <<>>, NEW kind, NEW at, NEW kids, NEW k, NEW e,
           ReturnFlawed(kind, at, kids, k, e), kind \in ProgramKinds, at \in Nat,
           Holds(kind, kids), pos + k \in Nat, pos + e \in Nat
    PROVE  ProgramInv'
BY BuildKeeps DEF ReturnFlawed, Build

LEMMA ReturnExpectingKeeps ==
    ASSUME ProgramInv, stack # <<>>, NEW t, NEW kind, NEW kids, NEW k,
           ReturnExpecting(t, kind, kids, k), kind \in ProgramKinds, Holds(kind, kids),
           k \in Int, pos + k \in Nat
    PROVE  ProgramInv'
<1>1. Top.at \in Nat /\ pos + (k + 1) \in Nat
  BY AtTop
<1> QED BY <1>1, ReturnNewKeeps, ReturnFlawedKeeps DEF ReturnExpecting

(* A panic without an error needs a node that lacks something.             *)
LEMMA PanicKeeps ==
    ASSUME ProgramInv, stack # <<>>, errors = <<>> => SomethingLacks, Panic
    PROVE  ProgramInv'
<1>1. stack' = <<>> /\ ret' = Panicked /\ UNCHANGED <<input, pos, heap, errors>>
  BY DEF Panic
<1>2. /\ NodesHold'
      /\ (\E n \in DOMAIN heap : ~ heap[n].whole)' => SomethingLacks'
      /\ SomethingLacks => SomethingLacks'
  BY <1>1, NodesStay
<1>3. <<>> \in Seq(Frames(ProgramPoints)) /\ DOMAIN <<>> = {}
  OBVIOUS
<1>4. MachineTypeOK(ProgramPoints, ProgramKinds, TakesResult)'
  BY <1>1, <1>3 DEF MachineTypeOK, ProgramInv, Panicked
<1>5. CallsHold' /\ CallersReady' /\ ResultReady'
  BY <1>1, <1>3 DEF CallsHold, CallersReady, ResultReady
<1>6. BrokenByLack'
  BY <1>1, <1>2 DEF BrokenByLack
<1> QED BY <1>2, <1>4, <1>5, <1>6 DEF ProgramInv

(* The node of the call and the function that takes it over.               *)
LEMMA TakeOverKeeps ==
    ASSUME ProgramInv, stack # <<>>, NEW kind \in ProgramKinds, NEW at \in Nat, NEW hi \in Nat,
           NEW kids, Holds(kind, kids), NEW fn \in ProgramPoints, fn \notin TakesResult, fn \notin NeedsOperand,
           fn \notin MayReturnNil, NEW k, pos + k \in Nat,
           heap' = Append(heap, Node(kind, at, kids, hi)),
           stack' = [stack EXCEPT ![Len(stack)] =
                        Frame(fn, Top.prec, pos + k, Top.lo, <<Len(heap) + 1>>)],
           pos' = pos + k, UNCHANGED <<input, ret, errors>>
    PROVE  ProgramInv'
<1>0. PICK held : held = <<Len(heap) + 1>>
  OBVIOUS
<1> DEFINE frame == Frame(fn, Top.prec, pos + k, Top.lo, held)
<1>1. /\ Onward /\ heap' \in Seq(Nodes(ProgramKinds)) /\ NodesHold'
      /\ Len(heap') = Len(heap) + 1
      /\ (\E n \in DOMAIN heap : ~ heap[n].whole)' => SomethingLacks'
      /\ SomethingLacks => SomethingLacks'
  BY NodeAdded
<1>2. Len(heap) \in Nat
  BY AtTop
<1>3. held \in Seq(Nat) /\ DOMAIN held = {1} /\ held[1] = Len(heap) + 1 /\ held # <<>>
  BY <1>0, <1>2
<1>4. frame \in Frames(ProgramPoints) /\ frame.pc = fn /\ frame.kids = held
  BY <1>3, AtTop DEF Frame, Frames
<1>5. stack' = [stack EXCEPT ![Len(stack)] = frame]
  BY <1>0
<1> HIDE DEF frame
<1>6. Holds(fn, held)'
  BY <1>1, <1>2, <1>3 DEF Holds, Complete, NIL
<1>7. stack' \in Seq(Frames(ProgramPoints)) /\ stack' # <<>> /\ Top' = frame /\ CallsHold' /\ CallersReady'
  BY <1>1, <1>3, <1>4, <1>5, <1>6, Replaced
<1>8. MachineTypeOK(ProgramPoints, ProgramKinds, TakesResult)'
  BY <1>1, <1>4, <1>7 DEF ProgramInv, MachineTypeOK
<1>9. ResultReady'
  BY <1>4, <1>7 DEF ResultReady
<1>10. BrokenByLack'
  BY <1>1 DEF BrokenByLack, ProgramInv
<1> QED BY <1>1, <1>7, <1>8, <1>9, <1>10 DEF ProgramInv

LEMMA NoStepKeeps == ProgramInv /\ UNCHANGED vars => ProgramInv'
BY DEF vars, ProgramInv, MachineTypeOK, CallsHold, CallersReady, ResultReady, NodesHold,
       BrokenByLack, SomethingLacks, Complete, Holds, Operand, Top
-----------------------------------------------------------------------------
(* The parser of expressions drops a pair of parentheses, the parser of    *)
(* tables hands the table on to a PIVOT or to a JOIN.                      *)
LEMMA DropParenthesesKeeps ==
    ASSUME ProgramInv, stack # <<>>, Top.pc \in TakesResult, Top.pc \notin MayGetNil,
           DropParentheses
    PROVE  ProgramInv'
<1>1. /\ heap \in Seq(Nodes(ProgramKinds)) /\ Len(heap) \in Nat /\ ret \in Nat
      /\ ret <= Len(heap)
      /\ Top.lo \in Nat /\ pos + 1 \in Nat /\ errors \in Seq(Nat)
      /\ errors = <<>> => ret # NIL
  BY AtTop, ResultFound
<1>2. /\ heap' \in Seq(Nodes(ProgramKinds)) /\ DOMAIN heap' = DOMAIN heap
      /\ Len(heap') = Len(heap)
      /\ \A n \in DOMAIN heap : /\ heap'[n].kind = heap[n].kind /\ heap'[n].kids = heap[n].kids
                                /\ heap'[n].whole = heap[n].whole
  <2>1. CASE ret = NIL
    BY <1>1, <2>1 DEF DropParentheses
  <2>2. CASE ret # NIL
    <3> DEFINE node == InParentheses(heap[ret])
    <3>1. ret \in DOMAIN heap
      BY <1>1, <2>2 DEF NIL
    <3>2. heap[ret] \in Nodes(ProgramKinds)
      BY <1>1, <3>1
    <3>3. node \in Nodes(ProgramKinds) /\ node.kind = heap[ret].kind /\ node.kids = heap[ret].kids
          /\ node.whole = heap[ret].whole
      BY <1>1, <3>2 DEF InParentheses, Nodes
    <3>4. heap' = [heap EXCEPT ![ret] = node]
      BY <2>2 DEF DropParentheses
    <3> HIDE DEF node
    <3> QED BY <1>1, <3>1, <3>3, <3>4
  <2> QED BY <2>1, <2>2
<1>3. Pop /\ pos' \in Nat /\ UNCHANGED <<input, ret, errors>>
  BY <1>1 DEF DropParentheses
<1>4. Onward
  BY <1>1, <1>2, <1>3 DEF Onward
<1>5. NodesHold'
  <2>1. ASSUME NEW n \in DOMAIN heap PROVE Holds(heap[n].kind, heap[n].kids)'
    <3>1. Holds(heap[n].kind, heap[n].kids)
      BY DEF ProgramInv, NodesHold
    <3>2. heap'[n].kind = heap[n].kind /\ heap'[n].kids = heap[n].kids
      BY <1>2
    <3> DEFINE kind == heap[n].kind
               kids == heap[n].kids
    <3>3. Holds(kind, kids)
      BY <3>1
    <3> QED BY <1>2, <1>4, <3>1, <3>2, HeldStays
  <2> QED BY <1>2, <2>1 DEF NodesHold
<1>6. SomethingLacks => SomethingLacks'
  BY <1>2 DEF SomethingLacks, Complete
<1>7. (\E n \in DOMAIN heap : ~ heap[n].whole)' => SomethingLacks'
  BY <1>2, <1>6 DEF ProgramInv, BrokenByLack
<1>8. ret' \in 0..Len(heap')
  BY <1>1, <1>2, <1>3
<1> QED BY <1>1, <1>2, <1>3, <1>4, <1>5, <1>7, <1>8, LeaveKeeps

LEMMA ReturnTableKeeps ==
    ASSUME ProgramInv, stack # <<>>, NEW kind \in ProgramKinds, NEW kids, Holds(kind, kids),
           NEW k \in Nat, ReturnTable(kind, kids, k),
           Begins("parsePivotTable"), Begins("parseUnpivotTable")
    PROVE  ProgramInv'
<1>1. pos + k \in Nat /\ pos + (k + 1) \in Nat /\ Top.at \in Nat
  BY AtTop
<1>2. CASE ReturnNew(kind, Top.at, kids, k)
  BY <1>1, <1>2, ReturnNewKeeps
<1>3. CASE ~ ReturnNew(kind, Top.at, kids, k)
  <2>1. PICK fn \in {"parsePivotTable", "parseUnpivotTable"} :
             /\ heap' = Append(heap, Node(kind, Top.at, kids, pos + k))
             /\ stack' = [stack EXCEPT ![Len(stack)] =
                             Frame(fn, Top.prec, pos + (k + 1), Top.lo, <<Len(heap) + 1>>)]
             /\ pos' = pos + (k + 1)
             /\ UNCHANGED <<input, ret, errors>>
    BY <1>3, AtTop DEF ReturnTable
  <2> QED BY <1>1, <2>1, TakeOverKeeps DEF Begins, Ordinary
<1> QED BY <1>2, <1>3

LEMMA CallJoinKeeps ==
    ASSUME ProgramInv, stack # <<>>, Top.pc \in TakesResult, ret = NIL => Top.pc \notin MayGetNil,
           NEW q, Resumes(q), CallJoin(q), Begins("parseJoinClause")
    PROVE  ProgramInv'
<1> DEFINE lo == IF ret = NIL THEN pos + 1 ELSE heap[ret].lo
<1>1. pos + 1 \in Nat /\ lo \in Nat
  <2>1. ret # NIL => ret \in DOMAIN heap
    BY ResultFound, AtTop DEF NIL
  <2>2. ret # NIL => heap[ret] \in Nodes(ProgramKinds)
    BY <2>1, AtTop
  <2>3. pos \in Nat
    BY AtTop
  <2> QED BY <2>2, <2>3 DEF Nodes
<1>2. CallFrame(1, q, <<>>, Frame("parseJoinClause", 0, pos + 1, lo, <<ret>>))
  BY DEF CallJoin
<1> HIDE DEF lo
<1>3. Holds(q, <<>>)
  BY NoneHeld
<1> QED BY <1>1, <1>2, <1>3, CallWithKeeps DEF Begins, Ordinary

-----------------------------------------------------------------------------
(* Any point may call and go on with a function that begins.               *)
LEMMA Beginnings ==
    \A fn : Begins(fn) => /\ \A q : Calls(q, fn)
                          /\ Resumes(fn) /\ Passes(fn)
                          /\ Top.pc \notin NilHolders => Hands(fn)
BY DEF Begins, Ordinary, Calls, Hands, Resumes, Passes

(* A row of expected words is numbered from one.                           *)
LEMMA WordsNumbered ==
    /\ \A a : DOMAIN <<a>> \subseteq Nat \ {0}
    /\ \A a, b : DOMAIN <<a, b>> \subseteq Nat \ {0}
    /\ \A a, b, c : DOMAIN <<a, b, c>> \subseteq Nat \ {0}
    /\ \A a, b, c, d, e : DOMAIN <<a, b, c, d, e>> \subseteq Nat \ {0}
    /\ \A a, b, c, d, e, f : DOMAIN <<a, b, c, d, e, f>> \subseteq Nat \ {0}
OBVIOUS
-----------------------------------------------------------------------------
(* Rows of words and loops over the tokens only move the cursor on.        *)
LEMMA UpTo ==
    ASSUME NEW n \in Nat, NEW S,
           \A m \in 0..n : (\A k \in 0..(m - 1) : k \in S) => m \in S
    PROVE  0..n \subseteq S
<1> DEFINE less    == {pair \in Nat \X Nat : pair[1] < pair[2]}
           missing == (0..n) \ S
<1>1. SUFFICES ASSUME missing # {} PROVE FALSE
  OBVIOUS
<1>2. IsWellFoundedOn(less, Nat)
  BY NatLessThanWellFounded, Zenon DEF OpToRel
<1>3. missing \in SUBSET Nat
  OBVIOUS
<1> HIDE DEF less
<1>4. PICK m \in missing : \A k \in missing : <<k, m>> \notin less
  <2> HIDE DEF missing
  <2> QED BY <1>1, <1>2, <1>3, WFMin
<1>5. ASSUME NEW k \in 0..(m - 1) PROVE k \in S
  <2>1. k \in Nat /\ m \in Nat /\ k < m
    BY <1>3
  <2>2. <<k, m>> \in Nat \X Nat /\ <<k, m>>[1] = k /\ <<k, m>>[2] = m
    BY <2>1
  <2>3. <<k, m>> \in less
    BY <2>1, <2>2 DEF less
  <2> QED BY <1>4, <2>1, <2>3
<1> QED BY <1>4, <1>5

RowFrom(i, steps, f, n) == IF n = 0 THEN i ELSE Take(f[n - 1], steps[n])

LEMMA TakeOK ==
    ASSUME NEW j \in Nat, NEW step, step.takes \in Nat
    PROVE  Take(j, step) \in Nat /\ j <= Take(j, step)
BY DEF Take

LEMMA RowExists ==
    ASSUME NEW i \in Nat, NEW steps, Len(steps) \in Nat,
           \A n \in 1..Len(steps) : steps[n].takes \in Nat
    PROVE  \E f : f = [n \in 0..Len(steps) |-> RowFrom(i, steps, f, n)]
<1> DEFINE L == Len(steps)
           P(m) == \E f \in [0..L -> Nat] : \A n \in 0..m : f[n] = RowFrom(i, steps, f, n)
           S == {m \in 0..L : P(m)}
<1>1. P(0)
  <2> DEFINE f == [n \in 0..L |-> i]
  <2>1. f \in [0..L -> Nat] /\ f[0] = i
    OBVIOUS
  <2> HIDE DEF f
  <2> QED BY <2>1 DEF RowFrom
<1>2. ASSUME NEW m \in 0..L, m # 0, P(m - 1) PROVE P(m)
  <2>1. PICK f \in [0..L -> Nat] : \A n \in 0..(m - 1) : f[n] = RowFrom(i, steps, f, n)
    BY <1>2
  <2>2. f[m - 1] \in Nat /\ steps[m].takes \in Nat
    <3>1. m - 1 \in 0..L /\ m \in 1..Len(steps)
      BY <1>2
    <3> HIDE DEF L
    <3> QED BY <3>1
  <2>3. PICK v \in Nat : v = Take(f[m - 1], steps[m])
    BY <2>2, TakeOK
  <2> DEFINE g == [f EXCEPT ![m] = v]
  <2>4. g \in [0..L -> Nat] /\ g[m] = v /\ \A n \in 0..(m - 1) : g[n] = f[n]
    BY <1>2
  <2> HIDE DEF g
  <2>5. ASSUME NEW n \in 0..m PROVE g[n] = RowFrom(i, steps, g, n)
    <3>1. CASE n = m
      BY <1>2, <2>3, <2>4, <3>1 DEF RowFrom
    <3>2. CASE n = 0
      BY <1>2, <2>1, <2>4, <3>2 DEF RowFrom
    <3>3. CASE n # m /\ n # 0
      <4>1. n \in 0..(m - 1) /\ n - 1 \in 0..(m - 1)
        BY <1>2, <3>3
      <4> QED BY <2>1, <2>4, <3>3, <4>1 DEF RowFrom
    <3> QED BY <3>1, <3>2, <3>3
  <2> QED BY <2>4, <2>5
<1> HIDE DEF P
<1>3. 0..L \subseteq S
  <2>1. ASSUME NEW m \in 0..L, \A k \in 0..(m - 1) : k \in S PROVE m \in S
    <3>1. CASE m = 0
      BY <1>1, <3>1
    <3>2. CASE m # 0
      <4>1. m - 1 \in 0..(m - 1)
        BY <3>2
      <4> QED BY <1>2, <2>1, <3>2, <4>1
    <3> QED BY <3>1, <3>2
  <2> HIDE DEF S, L
  <2>2. L \in Nat
    BY DEF L
  <2> QED BY <2>1, <2>2, UpTo
<1>4. P(L)
  BY <1>3
<1>5. PICK f \in [0..L -> Nat] : \A n \in 0..L : f[n] = RowFrom(i, steps, f, n)
  BY <1>4 DEF P
<1>6. f = [n \in 0..L |-> RowFrom(i, steps, f, n)]
  BY <1>5
<1> QED BY <1>6

LEMMA RowOK ==
    ASSUME NEW i \in Nat, NEW steps, Len(steps) \in Nat,
           \A n \in 1..Len(steps) : steps[n].takes \in Nat
    PROVE  Row(i, steps) \in Nat /\ i <= Row(i, steps)
<1> DEFINE L == Len(steps)
<1>1. PICK g : g = [n \in 0..L |-> RowFrom(i, steps, g, n)]
  BY RowExists
<1>2. PICK f : f = [n \in 0..L |-> RowFrom(i, steps, f, n)] /\ Row(i, steps) = f[L]
  BY <1>1, Zenon DEF Row, RowFrom
<1> DEFINE S == {m \in 0..L : f[m] \in Nat /\ i <= f[m]}
<1>3. ASSUME NEW m \in 0..L, \A k \in 0..(m - 1) : k \in S PROVE m \in S
  <2>1. f[m] = RowFrom(i, steps, f, m)
    BY <1>2
  <2>2. CASE m = 0
    BY <2>1, <2>2 DEF RowFrom
  <2>3. CASE m # 0
    <3>1. m - 1 \in 0..(m - 1) /\ m \in 1..L
      BY <2>3
    <3>2. f[m - 1] \in Nat /\ i <= f[m - 1] /\ steps[m].takes \in Nat
      BY <1>3, <3>1
    <3>3. f[m] = Take(f[m - 1], steps[m])
      BY <2>1, <2>3 DEF RowFrom
    <3>4. f[m] \in Nat /\ f[m - 1] <= f[m]
      BY <3>2, <3>3, TakeOK
    <3> QED BY <3>2, <3>4
  <2> QED BY <2>2, <2>3
<1>4. 0..L \subseteq S
  <2> HIDE DEF S, L
  <2>1. L \in Nat
    BY DEF L
  <2> QED BY <1>3, <2>1, UpTo
<1>5. L \in S
  BY <1>4
<1> QED BY <1>2, <1>5

Step(step) == step.takes \in Nat
LEMMA StepsTake ==
    /\ Step(Anything) /\ Step(OptText)
    /\ \A words : Step(OneOf(words))
    /\ \A word : Step(Opt(word)) /\ Step(OptNamed(word))
BY DEF Step, Anything, OneOf, Opt, OptNamed, OptText

LEMMA Row1 ==
    ASSUME NEW i, NEW a, i \in Nat, Step(a)
    PROVE  Row(i, <<a>>) \in Nat /\ i <= Row(i, <<a>>)
<1>1. Len(<<a>>) = 1 /\ \A m \in 1..1 : <<a>>[m].takes \in Nat
  BY DEF Step
<1> QED BY <1>1, RowOK

LEMMA Row2 ==
    ASSUME NEW i, NEW a, NEW b, i \in Nat, Step(a), Step(b)
    PROVE  Row(i, <<a, b>>) \in Nat /\ i <= Row(i, <<a, b>>)
<1>1. Len(<<a, b>>) = 2 /\ \A m \in 1..2 : <<a, b>>[m].takes \in Nat
  BY DEF Step
<1> QED BY <1>1, RowOK

LEMMA Row3 ==
    ASSUME NEW i, NEW a, NEW b, NEW c, i \in Nat, Step(a), Step(b), Step(c)
    PROVE  Row(i, <<a, b, c>>) \in Nat /\ i <= Row(i, <<a, b, c>>)
<1>1. Len(<<a, b, c>>) = 3 /\ \A m \in 1..3 : <<a, b, c>>[m].takes \in Nat
  BY DEF Step
<1> QED BY <1>1, RowOK

LEMMA Row4 ==
    ASSUME NEW i, NEW a, NEW b, NEW c, NEW d, i \in Nat, Step(a), Step(b), Step(c), Step(d)
    PROVE  Row(i, <<a, b, c, d>>) \in Nat /\ i <= Row(i, <<a, b, c, d>>)
<1>1. Len(<<a, b, c, d>>) = 4 /\ \A m \in 1..4 : <<a, b, c, d>>[m].takes \in Nat
  BY DEF Step
<1> QED BY <1>1, RowOK

LEMMA Row5 ==
    ASSUME NEW i, NEW a, NEW b, NEW c, NEW d, NEW e, i \in Nat, Step(a), Step(b), Step(c),
           Step(d), Step(e)
    PROVE  Row(i, <<a, b, c, d, e>>) \in Nat /\ i <= Row(i, <<a, b, c, d, e>>)
<1>1. Len(<<a, b, c, d, e>>) = 5 /\ \A m \in 1..5 : <<a, b, c, d, e>>[m].takes \in Nat
  BY DEF Step
<1> QED BY <1>1, RowOK

LEMMA Row7 ==
    ASSUME NEW i, NEW a, NEW b, NEW c, NEW d, NEW e, NEW f, NEW g, i \in Nat, Step(a),
           Step(b), Step(c), Step(d), Step(e), Step(f), Step(g)
    PROVE  Row(i, <<a, b, c, d, e, f, g>>) \in Nat /\ i <= Row(i, <<a, b, c, d, e, f, g>>)
<1>1. Len(<<a, b, c, d, e, f, g>>) = 7 /\ \A m \in 1..7 : <<a, b, c, d, e, f, g>>[m].takes \in Nat
  BY DEF Step
<1> QED BY <1>1, RowOK

-----------------------------------------------------------------------------
(* A loop that does not go back ends, when from `limit` on it stays.       *)
Ahead(next, limit) == \A j \in Nat : /\ next[j] \in Nat /\ j <= next[j]
                                     /\ j >= limit => next[j] = j
LoopFrom(next, f, j) == IF next[j] = j THEN j ELSE f[next[j]]

LEMMA LoopExists ==
    ASSUME NEW next, NEW limit \in Nat, Ahead(next, limit)
    PROVE  \E f : f = [j \in Nat |-> LoopFrom(next, f, j)]
<1> DEFINE Good(f, j) == f[j] = LoopFrom(next, f, j)
           P(n) == \E f \in [Nat -> Nat] : \A j \in Nat : j >= limit - n => Good(f, j)
           S    == {n \in 0..limit : P(n)}
<1>0. \A j \in Nat : next[j] \in Nat /\ j <= next[j] /\ (j >= limit => next[j] = j)
  BY DEF Ahead
<1>1. P(0)
  <2> DEFINE f == [j \in Nat |-> j]
  <2>1. f \in [Nat -> Nat] /\ \A j \in Nat : f[j] = j
    OBVIOUS
  <2> HIDE DEF f
  <2>2. ASSUME NEW j \in Nat, j >= limit - 0 PROVE Good(f, j)
    BY <1>0, <2>1, <2>2 DEF LoopFrom
  <2> QED BY <2>1, <2>2
<1>2. ASSUME NEW n \in 0..limit, n # 0, P(n - 1) PROVE P(n)
  <2>1. PICK f \in [Nat -> Nat] : \A j \in Nat : j >= limit - (n - 1) => Good(f, j)
    BY <1>2
  <2>2. PICK m \in Nat : m = limit - n
    BY <1>2
  <2>3. next[m] \in Nat /\ m <= next[m]
    BY <1>0
  <2>4. PICK v \in Nat : v = LoopFrom(next, f, m)
    BY <2>3 DEF LoopFrom
  <2> DEFINE g == [f EXCEPT ![m] = v]
  <2>5. g \in [Nat -> Nat] /\ g[m] = v /\ \A j \in Nat : j # m => g[j] = f[j]
    OBVIOUS
  <2> HIDE DEF g
  <2>6. ASSUME NEW j \in Nat, j >= limit - n PROVE Good(g, j)
    <3>1. next[j] \in Nat /\ j <= next[j]
      BY <1>0
    <3>2. CASE j = m
      <4>1. next[j] # j => next[j] # m
        BY <3>2
      <4> QED BY <2>4, <2>5, <3>1, <3>2, <4>1 DEF LoopFrom
    <3>3. CASE j # m
      <4>1. j >= limit - (n - 1) /\ j > m
        BY <1>2, <2>2, <2>6, <3>3
      <4>2. next[j] # m
        BY <3>1, <4>1
      <4>3. f[j] = LoopFrom(next, f, j)
        BY <2>1, <4>1
      <4> QED BY <2>5, <3>1, <3>3, <4>2, <4>3 DEF LoopFrom
    <3> QED BY <3>2, <3>3
  <2> QED BY <2>5, <2>6
<1> HIDE DEF P
<1>3. 0..limit \subseteq S
  <2>1. ASSUME NEW m \in 0..limit, \A k \in 0..(m - 1) : k \in S PROVE m \in S
    <3>1. CASE m = 0
      BY <1>1, <3>1
    <3>2. CASE m # 0
      <4>1. m - 1 \in 0..(m - 1)
        BY <3>2
      <4> QED BY <1>2, <2>1, <3>2, <4>1
    <3> QED BY <3>1, <3>2
  <2> HIDE DEF S
  <2> QED BY <2>1, UpTo
<1>4. P(limit)
  BY <1>3
<1>5. PICK f \in [Nat -> Nat] : \A j \in Nat : j >= limit - limit => Good(f, j)
  BY <1>4 DEF P
<1>6. \A j \in Nat : f[j] = LoopFrom(next, f, j)
  BY <1>5
<1>7. f = [j \in Nat |-> LoopFrom(next, f, j)]
  BY <1>6
<1> QED BY <1>7

LEMMA LoopOK ==
    ASSUME NEW next, NEW limit \in Nat, Ahead(next, limit), NEW i \in Nat
    PROVE  Loop(i, next) \in Nat /\ i <= Loop(i, next)
<1>1. PICK g : g = [j \in Nat |-> LoopFrom(next, g, j)]
  BY LoopExists
<1>2. PICK f : f = [j \in Nat |-> LoopFrom(next, f, j)] /\ Loop(i, next) = f[i]
  BY <1>1, Zenon DEF Loop, LoopFrom
<1>3. /\ \A j \in Nat : next[j] \in Nat /\ j <= next[j] /\ (j >= limit => next[j] = j)
      /\ \A j \in Nat : f[j] = LoopFrom(next, f, j)
  BY <1>2 DEF Ahead
<1> DEFINE Ends(j) == f[j] \in Nat /\ j <= f[j]
           S == {n \in 0..limit : \A j \in Nat : j >= limit - n => Ends(j)}
<1>4. ASSUME NEW m \in 0..limit, \A k \in 0..(m - 1) : k \in S PROVE m \in S
  <2>1. ASSUME NEW j \in Nat, j >= limit - m PROVE Ends(j)
    <3>1. CASE next[j] = j
      BY <1>3, <3>1 DEF LoopFrom
    <3>2. CASE next[j] # j
      <4>1. next[j] \in Nat /\ j < next[j] /\ j < limit /\ f[j] = f[next[j]]
        BY <1>3, <3>2 DEF LoopFrom
      <4>2. m # 0 /\ m - 1 \in 0..(m - 1)
        BY <2>1, <4>1
      <4>3. next[j] >= limit - (m - 1)
        BY <2>1, <4>1
      <4>4. Ends(next[j])
        BY <1>4, <4>1, <4>2, <4>3
      <4> QED BY <4>1, <4>4
    <3> QED BY <3>1, <3>2
  <2> QED BY <2>1
<1>5. 0..limit \subseteq S
  <2> HIDE DEF S
  <2> QED BY <1>4, UpTo
<1>6. limit \in S /\ i >= limit - limit
  BY <1>5
<1>7. Ends(i)
  BY <1>6
<1> QED BY <1>2, <1>7

(* The loops of the statements, whose items do not lead back.              *)
Onwards(Past(_)) == \A j \in Nat : Past(j) \in Nat /\ j <= Past(j)

(* The lemmas that follow only need to know what the tokens are.           *)
Reading == input \in Seq(Tokens)

LEMMA ListEndAhead ==
    ASSUME Reading, NEW i, NEW sep, i \in Nat, sep # "EOF"
    PROVE  ListEnd(i, sep) \in Nat /\ i <= ListEnd(i, sep)
BY ListEndOK DEF Reading

LEMMA FirstInAhead ==
    ASSUME Reading, NEW i, NEW types, i \in Nat
    PROVE  FirstIn(i, types) \in Nat /\ i <= FirstIn(i, types)
BY FirstInOK DEF Reading

LEMMA CursorOptionsAhead ==
    ASSUME Reading, pos \in Nat
    PROVE  parseCursorOptions(pos + 1) \in Nat /\ parseCursorOptions(pos + 2) \in Nat
BY parseCursorOptionsOK DEF Reading

LEMMA SearchTermAhead ==
    ASSUME Reading, NEW table, pos \in Nat, table \in BOOLEAN
    PROVE  SearchTermAt(table) - pos \in Nat
BY SearchTermAtOK DEF Reading

LEMMA TokAhead ==
    ASSUME Reading
    PROVE  Len(input) \in Nat /\ \A j \in Nat : j > Len(input) => Tok(j) = "EOF"
BY DEF Reading, Tok
-----------------------------------------------------------------------------
(* Where the helpers that only move the cursor leave it.                   *)
LEMMA FirstAhead ==
    ASSUME NEW i \in Nat, NEW places \in SUBSET Nat, places # {}, \A j \in places : i <= j
    PROVE  First(places) \in Nat /\ i <= First(places)
BY FirstOK

LEMMA SemicolonsOK ==
    ASSUME Reading, NEW i, i \in Nat
    PROVE  Semicolons(i) \in Nat
<1> DEFINE places == {j \in i..(i + Len(input)) : Tok(j) # "SEMICOLON"}
<1>1. Len(input) \in Nat /\ \A j \in Nat : j > Len(input) => Tok(j) = "EOF"
  BY TokAhead
<1>2. i \in Nat /\ Tok(0) = "EOF"
  BY DEF Tok, Reading
<1>3. i + Len(input) \in places \/ i \in places
  BY <1>1, <1>2
<1>4. places \in SUBSET Nat /\ places # {} /\ \A j \in places : i <= j
  <2>1. places # {}
    BY <1>3
  <2>2. \A j \in places : j \in Nat /\ i <= j
    OBVIOUS
  <2> QED BY <2>1, <2>2
<1>5. First(places) \in Nat /\ i <= First(places)
  <2> HIDE DEF places
  <2> QED BY <1>4, FirstAhead
<1> QED BY <1>5 DEF Semicolons

LEMMA SkippedOK ==
    ASSUME Reading, NEW i, i \in Nat
    PROVE  Skipped(i) \in Nat
BY FirstInAhead DEF Skipped

LEMMA NamesInParenthesesOK ==
    ASSUME Reading, NEW i, i \in Nat
    PROVE  NamesInParentheses(i) \in Nat /\ i <= NamesInParentheses(i)
<1> DEFINE Ends(j) == Tok(j) \in {"RPAREN", "EOF"} \/ Tok(j + 1) # "COMMA"
           places == {j \in (i + 2)..(i + Len(input) + 3) : (j - i) % 2 = 0 /\ Ends(j)}
<1>1. Len(input) \in Nat /\ \A j \in Nat : j > Len(input) => Tok(j) = "EOF"
  BY TokAhead
<1>2. \/ (Len(input) + 2) % 2 = 0
      \/ (Len(input) + 3) % 2 = 0
  BY <1>1
<1>3. i + Len(input) + 2 \in places \/ i + Len(input) + 3 \in places
  BY <1>1, <1>2
<1>4. places \in SUBSET Nat /\ places # {} /\ \A j \in places : i <= j
  <2>1. places # {}
    BY <1>3
  <2>2. \A j \in places : j \in Nat /\ i <= j
    OBVIOUS
  <2> QED BY <2>1, <2>2
<1>5. First(places) \in Nat /\ i <= First(places)
  <2> HIDE DEF places
  <2> QED BY <1>4, FirstAhead
<1> QED BY <1>5 DEF NamesInParentheses

LEMMA FunctionOptionsEndOK ==
    ASSUME Reading, NEW i, i \in Nat
    PROVE  FunctionOptionsEnd(i) \in Nat /\ i <= FunctionOptionsEnd(i)
<1> DEFINE places == {j \in (i + 1)..(i + Len(input) + 1) :
                         Tok(j) = "EOF" \/ (Tok(j + 1) = "AS" /\ Tok(j) # "EXECUTE")}
<1>1. Len(input) \in Nat /\ \A j \in Nat : j > Len(input) => Tok(j) = "EOF"
  BY TokAhead
<1>2. i + Len(input) + 1 \in places
  BY <1>1
<1>3. places \in SUBSET Nat /\ places # {} /\ \A j \in places : i <= j
  <2>1. places # {}
    BY <1>2
  <2>2. \A j \in places : j \in Nat /\ i <= j
    OBVIOUS
  <2> QED BY <2>1, <2>2
<1>4. First(places) \in Nat /\ i <= First(places)
  <2> HIDE DEF places
  <2> QED BY <1>3, FirstAhead
<1> QED BY <1>4 DEF FunctionOptionsEnd

LEMMA TriggerOptionsEndOK ==
    ASSUME Reading, NEW i, i \in Nat
    PROVE  TriggerOptionsEnd(i) \in Nat /\ i <= TriggerOptionsEnd(i)
<1> DEFINE Ends(j) == Tok(j) = "EXECUTE" \/ Tok(j + 1) # "COMMA"
           places == {j \in (i + 2)..(i + Len(input) + 3) : (j - i) % 2 = 0 /\ Ends(j)}
<1>1. Len(input) \in Nat /\ \A j \in Nat : j > Len(input) => Tok(j) = "EOF"
  BY TokAhead
<1>2. \/ (Len(input) + 2) % 2 = 0
      \/ (Len(input) + 3) % 2 = 0
  BY <1>1
<1>3. i + Len(input) + 2 \in places \/ i + Len(input) + 3 \in places
  BY <1>1, <1>2
<1>4. places \in SUBSET Nat /\ places # {} /\ \A j \in places : i <= j
  <2>1. places # {}
    BY <1>3
  <2>2. \A j \in places : j \in Nat /\ i <= j
    OBVIOUS
  <2> QED BY <2>1, <2>2
<1>5. First(places) \in Nat /\ i <= First(places)
  <2> HIDE DEF places
  <2> QED BY <1>4, FirstAhead
<1>6. /\ FirstIn(First(places) + 1, {"AFTER", "INSTEAD", "FOR"}) \in Nat
      /\ i < FirstIn(First(places) + 1, {"AFTER", "INSTEAD", "FOR"})
  <2> HIDE DEF places
  <2>1. First(places) + 1 \in Nat
    BY <1>5
  <2> QED BY <1>5, <2>1, FirstInAhead
<1> QED BY <1>5, <1>6 DEF TriggerOptionsEnd

LEMMA TriggerEndsOK ==
    ASSUME Reading, NEW i, i \in Nat
    PROVE  /\ TriggerTargetEnd(i) \in Nat /\ i <= TriggerTargetEnd(i)
           /\ EventsEnd(i) \in Nat /\ i <= EventsEnd(i)
           /\ NotForReplicationEnd(i) \in Nat /\ i <= NotForReplicationEnd(i)
<1>1. TriggerTargetEnd(i) \in Nat /\ i <= TriggerTargetEnd(i)
  BY ListEndAhead DEF TriggerTargetEnd
<1>2. \A j \in Nat : j >= i => ListEnd(j + 1, "COMMA") \in Nat /\ i <= ListEnd(j + 1, "COMMA")
  <2> TAKE j \in Nat
  <2>1. j + 1 \in Nat
    OBVIOUS
  <2> QED BY <2>1, ListEndAhead
<1>3. EventsEnd(i) \in Nat /\ i <= EventsEnd(i)
  <2>1. CASE Tok(i + 1) = "INSTEAD" /\ Tok(i + 2) = "OF"
    BY <1>2, <2>1 DEF EventsEnd
  <2>2. CASE Tok(i + 1) = "INSTEAD" /\ Tok(i + 2) # "OF"
    BY <1>2, <2>2 DEF EventsEnd
  <2>3. CASE Tok(i + 1) \in {"AFTER", "FOR"}
    BY <1>2, <2>3 DEF EventsEnd
  <2>4. CASE Tok(i + 1) \notin {"INSTEAD", "AFTER", "FOR"}
    BY <1>2, <2>4 DEF EventsEnd
  <2> QED BY <2>1, <2>2, <2>3, <2>4
<1>4. NotForReplicationEnd(i) \in Nat /\ i <= NotForReplicationEnd(i)
  BY DEF NotForReplicationEnd
<1> QED BY <1>1, <1>3, <1>4

(* The place where the parentheses opened in front of i are closed.        *)
LEMMA ClosingOK ==
    ASSUME Reading, NEW i, i \in Nat
    PROVE  Closing(i) \in Nat /\ i <= Closing(i)
<1> DEFINE places == {j \in (i + 1)..(i + Len(input) + 1) : Tok(j) = "EOF" \/ Within(i + 1, j) = 0}
<1>1. Len(input) \in Nat /\ \A j \in Nat : j > Len(input) => Tok(j) = "EOF"
  BY TokAhead
<1>2. i + Len(input) + 1 \in places
  BY <1>1
<1>3. places \in SUBSET Nat /\ places # {} /\ \A j \in places : i <= j
  <2>1. places # {}
    BY <1>2
  <2>2. \A j \in places : j \in Nat /\ i <= j
    OBVIOUS
  <2> QED BY <2>1, <2>2
<1>4. First(places) \in Nat /\ i <= First(places)
  <2> HIDE DEF places
  <2> QED BY <1>3, FirstAhead
<1> QED BY <1>4 DEF Closing

LEMMA SourceEndOK ==
    ASSUME Reading, pos \in Nat
    PROVE  SourceEnd \in Nat /\ pos <= SourceEnd
<1> DEFINE places == {j \in (pos + 1)..(pos + Len(input) + 1) : Tok(j) = "EOF" \/ Within(pos + 2, j) = 0}
<1>1. Len(input) \in Nat /\ \A j \in Nat : j > Len(input) => Tok(j) = "EOF"
  BY TokAhead
<1>2. pos + Len(input) + 1 \in places
  BY <1>1
<1>3. places \in SUBSET Nat /\ places # {} /\ \A j \in places : pos <= j
  <2>1. places # {}
    BY <1>2
  <2>2. \A j \in places : j \in Nat /\ pos <= j
    OBVIOUS
  <2> QED BY <2>1, <2>2
<1>4. First(places) \in Nat /\ pos <= First(places)
  <2> HIDE DEF places
  <2> QED BY <1>3, FirstAhead
<1> QED BY <1>4 DEF SourceEnd

LEMMA WithOptionsOK ==
    ASSUME Reading, NEW i, i \in Nat
    PROVE  WithOptions(i) \in Nat /\ i <= WithOptions(i)
<1>1. Closing(i + 2) \in Nat /\ i + 2 <= Closing(i + 2)
  BY ClosingOK
<1> QED BY <1>1 DEF WithOptions

LEMMA NamesEndOK ==
    ASSUME Reading, NEW i, i \in Nat
    PROVE  NamesEnd(i) \in Nat /\ i <= NamesEnd(i)
<1> DEFINE places == {j \in i..(i + Len(input) + 1) : (j - i) % 2 = 0 /\ Tok(j + 1) \notin {"DOT", "COMMA"}}
<1>1. Len(input) \in Nat /\ \A j \in Nat : j > Len(input) => Tok(j) = "EOF"
  BY TokAhead
<1>2. \/ Len(input) % 2 = 0
      \/ (Len(input) + 1) % 2 = 0
  BY <1>1
<1>3. i + Len(input) \in places \/ i + Len(input) + 1 \in places
  BY <1>1, <1>2
<1>4. places \in SUBSET Nat /\ places # {} /\ \A j \in places : i <= j
  <2>1. places # {}
    BY <1>3
  <2>2. \A j \in places : j \in Nat /\ i <= j
    OBVIOUS
  <2> QED BY <2>1, <2>2
<1>5. First(places) \in Nat /\ i <= First(places)
  <2> HIDE DEF places
  <2> QED BY <1>4, FirstAhead
<1> QED BY <1>5 DEF NamesEnd

LEMMA SmallEndsOK ==
    ASSUME NEW i, i \in Nat
    PROVE  /\ Clustered(i) \in Nat /\ i <= Clustered(i)
           /\ AfterIfExists(i) \in Nat /\ i <= AfterIfExists(i)
BY DEF Clustered, AfterIfExists

LEMMA RestOfStatementOK ==
    ASSUME Reading, pos \in Nat
    PROVE  RestOfStatement \in Nat
<1>1. pos + 1 \in Nat
  OBVIOUS
<1>2. FirstIn(pos + 1, {"SEMICOLON", "GO"}) \in Nat /\ pos + 1 <= FirstIn(pos + 1, {"SEMICOLON", "GO"})
  BY <1>1, FirstInAhead
<1> QED BY <1>2 DEF RestOfStatement
-----------------------------------------------------------------------------
(* The loops over items and lists.                                         *)
LEMMA ItemsAhead ==
    ASSUME Reading, NEW past, \A j \in Nat : past[j] \in Nat /\ j <= past[j],
           NEW next, NEW i \in Nat,
           \A j \in Nat : next[j] = IF Tok(j) \in {"RPAREN", "EOF"} THEN j ELSE past[j]
    PROVE  Loop(i, next) \in Nat /\ i <= Loop(i, next)
<1>1. Len(input) + 1 \in Nat /\ \A j \in Nat : j >= Len(input) + 1 => Tok(j) = "EOF"
  BY TokAhead
<1>2. Ahead(next, Len(input) + 1)
  BY <1>1 DEF Ahead
<1> QED BY <1>1, <1>2, LoopOK

LEMMA ValueOptionOK == \A j \in Nat : ValueOption(j) \in Nat /\ j <= ValueOption(j)
BY DEF ValueOption

LEMMA OptionsPastOK ==
    ASSUME Reading, NEW i, NEW stops, i \in Nat
    PROVE  OptionsPast(i, stops) \in Nat /\ i <= OptionsPast(i, stops)
<1> DEFINE past == [j \in Nat |-> ValueOption(j)]
           ends == stops \cup {"EOF"}
           next == [j \in Nat |-> IF Tok(j) \notin ends /\ Tok(ValueOption(j)) = "COMMA"
                                  THEN ValueOption(j) + 1 ELSE j]
           last == Loop(i, next)
<1>1. \A j \in Nat : past[j] = ValueOption(j) /\ past[j] \in Nat /\ j <= past[j]
  BY ValueOptionOK
<1>2. \A j \in Nat : next[j] = IF Tok(j) \notin ends /\ Tok(past[j]) = "COMMA" THEN past[j] + 1 ELSE j
  OBVIOUS
<1>3. Len(input) + 1 \in Nat /\ \A j \in Nat : j >= Len(input) + 1 => Tok(j) = "EOF"
  BY TokAhead
<1>4. last \in Nat /\ i <= last
  <2>1. Ahead(next, Len(input) + 1)
    <3> HIDE DEF past, next
    <3> QED BY <1>1, <1>2, <1>3 DEF Ahead
  <2> QED BY <1>3, <2>1, LoopOK
<1>5. OptionsPast(i, stops) = IF Tok(last) \in ends THEN last ELSE ValueOption(last)
  BY Zenon DEF OptionsPast, ListPast
<1> HIDE DEF last, ends
<1> QED BY <1>4, <1>5, ValueOptionOK

LEMMA RowsOK ==
    /\ \A j \in Nat : BackupLocation(j) \in Nat /\ j <= BackupLocation(j)
    /\ \A j \in Nat : DialogOption(j) \in Nat /\ j <= DialogOption(j)
    /\ \A j \in Nat : Pair(j) \in Nat /\ j <= Pair(j)
    /\ \A j \in Nat : MessagePast(j) \in Nat /\ j <= MessagePast(j)
<1>1. \A j \in Nat : BackupLocation(j) \in Nat /\ j <= BackupLocation(j)
  BY StepsTake, Row3 DEF BackupLocation
<1>2. \A j \in Nat : DialogOption(j) \in Nat /\ j <= DialogOption(j)
  BY StepsTake, Row3 DEF DialogOption
<1>3. \A j \in Nat : Pair(j) \in Nat /\ j <= Pair(j)
  BY StepsTake, Row4 DEF Pair
<1>4. \A j \in Nat : MessagePast(j) \in Nat /\ j <= MessagePast(j)
  BY StepsTake, Row1, Row2 DEF MessagePast
<1> QED BY <1>1, <1>2, <1>3, <1>4

LEMMA parseBackupLocationsOK ==
    ASSUME Reading, NEW i, i \in Nat
    PROVE  parseBackupLocations(i) \in Nat /\ i <= parseBackupLocations(i)
<1> DEFINE past == [j \in Nat |-> BackupLocation(j)]
           next == [j \in Nat |-> IF Tok(j) \notin {} /\ Tok(BackupLocation(j)) = "COMMA"
                                  THEN BackupLocation(j) + 1 ELSE j]
           last == Loop(i, next)
<1>1. \A j \in Nat : past[j] = BackupLocation(j) /\ past[j] \in Nat /\ j <= past[j]
  BY RowsOK
<1>2. \A j \in Nat : next[j] = IF Tok(j) \notin {} /\ Tok(past[j]) = "COMMA" THEN past[j] + 1 ELSE j
  OBVIOUS
<1>3. Len(input) + 1 \in Nat /\ \A j \in Nat : j >= Len(input) + 1 => Tok(j) = "EOF"
  BY TokAhead
<1>4. last \in Nat /\ i <= last
  <2>1. Ahead(next, Len(input) + 1)
    <3> HIDE DEF past, next
    <3> QED BY <1>1, <1>2, <1>3 DEF Ahead
  <2> QED BY <1>3, <2>1, LoopOK
<1>5. parseBackupLocations(i) = IF Tok(last) \in {} THEN last ELSE BackupLocation(last)
  BY Zenon DEF parseBackupLocations, ListPast
<1> HIDE DEF last
<1> QED BY <1>4, <1>5, RowsOK

LEMMA DialogOptionsPastOK ==
    ASSUME Reading, NEW i, i \in Nat
    PROVE  DialogOptionsPast(i) \in Nat /\ i <= DialogOptionsPast(i)
<1> DEFINE past == [j \in Nat |-> DialogOption(j)]
           next == [j \in Nat |-> IF Tok(j) \notin {"SEMICOLON", "EOF"} /\ Tok(DialogOption(j)) = "COMMA"
                                  THEN DialogOption(j) + 1 ELSE j]
           last == Loop(i, next)
<1>1. \A j \in Nat : past[j] = DialogOption(j) /\ past[j] \in Nat /\ j <= past[j]
  BY RowsOK
<1>2. \A j \in Nat : next[j] = IF Tok(j) \notin {"SEMICOLON", "EOF"} /\ Tok(past[j]) = "COMMA" THEN past[j] + 1 ELSE j
  OBVIOUS
<1>3. Len(input) + 1 \in Nat /\ \A j \in Nat : j >= Len(input) + 1 => Tok(j) = "EOF"
  BY TokAhead
<1>4. last \in Nat /\ i <= last
  <2>1. Ahead(next, Len(input) + 1)
    <3> HIDE DEF past, next
    <3> QED BY <1>1, <1>2, <1>3 DEF Ahead
  <2> QED BY <1>3, <2>1, LoopOK
<1>5. DialogOptionsPast(i) = IF Tok(last) \in {"SEMICOLON", "EOF"} THEN last ELSE DialogOption(last)
  BY Zenon DEF DialogOptionsPast, ListPast
<1> HIDE DEF last
<1> QED BY <1>4, <1>5, RowsOK

LEMMA PairsEndOK ==
    ASSUME Reading, NEW i, i \in Nat
    PROVE  ItemsEnd(i, Pair) \in Nat /\ i <= ItemsEnd(i, Pair)
<1> DEFINE past == [j \in Nat |-> Pair(j)]
           next == [j \in Nat |-> IF Tok(j) \in {"RPAREN", "EOF"} THEN j ELSE Pair(j)]
<1>1. \A j \in Nat : past[j] \in Nat /\ j <= past[j]
  BY RowsOK
<1>2. \A j \in Nat : next[j] = IF Tok(j) \in {"RPAREN", "EOF"} THEN j ELSE past[j]
  OBVIOUS
<1>3. Loop(i, next) \in Nat /\ i <= Loop(i, next)
  <2> HIDE DEF past, next
  <2> QED BY <1>1, <1>2, ItemsAhead
<1> QED BY <1>3, Zenon DEF ItemsEnd

LEMMA MessagesEndOK ==
    ASSUME Reading, NEW i, i \in Nat
    PROVE  ItemsEnd(i, MessagePast) \in Nat /\ i <= ItemsEnd(i, MessagePast)
<1> DEFINE past == [j \in Nat |-> MessagePast(j)]
           next == [j \in Nat |-> IF Tok(j) \in {"RPAREN", "EOF"} THEN j ELSE MessagePast(j)]
<1>1. \A j \in Nat : past[j] \in Nat /\ j <= past[j]
  BY RowsOK
<1>2. \A j \in Nat : next[j] = IF Tok(j) \in {"RPAREN", "EOF"} THEN j ELSE past[j]
  OBVIOUS
<1>3. Loop(i, next) \in Nat /\ i <= Loop(i, next)
  <2> HIDE DEF past, next
  <2> QED BY <1>1, <1>2, ItemsAhead
<1> QED BY <1>3, Zenon DEF ItemsEnd

LEMMA FulltextColumnPastOK ==
    ASSUME Reading, NEW i, i \in Nat
    PROVE  FulltextColumnPast(i) \in Nat /\ i <= FulltextColumnPast(i)
<1> DEFINE words == [j \in Nat |-> CASE Tok(j) = "TYPE_WARNING" -> Row(j + 1, <<OptNamed("COLUMN")>>)
                                     [] Tok(j) = "LANGUAGE"     -> j + 2
                                     [] OTHER                   -> j]
<1>1. Len(input) + 1 \in Nat /\ \A j \in Nat : j >= Len(input) + 1 => Tok(j) = "EOF"
  BY TokAhead
<1>2. \A j \in Nat : /\ Row(j + 1, <<OptNamed("COLUMN")>>) \in Nat
                     /\ j <= Row(j + 1, <<OptNamed("COLUMN")>>)
  BY StepsTake, Row1
<1>3. Ahead(words, Len(input) + 1)
  <2>1. ASSUME NEW j \in Nat PROVE words[j] \in Nat /\ j <= words[j]
    BY <1>2
  <2>2. ASSUME NEW j \in Nat, j >= Len(input) + 1 PROVE words[j] = j
    <3>1. Tok(j) = "EOF"
      BY <1>1, <2>2
    <3> QED BY <3>1
  <2> HIDE DEF words
  <2> QED BY <2>1, <2>2 DEF Ahead
<1>4. Loop(i + 1, words) \in Nat /\ i + 1 <= Loop(i + 1, words)
  BY <1>1, <1>3, LoopOK
<1> HIDE DEF words
<1>5. /\ Row(Loop(i + 1, words), <<Opt("COMMA")>>) \in Nat
      /\ i <= Row(Loop(i + 1, words), <<Opt("COMMA")>>)
  BY <1>4, StepsTake, Row1
<1> USE DEF words
<1> QED BY <1>5, Zenon DEF FulltextColumnPast

LEMMA FulltextColumnsEndOK ==
    ASSUME Reading, NEW i, i \in Nat
    PROVE  ItemsEnd(i, FulltextColumnPast) \in Nat /\ i <= ItemsEnd(i, FulltextColumnPast)
<1> DEFINE past == [j \in Nat |-> FulltextColumnPast(j)]
           next == [j \in Nat |-> IF Tok(j) \in {"RPAREN", "EOF"} THEN j ELSE FulltextColumnPast(j)]
<1>1. \A j \in Nat : past[j] \in Nat /\ j <= past[j]
  BY FulltextColumnPastOK
<1>2. \A j \in Nat : next[j] = IF Tok(j) \in {"RPAREN", "EOF"} THEN j ELSE past[j]
  OBVIOUS
<1>3. Loop(i, next) \in Nat /\ i <= Loop(i, next)
  <2> HIDE DEF past, next
  <2> QED BY <1>1, <1>2, ItemsAhead
<1> QED BY <1>3, Zenon DEF ItemsEnd

LEMMA PairsPastOK ==
    ASSUME Reading, NEW i, i \in Nat
    PROVE  PairsPast(i) \in Nat /\ i <= PairsPast(i)
<1>1. ItemsEnd(i + 2, Pair) \in Nat /\ i + 2 <= ItemsEnd(i + 2, Pair)
  BY PairsEndOK
<1> QED BY <1>1 DEF PairsPast
-----------------------------------------------------------------------------
LEMMA NameItemsOK ==
    /\ \A j \in Nat : NamePast(j) \in Nat /\ j <= NamePast(j)
    /\ \A j \in Nat : AlteredColumnPast(j) \in Nat /\ j <= AlteredColumnPast(j)
<1>1. \A j \in Nat : NamePast(j) \in Nat /\ j <= NamePast(j)
  BY StepsTake, Row2 DEF NamePast
<1>2. \A j \in Nat : AlteredColumnPast(j) \in Nat /\ j <= AlteredColumnPast(j)
  BY StepsTake, Row3 DEF AlteredColumnPast
<1> QED BY <1>1, <1>2

LEMMA ProtectionPastOK ==
    ASSUME NEW i, i \in Nat
    PROVE  ProtectionPast(i) \in Nat /\ i <= ProtectionPast(i)
BY StepsTake, Row2 DEF ProtectionPast

LEMMA AlgorithmPastOK ==
    ASSUME NEW i, i \in Nat
    PROVE  AlgorithmPast(i) \in Nat /\ i <= AlgorithmPast(i)
BY StepsTake, Row2 DEF AlgorithmPast

LEMMA FilePastOK ==
    ASSUME NEW i, NEW j, i \in Nat, j \in FilePast(i)
    PROVE  j \in Nat /\ i <= j
BY StepsTake, Row2 DEF FilePast

LEMMA FileClausePastOK ==
    ASSUME NEW i, i \in Nat
    PROVE  FileClausePast(i) \in Nat /\ i <= FileClausePast(i)
BY StepsTake, Row2 DEF FileClausePast

LEMMA SideOK ==
    ASSUME NEW i, NEW word, NEW object, i \in Nat
    PROVE  Side(i, word, object) \in Nat /\ i <= Side(i, word, object)
BY StepsTake, Row2 DEF Side

LEMMA LoginSourceOK ==
    ASSUME pos \in Nat
    PROVE  LoginSource \in Nat /\ pos <= LoginSource
BY StepsTake, Row1 DEF LoginSource

LEMMA NamesPastOK ==
    ASSUME Reading, NEW i, i \in Nat
    PROVE  /\ NamesPast(i) \in Nat /\ i <= NamesPast(i)
           /\ DatabasesPast(i) \in Nat /\ i <= DatabasesPast(i)
<1>1. \A j \in Nat : NamesPast(j) \in Nat /\ j <= NamesPast(j)
  BY ListEndAhead DEF NamesPast
<1> QED BY <1>1 DEF DatabasesPast

LEMMA OptionEndsOK ==
    ASSUME Reading, NEW j, pos \in Nat, j \in OptionEnds
    PROVE  j \in Nat /\ pos <= j
<1>1. Closing(pos + 1) \in Nat /\ pos + 1 <= Closing(pos + 1)
  BY ClosingOK
<1> DEFINE text == Row(pos + 1, <<OptText>>)
<1>2. text \in Nat /\ pos + 1 <= text
  BY StepsTake, Row1
<1> HIDE DEF text
<1>3. Row(text + 1, <<OptText>>) \in Nat /\ text + 1 <= Row(text + 1, <<OptText>>)
  BY <1>2, StepsTake, Row1
<1>4. CASE Cur = "MOVE"
  <2>1. j \in {text, Row(text + 1, <<OptText>>)}
    BY <1>4 DEF OptionEnds, text
  <2> QED BY <1>2, <1>3, <2>1
<1>5. CASE Cur # "MOVE"
  BY <1>1, <1>5 DEF OptionEnds
<1> QED BY <1>4, <1>5

LEMMA GovernorEndsOK ==
    ASSUME Reading, NEW j, pos \in Nat, j \in GovernorEnds
    PROVE  j \in Nat /\ pos <= j
<1> DEFINE Name(i)  == LET past == Row(i, <<Opt("EQ")>>) IN IF Tok(past) = "NULL" THEN past ELSE ListEnd(past, "DOT")
<1>1. ASSUME NEW i \in Nat, pos <= i
      PROVE  /\ Row(Name(i) + 1, <<Opt("RPAREN")>>) \in Nat
             /\ pos <= Row(Name(i) + 1, <<Opt("RPAREN")>>)
  <2>1. Row(i, <<Opt("EQ")>>) \in Nat /\ i <= Row(i, <<Opt("EQ")>>)
    BY StepsTake, Row1
  <2>2. /\ ListEnd(Row(i, <<Opt("EQ")>>), "DOT") \in Nat
        /\ i <= ListEnd(Row(i, <<Opt("EQ")>>), "DOT")
    BY <2>1, ListEndAhead
  <2>3. Name(i) \in Nat /\ i <= Name(i)
    BY <2>1, <2>2
  <2> HIDE DEF Name
  <2> QED BY <1>1, <2>3, StepsTake, Row1
<1>2. CASE j \in ClassifierEnds
  <2> DEFINE start == IF Tok(pos + 3) = "CLASSIFIER" THEN {pos + 4}
                      ELSE {pos + 3} \cup IF Tok(pos + 3) \in Texts THEN {pos + 4} ELSE {}
  <2>1. PICK i \in start : j = Row(Name(i) + 1, <<Opt("RPAREN")>>)
    BY <1>2 DEF ClassifierEnds
  <2>2. i \in Nat /\ pos <= i
    OBVIOUS
  <2> QED BY <1>1, <2>1, <2>2
<1>3. CASE j \notin ClassifierEnds
  <2>1. Row(pos + 2, <<Opt("STATISTICS")>>) \in Nat /\ pos <= Row(pos + 2, <<Opt("STATISTICS")>>)
    BY StepsTake, Row1
  <2>2. j \in {pos + 1, pos + 2, Row(pos + 2, <<Opt("STATISTICS")>>)}
    BY <1>3 DEF GovernorEnds, Texts
  <2> QED BY <2>1, <2>2
<1> QED BY <1>2, <1>3

LEMMA ColumnEndsOK ==
    ASSUME Reading, pos \in Nat
    PROVE  /\ GeneratedEnd \in Nat /\ pos <= GeneratedEnd
           /\ InlineIndexEnd \in Nat /\ pos <= InlineIndexEnd
<1>1. \A i \in Nat : /\ WithOptions(i) \in Nat /\ i <= WithOptions(i)
                     /\ Clustered(i) \in Nat /\ i <= Clustered(i)
  BY WithOptionsOK, SmallEndsOK
<1>2. InlineIndexEnd \in Nat /\ pos <= InlineIndexEnd
  <2> DEFINE k == Clustered(pos + 2)
             hash == IF Tok(k + 1) = "HASH" THEN k + 1 ELSE k
  <2>1. k \in Nat /\ pos + 2 <= k
    BY DEF Clustered
  <2>2. hash \in Nat /\ pos + 2 <= hash
    BY <2>1
  <2>3. WithOptions(hash) \in Nat /\ hash <= WithOptions(hash)
    <3> HIDE DEF hash
    <3> QED BY <1>1, <2>2
  <2> QED BY <2>2, <2>3 DEF InlineIndexEnd
<1>3. GeneratedEnd \in Nat /\ pos <= GeneratedEnd
  BY DEF GeneratedEnd
<1> QED BY <1>2, <1>3

LEMMA IndexTailOK ==
    ASSUME Reading, pos \in Nat
    PROVE  IndexTail \in Nat /\ pos <= IndexTail
<1> DEFINE group == CASE Peek # "ON"                              -> pos
                      [] Peek = "ON" /\ Tok(pos + 3) # "LPAREN" -> pos + 2
                      [] OTHER                                    -> FirstIn(pos + 4, {"RPAREN"})
           before == FirstIn(group + 1, {"WITH", "SEMICOLON", "GO"}) - 1
<1>1. FirstIn(pos + 4, {"RPAREN"}) \in Nat /\ pos + 4 <= FirstIn(pos + 4, {"RPAREN"})
  BY FirstInAhead
<1>2. group \in Nat /\ pos <= group
  BY <1>1
<1>3. before \in Nat /\ group <= before
  <2> HIDE DEF group
  <2>1. group + 1 \in Nat
    BY <1>2
  <2>2. /\ FirstIn(group + 1, {"WITH", "SEMICOLON", "GO"}) \in Nat
        /\ group + 1 <= FirstIn(group + 1, {"WITH", "SEMICOLON", "GO"})
    BY <2>1, FirstInAhead
  <2> QED BY <1>2, <2>2
<1>4. WithOptions(before) \in Nat /\ before <= WithOptions(before)
  <2> HIDE DEF before
  <2> QED BY <1>3, WithOptionsOK
<1>5. IndexTail = IF Tok(group + 1) = "USING" THEN WithOptions(before) ELSE group
  BY Zenon DEF IndexTail
<1> HIDE DEF group, before
<1> QED BY <1>2, <1>3, <1>4, <1>5

LEMMA ListsEndOK ==
    ASSUME Reading, NEW i, i \in Nat
    PROVE  /\ ItemsEnd(i, NamePast) \in Nat /\ i <= ItemsEnd(i, NamePast)
           /\ ItemsEnd(i, AlteredColumnPast) \in Nat /\ i <= ItemsEnd(i, AlteredColumnPast)
<1>1. ItemsEnd(i, NamePast) \in Nat /\ i <= ItemsEnd(i, NamePast)
  <2> DEFINE past == [j \in Nat |-> NamePast(j)]
             next == [j \in Nat |-> IF Tok(j) \in {"RPAREN", "EOF"} THEN j ELSE NamePast(j)]
  <2>1. \A j \in Nat : past[j] \in Nat /\ j <= past[j]
    BY NameItemsOK
  <2>2. \A j \in Nat : next[j] = IF Tok(j) \in {"RPAREN", "EOF"} THEN j ELSE past[j]
    OBVIOUS
  <2>3. Loop(i, next) \in Nat /\ i <= Loop(i, next)
    <3> HIDE DEF past, next
    <3> QED BY <2>1, <2>2, ItemsAhead
  <2> QED BY <2>3, Zenon DEF ItemsEnd
<1>2. ItemsEnd(i, AlteredColumnPast) \in Nat /\ i <= ItemsEnd(i, AlteredColumnPast)
  <2> DEFINE past == [j \in Nat |-> AlteredColumnPast(j)]
             next == [j \in Nat |-> IF Tok(j) \in {"RPAREN", "EOF"} THEN j ELSE AlteredColumnPast(j)]
  <2>1. \A j \in Nat : past[j] \in Nat /\ j <= past[j]
    BY NameItemsOK
  <2>2. \A j \in Nat : next[j] = IF Tok(j) \in {"RPAREN", "EOF"} THEN j ELSE past[j]
    OBVIOUS
  <2>3. Loop(i, next) \in Nat /\ i <= Loop(i, next)
    <3> HIDE DEF past, next
    <3> QED BY <2>1, <2>2, ItemsAhead
  <2> QED BY <2>3, Zenon DEF ItemsEnd
<1> QED BY <1>1, <1>2
-----------------------------------------------------------------------------
(* Those that count from the cursor.                                       *)
LEMMA SmallStepsOK ==
    /\ \A words : AliasOf(words) \in Nat
    /\ \A k \in Nat : RowsAt(k) \in Nat /\ k <= RowsAt(k)
    /\ RestoredName \in Nat
    /\ JoinAt \in Nat
<1>1. \A words : AliasOf(words) \in Nat
  BY DEF AliasOf
<1>2. \A k \in Nat : RowsAt(k) \in Nat /\ k <= RowsAt(k)
  BY DEF RowsAt
<1>3. RestoredName \in Nat
  BY DEF RestoredName
<1>4. JoinAt \in Nat
  BY DEF JoinAt
<1> QED BY <1>1, <1>2, <1>3, <1>4

LEMMA MergeIntoOK ==
    ASSUME Reading, pos \in Nat
    PROVE  MergeInto \in Nat
<1> DEFINE top == CASE Peek # "TOP"                            -> 0
                    [] Peek = "TOP" /\ Tok(pos + 2) = "LPAREN" -> FirstIn(pos + 3, {"RPAREN"}) - pos
                    [] OTHER                                   -> 1
<1>1. FirstIn(pos + 3, {"RPAREN"}) \in Nat /\ pos + 3 <= FirstIn(pos + 3, {"RPAREN"})
  BY FirstInAhead
<1>2. top \in Nat
  BY <1>1
<1>3. MergeInto = IF Tok(pos + top + 1) = "INTO" THEN top + 2 ELSE top + 1
  BY Zenon DEF MergeInto
<1> HIDE DEF top
<1> QED BY <1>2, <1>3

LEMMA IntoEndOK ==
    ASSUME Reading, pos \in Nat
    PROVE  IntoEnd \in Nat
<1> DEFINE name  == ListEnd(pos + 2, "DOT")
           group == IF Tok(name + 1) = "ON" THEN name + 2 ELSE name
<1>1. name \in Nat /\ pos + 2 <= name
  BY ListEndAhead
<1> HIDE DEF name
<1>2. group \in Nat /\ pos + 2 <= group
  BY <1>1
<1> HIDE DEF group
<1>3. FirstIn(group + 2, {"RPAREN"}) \in Nat /\ pos <= FirstIn(group + 2, {"RPAREN"})
  BY <1>2, FirstInAhead
<1>4. IntoEnd \in {0, FirstIn(group + 2, {"RPAREN"}) - pos, group - pos}
  BY DEF IntoEnd, name, group
<1> QED BY <1>2, <1>3, <1>4

LEMMA ForUpdateEndOK ==
    ASSUME Reading, pos \in Nat
    PROVE  ForUpdateEnd \in Nat
<1> DEFINE Ends(j) == Tok(j) \in {"SEMICOLON", "EOF", "GO"} \/ Tok(j + 1) # "COMMA"
           names == {j \in (pos + 4)..(pos + Len(input) + 5) : (j - pos) % 2 = 0 /\ Ends(j)}
<1>1. Len(input) \in Nat /\ \A j \in Nat : j > Len(input) => Tok(j) = "EOF"
  BY TokAhead
<1>2. \/ (Len(input) + 4) % 2 = 0
      \/ (Len(input) + 5) % 2 = 0
  BY <1>1
<1>3. pos + Len(input) + 4 \in names \/ pos + Len(input) + 5 \in names
  BY <1>1, <1>2
<1>4. names \in SUBSET Nat /\ names # {} /\ \A j \in names : pos <= j
  <2>1. names # {}
    BY <1>3
  <2>2. \A j \in names : j \in Nat /\ pos <= j
    OBVIOUS
  <2> QED BY <2>1, <2>2
<1>5. First(names) \in Nat /\ pos <= First(names)
  <2> HIDE DEF names
  <2> QED BY <1>4, FirstAhead
<1>6. ForUpdateEnd \in {0, 1, 2, First(names) - pos}
  BY DEF ForUpdateEnd
<1> QED BY <1>5, <1>6

(* The column lists of USE HINT and CREATE STATISTICS.                     *)
LEMMA HintsEndOK ==
    ASSUME Reading, pos \in Nat
    PROVE  LET Stops(j) == Tok(j) \in {"RPAREN", "EOF"} \/ Tok(j + 1) # "COMMA"
               last == First({j \in (pos + 3)..(pos + Len(input) + 4) : (j - pos) % 2 = 1 /\ Stops(j)})
           IN  last \in Nat /\ pos <= last
<1> DEFINE Stops(j) == Tok(j) \in {"RPAREN", "EOF"} \/ Tok(j + 1) # "COMMA"
           places == {j \in (pos + 3)..(pos + Len(input) + 4) : (j - pos) % 2 = 1 /\ Stops(j)}
<1>1. Len(input) \in Nat /\ \A j \in Nat : j > Len(input) => Tok(j) = "EOF"
  BY TokAhead
<1>2. \/ (Len(input) + 3) % 2 = 1
      \/ (Len(input) + 4) % 2 = 1
  BY <1>1
<1>3. pos + Len(input) + 3 \in places \/ pos + Len(input) + 4 \in places
  BY <1>1, <1>2
<1>4. places \in SUBSET Nat /\ places # {} /\ \A j \in places : pos <= j
  <2>1. places # {}
    BY <1>3
  <2>2. \A j \in places : j \in Nat /\ pos <= j
    OBVIOUS
  <2> QED BY <2>1, <2>2
<1>5. First(places) \in Nat /\ pos <= First(places)
  <2> HIDE DEF places
  <2> QED BY <1>4, FirstAhead
<1> QED BY <1>5

LEMMA StatisticsEndOK ==
    ASSUME Reading, NEW table, table \in Nat
    PROVE  LET Ends(j) == Tok(j) \in {"RPAREN", "EOF"} \/ Tok(j + 1) # "COMMA"
               names == {j \in (table + 2)..(table + Len(input) + 3) : (j - table) % 2 = 0 /\ Ends(j)}
           IN  First(names) \in Nat /\ table <= First(names)
<1> DEFINE Ends(j) == Tok(j) \in {"RPAREN", "EOF"} \/ Tok(j + 1) # "COMMA"
           places == {j \in (table + 2)..(table + Len(input) + 3) : (j - table) % 2 = 0 /\ Ends(j)}
<1>1. Len(input) \in Nat /\ \A j \in Nat : j > Len(input) => Tok(j) = "EOF"
  BY TokAhead
<1>2. \/ (Len(input) + 2) % 2 = 0
      \/ (Len(input) + 3) % 2 = 0
  BY <1>1
<1>3. table + Len(input) + 2 \in places \/ table + Len(input) + 3 \in places
  BY <1>1, <1>2
<1>4. places \in SUBSET Nat /\ places # {} /\ \A j \in places : table <= j
  <2>1. places # {}
    BY <1>3
  <2>2. \A j \in places : j \in Nat /\ table <= j
    OBVIOUS
  <2> QED BY <2>1, <2>2
<1>5. First(places) \in Nat /\ table <= First(places)
  <2> HIDE DEF places
  <2> QED BY <1>4, FirstAhead
<1> QED BY <1>5

-----------------------------------------------------------------------------
(* What the four sorts of points are good for: to be called or gone on     *)
(* with, to take what was returned, and to pass on what is held.           *)
LEMMA Forward ==
    /\ \A q : Begins(q) => Resumes(q) /\ Passes(q)
    /\ \A q, fn : Begins(fn) => Calls(q, fn)
    /\ \A q : Takes(q) => Resumes(q)
    /\ \A q : Gets(q) => Resumes(q) /\ q \in MayGetNil
    /\ \A q, fn : Gets(q) /\ Leaves(fn) => Calls(q, fn)
BY DEF Begins, Takes, Gets, Leaves, Ordinary, Calls, Resumes, Passes

LEMMA ForwardMore ==
    /\ \A q : Keeps(q) => Resumes(q) /\ Passes(q) /\ q \in NilHolders
    /\ \A q : TakesMore(q) => Resumes(q) /\ q \in NilHolders
    /\ \A q : GetsMore(q) => Resumes(q) /\ q \in NilHolders /\ q \in MayGetNil
    /\ \A q, fn : GetsMore(q) /\ Leaves(fn) => Calls(q, fn)
BY DEF Leaves, Ordinary, Calls, Resumes, Passes, Holder, Keeps, TakesMore, GetsMore

LEMMA AtOne == \A p, q : At(p) /\ At(q) => p = q
BY DEF At

LEMMA AtPoint ==
    ASSUME ProgramInv, NEW p, At(p)
    PROVE  stack # <<>> /\ Reading /\ pos \in Nat /\ Top.at \in Nat
<1>1. stack # <<>>
  BY DEF At
<1> QED BY <1>1, AtTop DEF Reading

LEMMA Kept ==
    ASSUME ProgramInv, NEW p, NEW x, NEW kids, At(p), kids = Top.kids,
           Begins(p) \/ Takes(p) \/ Gets(p) \/ Leaves(p)
    PROVE  Holds(x, kids)
<1>1. stack # <<>> /\ Top.pc = p /\ p \notin NilHolders
  BY DEF At, Begins, Leaves, Takes, Gets, Ordinary
<1> QED BY <1>1, TopHeld

LEMMA KeptMore ==
    ASSUME ProgramInv, NEW p, NEW x, NEW kids, At(p), kids = Top.kids, x \in NilHolders
    PROVE  Holds(x, kids)
<1>1. stack # <<>> /\ Top.pc = p
  BY DEF At
<1> QED BY <1>1, TopHeld

LEMMA HandedOn ==
    ASSUME NEW p, NEW fn, At(p), Begins(p) \/ Takes(p) \/ Leaves(p),
           Begins(fn) \/ (Leaves(p) /\ Leaves(fn))
    PROVE  Hands(fn)
BY DEF At, Begins, Leaves, Takes, Ordinary, Hands

LEMMA Left ==
    ASSUME NEW p, At(p), Leaves(p)
    PROVE  Top.pc \in MayReturnNil
BY DEF At, Leaves

LEMMA Found ==
    ASSUME ProgramInv, NEW p, At(p), Takes(p)
    PROVE  \A x : Holds(x, Got) /\ Holds(x, GotIfAny) /\ Passes(x)
<1>1. stack # <<>> /\ Top.pc = p
  BY DEF At
<1>2. p \notin NilHolders /\ p \in TakesResult /\ p \notin MayGetNil
  BY DEF Takes, Ordinary
<1>3. \A x : Holds(x, Got) /\ Holds(x, GotIfAny)
  BY <1>1, <1>2, GotHeld
<1>4. \A x : Passes(x)
  BY <1>1, <1>2 DEF Passes
<1> QED BY <1>3, <1>4

LEMMA FoundAny ==
    ASSUME ProgramInv, NEW p, At(p), Gets(p)
    PROVE  /\ \A x : Holds(x, GotIfAny)
           /\ \A x : ret # NIL => Holds(x, Got)
           /\ \A q : Gets(q) => Passes(q)
<1>1. stack # <<>> /\ Top.pc = p
  BY DEF At
<1>2. p \notin NilHolders /\ p \in TakesResult
  BY DEF Gets, Ordinary
<1>3. \A x : Holds(x, GotIfAny)
  BY <1>1, <1>2, GotHeld
<1>4. ASSUME NEW x, ret # NIL PROVE Holds(x, Got)
  BY <1>1, <1>2, <1>4, GotHeld
<1>5. \A q : Gets(q) => Passes(q)
  BY <1>1, <1>2 DEF Passes, Gets
<1> QED BY <1>3, <1>4, <1>5

LEMMA FoundLacking ==
    ASSUME ProgramInv, NEW p, At(p), Gets(p)
    PROVE  /\ \A x : x \in NilHolders => Holds(x, Got)
           /\ \A q : GetsMore(q) => Passes(q)
<1>1. stack # <<>> /\ Top.pc = p
  BY DEF At
<1>2. p \notin NilHolders /\ p \in TakesResult
  BY DEF Gets, Ordinary
<1>4. ASSUME NEW x, x \in NilHolders PROVE Holds(x, Got)
  BY <1>1, <1>2, <1>4, GotHeld
<1>5. \A q : GetsMore(q) => Passes(q)
  BY <1>1, <1>2 DEF Passes, GetsMore
<1> QED BY <1>4, <1>5

LEMMA FoundMore ==
    ASSUME ProgramInv, NEW p, At(p), TakesMore(p) \/ GetsMore(p)
    PROVE  /\ \A x : x \in NilHolders => Holds(x, Got) /\ Holds(x, GotIfAny)
           /\ \A q : TakesMore(p) \/ Gets(q) \/ GetsMore(q) => Passes(q)
<1>1. stack # <<>> /\ Top.pc = p /\ p \in TakesResult /\ (TakesMore(p) => p \notin MayGetNil)
  BY DEF At, TakesMore, GetsMore
<1>2. ASSUME NEW x, x \in NilHolders
      PROVE  Holds(x, Got) /\ Holds(x, GotIfAny)
  BY <1>1, <1>2, GotHeld
<1>3. \A q : TakesMore(p) \/ Gets(q) \/ GetsMore(q) => Passes(q)
  BY <1>1 DEF Passes, Gets, GetsMore
<1> QED BY <1>2, <1>3

(* What was returned is returned in turn.                                  *)
LEMMA PassOn ==
    ASSUME ProgramInv, NEW p, At(p), Takes(p), Return(ret)
    PROVE  ProgramInv'
<1>1. stack # <<>> /\ Top.pc = p
  BY DEF At
<1>2. p \in TakesResult /\ p \notin MayGetNil
  BY DEF Takes
<1>3. ret \in Nat /\ ret <= Len(heap) /\ (errors = <<>> => ret # NIL)
  BY <1>1, <1>2, ResultFound
<1> QED BY <1>1, <1>3, ReturnKeeps

(* A call whose frame is written out.                                      *)
LEMMA CallAtKeeps ==
    ASSUME ProgramInv, stack # <<>>, NEW k, NEW q, NEW kids, NEW fn, NEW prec, NEW i,
           CallFrame(k, q, kids, Frame(fn, prec, i, i, <<>>)), pos + k \in Nat, Resumes(q),
           Holds(q, kids), Calls(q, fn), prec \in Nat, i \in Nat
    PROVE  ProgramInv'
<1> DEFINE callee == Frame(fn, prec, i, i, <<>>)
<1>1. /\ callee \in Frames(ProgramPoints) /\ callee.pc \notin TakesResult
      /\ callee.pc \notin NeedsOperand
      /\ callee.pc \in MayReturnNil => q \in MayGetNil
      /\ Holds(callee.pc, callee.kids)
  BY NewCall
<1>2. CallFrame(k, q, kids, callee)
  OBVIOUS
<1> HIDE DEF callee
<1> QED BY <1>1, <1>2, CallFrameKeeps

(* A panic over a node that is broken.                                     *)
LEMMA BrokenPanicKeeps ==
    ASSUME ProgramInv, stack # <<>>, NEW x, NEW kids, x \notin NilHolders, Holds(x, kids),
           ~ Whole(kids), Panic
    PROVE  ProgramInv'
<1>1. ASSUME errors = <<>> PROVE SomethingLacks
  <2>1. PICK i \in DOMAIN kids : kids[i] = NIL \/ ~ heap[kids[i]].whole
    BY DEF Whole
  <2>2. kids[i] # NIL /\ kids[i] \in Nat /\ kids[i] <= Len(heap)
    BY <2>1, <1>1 DEF Holds, Complete, NIL
  <2>3. kids[i] \in DOMAIN heap
    BY <2>2 DEF ProgramInv, MachineTypeOK, NIL
  <2> QED BY <2>1, <2>2, <2>3 DEF ProgramInv, BrokenByLack
<1> QED BY <1>1, PanicKeeps

LEMMA DeclarationsBegin ==
    /\ Begins("ResultSet") /\ Begins("parseCloseCursorStatement")
    /\ Begins("parseDeclareCursorStatement") /\ Begins("parseDeclareStatement")
    /\ Begins("parseExecParameter") /\ Begins("parseExecStatement")
    /\ Begins("parseExecuteAsStatement") /\ Begins("parseOpenCursorStatement")
    /\ Begins("parseOpenSymmetricKeyStatement") /\ Begins("parseReconfigureStatement")
    /\ Begins("parseResultSets") /\ Begins("parseRevertStatement")
    /\ Begins("parseSetStatement") /\ Begins("parseVariableDef")
<1>1. /\ Begins("ResultSet") /\ Begins("parseCloseCursorStatement")
      /\ Begins("parseDeclareCursorStatement") /\ Begins("parseDeclareStatement")
      /\ Begins("parseExecParameter") /\ Begins("parseExecStatement")
      /\ Begins("parseExecuteAsStatement") /\ Begins("parseOpenCursorStatement")
  BY DEF Begins, Ordinary, ProgramPoints, TakesResult, GoesOn, NeedsOperand, MayReturnNil,
         NilHolders, MayHoldNil, MayLack, MayGetNil
<1>2. /\ Begins("parseOpenSymmetricKeyStatement") /\ Begins("parseReconfigureStatement")
      /\ Begins("parseResultSets") /\ Begins("parseRevertStatement")
      /\ Begins("parseSetStatement") /\ Begins("parseVariableDef")
  BY DEF Begins, Ordinary, ProgramPoints, TakesResult, GoesOn, NeedsOperand, MayReturnNil,
         NilHolders, MayHoldNil, MayLack, MayGetNil
<1> QED BY <1>1, <1>2

LEMMA ExpressionsBegin ==
    /\ Begins("parseAllExpression")
    /\ "parseAtTimeZoneExpression" \in ProgramPoints
    /\ "parseAtTimeZoneExpression" \notin TakesResult
    /\ "parseAtTimeZoneExpression" \in NeedsOperand
    /\ "parseAtTimeZoneExpression" \notin MayReturnNil
    /\ "parseAtTimeZoneExpression" \notin MayGetNil
    /\ "parseAtTimeZoneExpression" \notin NilHolders
    /\ Begins("parseBetweenExpression") /\ Begins("parseCallExpression")
    /\ Begins("parseCaseExpression") /\ Begins("parseCollateExpression")
    /\ Begins("parseDistinctFromExpression") /\ Begins("parseDotExpression")
    /\ Begins("parseExistsExpression") /\ Begins("parseExpression")
    /\ Begins("parseExpressionList") /\ Begins("parseFloatLiteral")
    /\ Begins("parseFunctionLiteral") /\ Begins("parseGroupedExpression")
    /\ Begins("parseInExpression") /\ Begins("parseInfixExpression")
    /\ Begins("parseIsNullExpression") /\ Begins("parseLikeExpression")
    /\ Begins("parseNotInfixExpression") /\ Begins("parsePrefixExpression")
    /\ Begins("parseScopeExpression") /\ Begins("parseSubqueryExpression")
<1>1. /\ Begins("parseAllExpression")
      /\ "parseAtTimeZoneExpression" \in ProgramPoints
      /\ "parseAtTimeZoneExpression" \notin TakesResult
      /\ "parseAtTimeZoneExpression" \in NeedsOperand
      /\ "parseAtTimeZoneExpression" \notin MayReturnNil
      /\ "parseAtTimeZoneExpression" \notin MayGetNil
      /\ "parseAtTimeZoneExpression" \notin NilHolders
      /\ Begins("parseBetweenExpression") /\ Begins("parseCallExpression")
      /\ Begins("parseCaseExpression") /\ Begins("parseCollateExpression")
      /\ Begins("parseDistinctFromExpression") /\ Begins("parseDotExpression")
  BY DEF Begins, Ordinary, ProgramPoints, TakesResult, GoesOn, NeedsOperand, MayReturnNil,
         NilHolders, MayHoldNil, MayLack, MayGetNil
<1>2. /\ Begins("parseExistsExpression") /\ Begins("parseExpression")
      /\ Begins("parseExpressionList") /\ Begins("parseFloatLiteral")
      /\ Begins("parseFunctionLiteral") /\ Begins("parseGroupedExpression")
      /\ Begins("parseInExpression") /\ Begins("parseInfixExpression")
  BY DEF Begins, Ordinary, ProgramPoints, TakesResult, GoesOn, NeedsOperand, MayReturnNil,
         NilHolders, MayHoldNil, MayLack, MayGetNil
<1>3. /\ Begins("parseIsNullExpression") /\ Begins("parseLikeExpression")
      /\ Begins("parseNotInfixExpression") /\ Begins("parsePrefixExpression")
      /\ Begins("parseScopeExpression") /\ Begins("parseSubqueryExpression")
  BY DEF Begins, Ordinary, ProgramPoints, TakesResult, GoesOn, NeedsOperand, MayReturnNil,
         NilHolders, MayHoldNil, MayLack, MayGetNil
<1> QED BY <1>1, <1>2, <1>3

LEMMA SecurityBegin ==
    /\ Begins("parseAlterApplicationRoleStatement") /\ Begins("parseAlterAssemblyStatement")
    /\ Begins("parseAlterLoginStatement") /\ Begins("parseAlterRoleStatement")
    /\ Begins("parseAlterServerRoleStatement") /\ Begins("parseAlterUserStatement")
    /\ Begins("parseCreateApplicationRoleStatement") /\ Begins("parseCreateAssemblyStatement")
    /\ Begins("parseCreateAsymmetricKeyStatement") /\ Begins("parseCreateCertificateStatement")
    /\ Begins("parseCreateCredentialStatement")
    /\ Leaves("parseCreateDatabaseOrScopedCredential")
    /\ Begins("parseCreateDatabaseScopedCredentialStatement")
    /\ Begins("parseCreateLoginStatement") /\ Begins("parseCreateMasterKeyStatement")
    /\ Begins("parseCreateRoleStatement") /\ Begins("parseCreateServerRoleStatement")
    /\ Begins("parseCreateSymmetricKeyStatement") /\ Begins("parseCreateUserStatement")
    /\ Begins("parseDropKeyStatement")
<1>1. /\ Begins("parseAlterApplicationRoleStatement") /\ Begins("parseAlterAssemblyStatement")
      /\ Begins("parseAlterLoginStatement") /\ Begins("parseAlterRoleStatement")
      /\ Begins("parseAlterServerRoleStatement") /\ Begins("parseAlterUserStatement")
      /\ Begins("parseCreateApplicationRoleStatement") /\ Begins("parseCreateAssemblyStatement")
  BY DEF Begins, Ordinary, ProgramPoints, TakesResult, GoesOn, NeedsOperand, MayReturnNil,
         NilHolders, MayHoldNil, MayLack, MayGetNil
<1>2. /\ Begins("parseCreateAsymmetricKeyStatement")
      /\ Begins("parseCreateCertificateStatement") /\ Begins("parseCreateCredentialStatement")
      /\ Leaves("parseCreateDatabaseOrScopedCredential")
      /\ Begins("parseCreateDatabaseScopedCredentialStatement")
      /\ Begins("parseCreateLoginStatement") /\ Begins("parseCreateMasterKeyStatement")
      /\ Begins("parseCreateRoleStatement")
  BY DEF Begins, Leaves, Ordinary, ProgramPoints, TakesResult, GoesOn, NeedsOperand,
         MayReturnNil, NilHolders, MayHoldNil, MayLack, MayGetNil
<1>3. /\ Begins("parseCreateServerRoleStatement") /\ Begins("parseCreateSymmetricKeyStatement")
      /\ Begins("parseCreateUserStatement") /\ Begins("parseDropKeyStatement")
  BY DEF Begins, Ordinary, ProgramPoints, TakesResult, GoesOn, NeedsOperand, MayReturnNil,
         NilHolders, MayHoldNil, MayLack, MayGetNil
<1> QED BY <1>1, <1>2, <1>3

LEMMA AdministrationBegin ==
    /\ Begins("parseAlterAvailabilityGroupStatement")
    /\ Begins("parseAlterResourceGovernorStatement")
    /\ Begins("parseAlterResourcePoolStatement") /\ Leaves("parseAlterResourceStatement")
    /\ Begins("parseAlterWorkloadGroupStatement") /\ Begins("parseBackupStatement")
    /\ Begins("parseCreateAvailabilityGroupStatement")
    /\ Begins("parseCreateResourcePoolStatement") /\ Begins("parseCreateWorkloadGroupStatement")
    /\ Begins("parseDbccStatement") /\ Begins("parseDropAvailabilityGroupStatement")
    /\ Begins("parseDropResourcePoolStatement") /\ Begins("parseDropWorkloadGroupStatement")
    /\ Begins("parseRestoreStatement")
<1>1. /\ Begins("parseAlterAvailabilityGroupStatement")
      /\ Begins("parseAlterResourceGovernorStatement")
      /\ Begins("parseAlterResourcePoolStatement") /\ Leaves("parseAlterResourceStatement")
      /\ Begins("parseAlterWorkloadGroupStatement") /\ Begins("parseBackupStatement")
      /\ Begins("parseCreateAvailabilityGroupStatement")
      /\ Begins("parseCreateResourcePoolStatement")
  BY DEF Begins, Leaves, Ordinary, ProgramPoints, TakesResult, GoesOn, NeedsOperand,
         MayReturnNil, NilHolders, MayHoldNil, MayLack, MayGetNil
<1>2. /\ Begins("parseCreateWorkloadGroupStatement") /\ Begins("parseDbccStatement")
      /\ Begins("parseDropAvailabilityGroupStatement")
      /\ Begins("parseDropResourcePoolStatement") /\ Begins("parseDropWorkloadGroupStatement")
      /\ Begins("parseRestoreStatement")
  BY DEF Begins, Ordinary, ProgramPoints, TakesResult, GoesOn, NeedsOperand, MayReturnNil,
         NilHolders, MayHoldNil, MayLack, MayGetNil
<1> QED BY <1>1, <1>2

LEMMA DefinitionsBegin ==
    /\ Begins("parseAlterDatabaseStatement") /\ Begins("parseAlterIndexStatement")
    /\ Begins("parseAlterSequenceStatement") /\ Leaves("parseAlterStatement")
    /\ Begins("parseBulkInsertStatement") /\ Begins("parseCreateDefaultStatement")
    /\ Begins("parseCreateIndexStatement") /\ Begins("parseCreateRuleStatement")
    /\ Begins("parseCreateSchemaStatement") /\ Begins("parseCreateSequenceStatement")
    /\ Leaves("parseCreateStatement") /\ Begins("parseCreateStatisticsStatement")
    /\ Begins("parseCreateSynonymStatement") /\ Begins("parseCreateTypeStatement")
    /\ Begins("parseCreateXmlIndexStatement")
    /\ Begins("parseCreateXmlSchemaCollectionStatement")
    /\ Begins("parseUpdateStatisticsStatement")
<1>1. /\ Begins("parseAlterDatabaseStatement") /\ Begins("parseAlterIndexStatement")
      /\ Begins("parseAlterSequenceStatement") /\ Leaves("parseAlterStatement")
      /\ Begins("parseBulkInsertStatement") /\ Begins("parseCreateDefaultStatement")
      /\ Begins("parseCreateIndexStatement") /\ Begins("parseCreateRuleStatement")
  BY DEF Begins, Leaves, Ordinary, ProgramPoints, TakesResult, GoesOn, NeedsOperand,
         MayReturnNil, NilHolders, MayHoldNil, MayLack, MayGetNil
<1>2. /\ Begins("parseCreateSchemaStatement") /\ Begins("parseCreateSequenceStatement")
      /\ Leaves("parseCreateStatement") /\ Begins("parseCreateStatisticsStatement")
      /\ Begins("parseCreateSynonymStatement") /\ Begins("parseCreateTypeStatement")
      /\ Begins("parseCreateXmlIndexStatement")
      /\ Begins("parseCreateXmlSchemaCollectionStatement")
  BY DEF Begins, Leaves, Ordinary, ProgramPoints, TakesResult, GoesOn, NeedsOperand,
         MayReturnNil, NilHolders, MayHoldNil, MayLack, MayGetNil
<1>3. Begins("parseUpdateStatisticsStatement")
  BY DEF Begins, Ordinary, ProgramPoints, TakesResult, GoesOn, NeedsOperand, MayReturnNil,
         NilHolders, MayHoldNil, MayLack, MayGetNil
<1> QED BY <1>1, <1>2, <1>3

LEMMA StorageBegin ==
    /\ Begins("parseAlterFulltextIndexStatement") /\ Leaves("parseAlterFulltextStatement")
    /\ Begins("parseAlterPartitionFunctionStatement")
    /\ Begins("parseAlterPartitionSchemeStatement") /\ Leaves("parseAlterPartitionStatement")
    /\ Begins("parseCreateFulltextCatalogStatement")
    /\ Begins("parseCreateFulltextIndexStatement") /\ Leaves("parseCreateFulltextStatement")
    /\ Begins("parseCreatePartitionFunctionStatement")
    /\ Begins("parseCreatePartitionSchemeStatement") /\ Leaves("parseCreatePartitionStatement")
    /\ Begins("parseDropFulltextCatalogStatement") /\ Begins("parseDropFulltextIndexStatement")
    /\ Leaves("parseDropFulltextStatement")
<1>1. /\ Begins("parseAlterFulltextIndexStatement") /\ Leaves("parseAlterFulltextStatement")
      /\ Begins("parseAlterPartitionFunctionStatement")
      /\ Begins("parseAlterPartitionSchemeStatement") /\ Leaves("parseAlterPartitionStatement")
      /\ Begins("parseCreateFulltextCatalogStatement")
      /\ Begins("parseCreateFulltextIndexStatement") /\ Leaves("parseCreateFulltextStatement")
  BY DEF Begins, Leaves, Ordinary, ProgramPoints, TakesResult, GoesOn, NeedsOperand,
         MayReturnNil, NilHolders, MayHoldNil, MayLack, MayGetNil
<1>2. /\ Begins("parseCreatePartitionFunctionStatement")
      /\ Begins("parseCreatePartitionSchemeStatement")
      /\ Leaves("parseCreatePartitionStatement") /\ Begins("parseDropFulltextCatalogStatement")
      /\ Begins("parseDropFulltextIndexStatement") /\ Leaves("parseDropFulltextStatement")
  BY DEF Begins, Leaves, Ordinary, ProgramPoints, TakesResult, GoesOn, NeedsOperand,
         MayReturnNil, NilHolders, MayHoldNil, MayLack, MayGetNil
<1> QED BY <1>1, <1>2

LEMMA RoutinesBegin ==
    /\ Begins("parseAlterFunctionStatement") /\ Begins("parseAlterProcedureStatement")
    /\ Begins("parseAlterTriggerStatement") /\ Leaves("parseAlterViewStatement")
    /\ Begins("parseBeginAtomicBlock") /\ Begins("parseCreateFunctionStatement")
    /\ Begins("parseCreateProcedureStatement") /\ Begins("parseCreateTriggerStatement")
    /\ Leaves("parseCreateViewStatement") /\ Begins("parseEnableDisableTriggerStatement")
    /\ Begins("parseParameterDef") /\ Begins("parseParameterDefs")
<1>1. /\ Begins("parseAlterFunctionStatement") /\ Begins("parseAlterProcedureStatement")
      /\ Begins("parseAlterTriggerStatement") /\ Leaves("parseAlterViewStatement")
      /\ Begins("parseBeginAtomicBlock") /\ Begins("parseCreateFunctionStatement")
      /\ Begins("parseCreateProcedureStatement") /\ Begins("parseCreateTriggerStatement")
  BY DEF Begins, Leaves, Ordinary, ProgramPoints, TakesResult, GoesOn, NeedsOperand,
         MayReturnNil, NilHolders, MayHoldNil, MayLack, MayGetNil
<1>2. /\ Leaves("parseCreateViewStatement") /\ Begins("parseEnableDisableTriggerStatement")
      /\ Begins("parseParameterDef") /\ Begins("parseParameterDefs")
  BY DEF Begins, Leaves, Ordinary, ProgramPoints, TakesResult, GoesOn, NeedsOperand,
         MayReturnNil, NilHolders, MayHoldNil, MayLack, MayGetNil
<1> QED BY <1>1, <1>2

LEMMA ConversationsBegin ==
    /\ Begins("parseAlterQueueStatement") /\ Begins("parseBeginDialogStatement")
    /\ Begins("parseCreateContractStatement") /\ Begins("parseCreateMessageTypeStatement")
    /\ Begins("parseCreateQueueStatement") /\ Begins("parseCreateServiceStatement")
    /\ Begins("parseDropServiceBrokerObject") /\ Begins("parseEndConversationStatement")
    /\ Begins("parseGetConversationGroupStatement") /\ Begins("parseMoveConversationStatement")
    /\ Begins("parseReceiveStatement") /\ Begins("parseSendOnConversationStatement")
<1>1. /\ Begins("parseAlterQueueStatement") /\ Begins("parseBeginDialogStatement")
      /\ Begins("parseCreateContractStatement") /\ Begins("parseCreateMessageTypeStatement")
      /\ Begins("parseCreateQueueStatement") /\ Begins("parseCreateServiceStatement")
      /\ Begins("parseDropServiceBrokerObject") /\ Begins("parseEndConversationStatement")
  BY DEF Begins, Ordinary, ProgramPoints, TakesResult, GoesOn, NeedsOperand, MayReturnNil,
         NilHolders, MayHoldNil, MayLack, MayGetNil
<1>2. /\ Begins("parseGetConversationGroupStatement")
      /\ Begins("parseMoveConversationStatement") /\ Begins("parseReceiveStatement")
      /\ Begins("parseSendOnConversationStatement")
  BY DEF Begins, Ordinary, ProgramPoints, TakesResult, GoesOn, NeedsOperand, MayReturnNil,
         NilHolders, MayHoldNil, MayLack, MayGetNil
<1> QED BY <1>1, <1>2

LEMMA TableDefinitionsBegin ==
    /\ Leaves("parseAlterTableAction") /\ Begins("parseAlterTableStatement")
    /\ Begins("parseColumnDefinition") /\ Leaves("parseCreateTableStatement")
    /\ Begins("parseDropIndexStatement") /\ Begins("parseDropObjectStatement")
    /\ Begins("parseDropSequenceStatement") /\ Leaves("parseDropStatement")
    /\ Begins("parseDropStatisticsStatement") /\ Begins("parseDropTableStatement")
    /\ Begins("parseIndexColumns") /\ Begins("parseInlineCheckConstraint")
    /\ Begins("parseInlineConstraint") /\ Begins("parseInlineReferencesConstraint")
    /\ Begins("parseTableConstraint") /\ Begins("parseTableTypeDefinition")
    /\ Begins("parseTruncateStatement") /\ Begins("parseTruncateTableCompound")
<1>1. /\ Leaves("parseAlterTableAction") /\ Begins("parseAlterTableStatement")
      /\ Begins("parseColumnDefinition") /\ Leaves("parseCreateTableStatement")
      /\ Begins("parseDropIndexStatement") /\ Begins("parseDropObjectStatement")
      /\ Begins("parseDropSequenceStatement") /\ Leaves("parseDropStatement")
  BY DEF Begins, Leaves, Ordinary, ProgramPoints, TakesResult, GoesOn, NeedsOperand,
         MayReturnNil, NilHolders, MayHoldNil, MayLack, MayGetNil
<1>2. /\ Begins("parseDropStatisticsStatement") /\ Begins("parseDropTableStatement")
      /\ Begins("parseIndexColumns") /\ Begins("parseInlineCheckConstraint")
      /\ Begins("parseInlineConstraint") /\ Begins("parseInlineReferencesConstraint")
      /\ Begins("parseTableConstraint") /\ Begins("parseTableTypeDefinition")
  BY DEF Begins, Ordinary, ProgramPoints, TakesResult, GoesOn, NeedsOperand, MayReturnNil,
         NilHolders, MayHoldNil, MayLack, MayGetNil
<1>3. /\ Begins("parseTruncateStatement") /\ Begins("parseTruncateTableCompound")
  BY DEF Begins, Ordinary, ProgramPoints, TakesResult, GoesOn, NeedsOperand, MayReturnNil,
         NilHolders, MayHoldNil, MayLack, MayGetNil
<1> QED BY <1>1, <1>2, <1>3

LEMMA StatementsBegin ==
    /\ Begins("parseBeginEndBlock") /\ Leaves("parseBeginStatement")
    /\ Begins("parseIfStatement") /\ Begins("parseParenthesizedSelectStatement")
    /\ Leaves("parseStatement") /\ Leaves("parseTryCatchStatement")
    /\ Begins("parseWhileStatement")
BY DEF Begins, Leaves, Ordinary, ProgramPoints, TakesResult, GoesOn, NeedsOperand,
       MayReturnNil, NilHolders, MayHoldNil, MayLack, MayGetNil

LEMMA SimpleStatementsBegin ==
    /\ Begins("parseBeginTransactionStatement") /\ Begins("parseBreakStatement")
    /\ Begins("parseCommitStatement") /\ Begins("parseContinueStatement")
    /\ Begins("parseDeallocateCursorStatement") /\ Begins("parseExpressionStatement")
    /\ Begins("parseFetchStatement") /\ Begins("parseGotoStatement")
    /\ Begins("parseLabelStatement") /\ Begins("parsePrintStatement")
    /\ Begins("parseRaiserrorStatement") /\ Begins("parseReturnStatement")
    /\ Begins("parseRollbackStatement") /\ Begins("parseSaveTransactionStatement")
    /\ Begins("parseThrowStatement") /\ Begins("parseUseStatement")
    /\ Begins("parseWaitforStatement")
<1>1. /\ Begins("parseBeginTransactionStatement") /\ Begins("parseBreakStatement")
      /\ Begins("parseCommitStatement") /\ Begins("parseContinueStatement")
      /\ Begins("parseDeallocateCursorStatement") /\ Begins("parseExpressionStatement")
      /\ Begins("parseFetchStatement") /\ Begins("parseGotoStatement")
  BY DEF Begins, Ordinary, ProgramPoints, TakesResult, GoesOn, NeedsOperand, MayReturnNil,
         NilHolders, MayHoldNil, MayLack, MayGetNil
<1>2. /\ Begins("parseLabelStatement") /\ Begins("parsePrintStatement")
      /\ Begins("parseRaiserrorStatement") /\ Begins("parseReturnStatement")
      /\ Begins("parseRollbackStatement") /\ Begins("parseSaveTransactionStatement")
      /\ Begins("parseThrowStatement") /\ Begins("parseUseStatement")
  BY DEF Begins, Ordinary, ProgramPoints, TakesResult, GoesOn, NeedsOperand, MayReturnNil,
         NilHolders, MayHoldNil, MayLack, MayGetNil
<1>3. Begins("parseWaitforStatement")
  BY DEF Begins, Ordinary, ProgramPoints, TakesResult, GoesOn, NeedsOperand, MayReturnNil,
         NilHolders, MayHoldNil, MayLack, MayGetNil
<1> QED BY <1>1, <1>2, <1>3

LEMMA DmlBegin ==
    /\ Begins("parseCTEDef") /\ Begins("parseDeleteStatement") /\ Begins("parseInsertStatement")
    /\ Begins("parseMergeStatement") /\ Leaves("parseMergeWhenClause")
    /\ Begins("parseOutputClause") /\ Begins("parseOutputColumn") /\ Begins("parseSetClause")
    /\ Begins("parseSetClauses") /\ Begins("parseUpdateStatement") /\ Begins("parseValuesList")
    /\ Begins("parseWithStatement") /\ Begins("parseWithXmlnamespacesStatement")
<1>1. /\ Begins("parseCTEDef") /\ Begins("parseDeleteStatement")
      /\ Begins("parseInsertStatement") /\ Begins("parseMergeStatement")
      /\ Leaves("parseMergeWhenClause") /\ Begins("parseOutputClause")
      /\ Begins("parseOutputColumn") /\ Begins("parseSetClause")
  BY DEF Begins, Leaves, Ordinary, ProgramPoints, TakesResult, GoesOn, NeedsOperand,
         MayReturnNil, NilHolders, MayHoldNil, MayLack, MayGetNil
<1>2. /\ Begins("parseSetClauses") /\ Begins("parseUpdateStatement")
      /\ Begins("parseValuesList") /\ Begins("parseWithStatement")
      /\ Begins("parseWithXmlnamespacesStatement")
  BY DEF Begins, Ordinary, ProgramPoints, TakesResult, GoesOn, NeedsOperand, MayReturnNil,
         NilHolders, MayHoldNil, MayLack, MayGetNil
<1> QED BY <1>1, <1>2

LEMMA ConversionsBegin ==
    /\ Begins("parseCastExpression") /\ Begins("parseContainsExpression")
    /\ Begins("parseContainsTableExpression") /\ Begins("parseConvertExpression")
    /\ Begins("parseCursorExpression") /\ Begins("parseDataType")
    /\ Begins("parseFreetextExpression") /\ Begins("parseFreetextTableExpression")
    /\ Begins("parseNextValueFor") /\ Begins("parseNextValueForCompound")
    /\ Begins("parseParseExpression") /\ Begins("parseTrimExpression")
<1>1. /\ Begins("parseCastExpression") /\ Begins("parseContainsExpression")
      /\ Begins("parseContainsTableExpression") /\ Begins("parseConvertExpression")
      /\ Begins("parseCursorExpression") /\ Begins("parseDataType")
      /\ Begins("parseFreetextExpression") /\ Begins("parseFreetextTableExpression")
  BY DEF Begins, Ordinary, ProgramPoints, TakesResult, GoesOn, NeedsOperand, MayReturnNil,
         NilHolders, MayHoldNil, MayLack, MayGetNil
<1>2. /\ Begins("parseNextValueFor") /\ Begins("parseNextValueForCompound")
      /\ Begins("parseParseExpression") /\ Begins("parseTrimExpression")
  BY DEF Begins, Ordinary, ProgramPoints, TakesResult, GoesOn, NeedsOperand, MayReturnNil,
         NilHolders, MayHoldNil, MayLack, MayGetNil
<1> QED BY <1>1, <1>2

LEMMA SelectBegin ==
    /\ Begins("parseCube") /\ Begins("parseForClause") /\ Begins("parseGroupByItems")
    /\ Begins("parseGroupingSet") /\ Leaves("parseGroupingSets") /\ Begins("parseOptionClause")
    /\ Begins("parseRollup") /\ Begins("parseSelectColumn") /\ Begins("parseSelectColumns")
    /\ Begins("parseSelectStatement") /\ Begins("parseTopClause") /\ Begins("parseUnionClause")
    /\ Begins("parseWindowDefinitions")
<1>1. /\ Begins("parseCube") /\ Begins("parseForClause") /\ Begins("parseGroupByItems")
      /\ Begins("parseGroupingSet") /\ Leaves("parseGroupingSets")
      /\ Begins("parseOptionClause") /\ Begins("parseRollup") /\ Begins("parseSelectColumn")
  BY DEF Begins, Leaves, Ordinary, ProgramPoints, TakesResult, GoesOn, NeedsOperand,
         MayReturnNil, NilHolders, MayHoldNil, MayLack, MayGetNil
<1>2. /\ Begins("parseSelectColumns") /\ Begins("parseSelectStatement")
      /\ Begins("parseTopClause") /\ Begins("parseUnionClause")
      /\ Begins("parseWindowDefinitions")
  BY DEF Begins, Ordinary, ProgramPoints, TakesResult, GoesOn, NeedsOperand, MayReturnNil,
         NilHolders, MayHoldNil, MayLack, MayGetNil
<1> QED BY <1>1, <1>2

LEMMA WindowsBegin ==
    /\ Begins("parseFrameBound") /\ Begins("parseOrderByItems") /\ Begins("parseOverClause")
    /\ Begins("parseWindowFrame")
BY DEF Begins, Ordinary, ProgramPoints, TakesResult, GoesOn, NeedsOperand, MayReturnNil,
       NilHolders, MayHoldNil, MayLack, MayGetNil

LEMMA TablesBegin ==
    /\ Begins("parseFromClause") /\ Begins("parseJoinClause") /\ Begins("parseOpenJsonColumns")
    /\ Begins("parseTableHints") /\ Begins("parseTableReference") /\ Begins("parseTableSample")
    /\ Begins("parseTemporalClause") /\ Begins("parseValuesRows")
BY DEF Begins, Ordinary, ProgramPoints, TakesResult, GoesOn, NeedsOperand, MayReturnNil,
       NilHolders, MayHoldNil, MayLack, MayGetNil

LEMMA Lacking ==
    /\ "Action" \in NilHolders /\ "CreateProcedure" \in NilHolders
    /\ "CreateSynonym" \in NilHolders /\ "CreateType" \in NilHolders
    /\ "GetConversationGroup" \in NilHolders /\ "GroupBy" \in NilHolders /\ "If" \in NilHolders
    /\ "IfElse" \in NilHolders /\ "Merge" \in NilHolders /\ "Options" \in NilHolders
    /\ "Receive" \in NilHolders /\ "SetMethod" \in NilHolders /\ "Temporal" \in NilHolders
    /\ "While" \in NilHolders /\ "With" \in NilHolders
BY DEF NilHolders, MayLack

LEMMA LeavesBegin ==
    /\ Begins("parseAsterisk") /\ Begins("parseBinaryLiteral") /\ Begins("parseIdentifier")
    /\ Begins("parseIntegerLiteral") /\ Begins("parseKeywordAsIdentifier")
    /\ Begins("parseMoneyLiteral") /\ Begins("parseNStringLiteral")
    /\ Begins("parseNullLiteral") /\ Begins("parseStringLiteral") /\ Begins("parseSysVar")
    /\ Begins("parseVariable")
<1>1. /\ Begins("parseAsterisk") /\ Begins("parseBinaryLiteral") /\ Begins("parseIdentifier")
      /\ Begins("parseIntegerLiteral") /\ Begins("parseKeywordAsIdentifier")
      /\ Begins("parseMoneyLiteral") /\ Begins("parseNStringLiteral")
      /\ Begins("parseNullLiteral")
  BY DEF Begins, Ordinary, ProgramPoints, TakesResult, GoesOn, NeedsOperand, MayReturnNil,
         NilHolders, MayHoldNil, MayLack, MayGetNil
<1>2. /\ Begins("parseStringLiteral") /\ Begins("parseSysVar") /\ Begins("parseVariable")
  BY DEF Begins, Ordinary, ProgramPoints, TakesResult, GoesOn, NeedsOperand, MayReturnNil,
         NilHolders, MayHoldNil, MayLack, MayGetNil
<1> QED BY <1>1, <1>2

LEMMA AdministrationPoints ==
    /\ Begins("parseBackupStatement.Files") /\ Begins("parseBackupStatement.Mirror")
    /\ Begins("parseBackupStatement.Options") /\ Begins("parseBackupStatement.To")
    /\ Begins("parseCreateAvailabilityGroupStatement.Replica")
    /\ Begins("parseDbccStatement.Argument") /\ Takes("parseDbccStatement.Arguments")
    /\ Begins("parseDbccStatement.Option") /\ Begins("parseDbccStatement.With")
    /\ Begins("parseRestoreStatement.Files") /\ Begins("parseRestoreStatement.From")
    /\ Begins("parseRestoreStatement.Options") /\ Begins("parseRestoreStatement.With")
<1>1. /\ Begins("parseBackupStatement.Files") /\ Begins("parseBackupStatement.Mirror")
      /\ Begins("parseBackupStatement.Options") /\ Begins("parseBackupStatement.To")
      /\ Begins("parseCreateAvailabilityGroupStatement.Replica")
      /\ Begins("parseDbccStatement.Argument") /\ Takes("parseDbccStatement.Arguments")
      /\ Begins("parseDbccStatement.Option")
  BY DEF Begins, Takes, Ordinary, ProgramPoints, TakesResult, GoesOn, NeedsOperand,
         MayReturnNil, NilHolders, MayHoldNil, MayLack, MayGetNil
<1>2. /\ Begins("parseDbccStatement.With") /\ Begins("parseRestoreStatement.Files")
      /\ Begins("parseRestoreStatement.From") /\ Begins("parseRestoreStatement.Options")
      /\ Begins("parseRestoreStatement.With")
  BY DEF Begins, Ordinary, ProgramPoints, TakesResult, GoesOn, NeedsOperand, MayReturnNil,
         NilHolders, MayHoldNil, MayLack, MayGetNil
<1> QED BY <1>1, <1>2

LEMMA AdministrationKinds ==
    {"AlterAvailabilityGroup", "AlterResourceGovernor", "AlterResourcePool",
     "AlterWorkloadGroup", "Backup", "CreateAvailabilityGroup", "CreateResourcePool",
     "CreateWorkloadGroup", "Dbcc", "DropNamed", "Restore"}
       \subseteq ProgramKinds
BY DEF ProgramKinds

LEMMA ConversationsPoints ==
    /\ Begins("parseEndConversationStatement.Description")
    /\ Begins("parseEndConversationStatement.Error") /\ Begins("parseReceiveStatement.Column")
    /\ Takes("parseReceiveStatement.Top") /\ Takes("parseSendOnConversationStatement.Body")
BY DEF Begins, Takes, Ordinary, ProgramPoints, TakesResult, GoesOn, NeedsOperand, MayReturnNil,
       NilHolders, MayHoldNil, MayLack, MayGetNil

LEMMA ConversationsKinds ==
    {"AlterQueue", "BeginDialog", "CreateContract", "CreateMessageType", "CreateQueue",
     "CreateService", "DropObject", "EndConversation", "GetConversationGroup",
     "MoveConversation", "Receive", "Send"}
       \subseteq ProgramKinds
BY DEF ProgramKinds

LEMMA ConversionsPoints ==
    /\ Takes("parseCastExpression.Expression") /\ Takes("parseCastExpression.TargetType")
    /\ Takes("parseContainsExpression.SearchTerm")
    /\ Takes("parseContainsTableExpression.SearchTerm")
    /\ Takes("parseConvertExpression.Expression") /\ Takes("parseConvertExpression.Style")
    /\ Takes("parseConvertExpression.TargetType") /\ Takes("parseCursorExpression.ForSelect")
    /\ Takes("parseFreetextExpression.SearchTerm")
    /\ Takes("parseFreetextTableExpression.SearchTerm")
    /\ Takes("parseNextValueForCompound.Over") /\ Takes("parseParseExpression.Culture")
    /\ Takes("parseParseExpression.Expression") /\ Takes("parseParseExpression.TargetType")
    /\ Takes("parseTrimExpression.Expression") /\ Takes("parseTrimExpression.First")
<1>1. /\ Takes("parseCastExpression.Expression") /\ Takes("parseCastExpression.TargetType")
      /\ Takes("parseContainsExpression.SearchTerm")
      /\ Takes("parseContainsTableExpression.SearchTerm")
      /\ Takes("parseConvertExpression.Expression") /\ Takes("parseConvertExpression.Style")
      /\ Takes("parseConvertExpression.TargetType") /\ Takes("parseCursorExpression.ForSelect")
  BY DEF Takes, Ordinary, ProgramPoints, TakesResult, GoesOn, NeedsOperand, MayReturnNil,
         NilHolders, MayHoldNil, MayLack, MayGetNil
<1>2. /\ Takes("parseFreetextExpression.SearchTerm")
      /\ Takes("parseFreetextTableExpression.SearchTerm")
      /\ Takes("parseNextValueForCompound.Over") /\ Takes("parseParseExpression.Culture")
      /\ Takes("parseParseExpression.Expression") /\ Takes("parseParseExpression.TargetType")
      /\ Takes("parseTrimExpression.Expression") /\ Takes("parseTrimExpression.First")
  BY DEF Takes, Ordinary, ProgramPoints, TakesResult, GoesOn, NeedsOperand, MayReturnNil,
         NilHolders, MayHoldNil, MayLack, MayGetNil
<1> QED BY <1>1, <1>2

LEMMA ConversionsKinds ==
    {"Conversion", "CursorExpression", "DataType", "FullText", "NextValueFor", "Trim"}
       \subseteq ProgramKinds
BY DEF ProgramKinds

LEMMA DeclarationsPoints ==
    /\ Takes("ResultSet.DataType") /\ Gets("parseDeclareCursorStatement.ForSelect")
    /\ Takes("parseDeclareStatement.Variable") /\ Takes("parseExecParameter.Value")
    /\ Begins("parseExecStatement.At") /\ Takes("parseExecStatement.DynamicSQL")
    /\ Gets("parseExecStatement.End") /\ Takes("parseExecStatement.Parameter")
    /\ Begins("parseExecStatement.Parameters") /\ Gets("parseExecStatement.ResultSets")
    /\ Begins("parseExecStatement.With") /\ Begins("parseExecStatement.WithBehind")
    /\ Takes("parseResultSets.Set") /\ Takes("parseRevertStatement.Cookie")
    /\ Takes("parseSetStatement.Method") /\ Takes("parseSetStatement.Number")
    /\ Takes("parseSetStatement.Value") /\ Takes("parseSetStatement.Variable")
    /\ Takes("parseVariableDef.Table") /\ Takes("parseVariableDef.Type")
    /\ Takes("parseVariableDef.Value")
<1>1. /\ Takes("ResultSet.DataType") /\ Gets("parseDeclareCursorStatement.ForSelect")
      /\ Takes("parseDeclareStatement.Variable") /\ Takes("parseExecParameter.Value")
      /\ Begins("parseExecStatement.At") /\ Takes("parseExecStatement.DynamicSQL")
      /\ Gets("parseExecStatement.End") /\ Takes("parseExecStatement.Parameter")
  BY DEF Begins, Takes, Gets, Ordinary, ProgramPoints, TakesResult, GoesOn, NeedsOperand,
         MayReturnNil, NilHolders, MayHoldNil, MayLack, MayGetNil
<1>2. /\ Begins("parseExecStatement.Parameters") /\ Gets("parseExecStatement.ResultSets")
      /\ Begins("parseExecStatement.With") /\ Begins("parseExecStatement.WithBehind")
      /\ Takes("parseResultSets.Set") /\ Takes("parseRevertStatement.Cookie")
      /\ Takes("parseSetStatement.Method") /\ Takes("parseSetStatement.Number")
  BY DEF Begins, Takes, Gets, Ordinary, ProgramPoints, TakesResult, GoesOn, NeedsOperand,
         MayReturnNil, NilHolders, MayHoldNil, MayLack, MayGetNil
<1>3. /\ Takes("parseSetStatement.Value") /\ Takes("parseSetStatement.Variable")
      /\ Takes("parseVariableDef.Table") /\ Takes("parseVariableDef.Type")
      /\ Takes("parseVariableDef.Value")
  BY DEF Takes, Ordinary, ProgramPoints, TakesResult, GoesOn, NeedsOperand, MayReturnNil,
         NilHolders, MayHoldNil, MayLack, MayGetNil
<1> QED BY <1>1, <1>2, <1>3

LEMMA DeclarationsKinds ==
    {"CloseCursor", "CloseKey", "Declare", "DeclareCursor", "Exec", "ExecParameter",
     "ExecuteAs", "OpenCursor", "OpenKey", "Reconfigure", "ResultSet", "ResultSets",
     "Revert", "Set", "SetOption", "VariableDef"}
       \subseteq ProgramKinds
BY DEF ProgramKinds

LEMMA DefinitionsPoints ==
    /\ Begins("parseAlterIndexStatement.Set") /\ Begins("parseAlterIndexStatement.With")
    /\ Takes("parseAlterSequenceStatement.Number")
    /\ Begins("parseAlterSequenceStatement.Option") /\ Begins("parseBulkInsertStatement.Option")
    /\ Takes("parseCreateDefaultStatement.Value") /\ Begins("parseCreateIndexStatement.Column")
    /\ Begins("parseCreateIndexStatement.Include")
    /\ Begins("parseCreateIndexStatement.Options") /\ Gets("parseCreateIndexStatement.Where")
    /\ Takes("parseCreateRuleStatement.Condition")
    /\ Takes("parseCreateSequenceStatement.Number")
    /\ Begins("parseCreateSequenceStatement.Option")
    /\ Begins("parseCreateStatisticsStatement.With")
    /\ Takes("parseCreateTypeStatement.BaseType") /\ Begins("parseCreateTypeStatement.Table")
    /\ Begins("parseCreateXmlIndexStatement.Using")
    /\ Takes("parseCreateXmlSchemaCollectionStatement.Text")
    /\ Begins("parseStatisticsWithOptions")
<1>1. /\ Begins("parseAlterIndexStatement.Set") /\ Begins("parseAlterIndexStatement.With")
      /\ Takes("parseAlterSequenceStatement.Number")
      /\ Begins("parseAlterSequenceStatement.Option")
      /\ Begins("parseBulkInsertStatement.Option") /\ Takes("parseCreateDefaultStatement.Value")
      /\ Begins("parseCreateIndexStatement.Column")
      /\ Begins("parseCreateIndexStatement.Include")
  BY DEF Begins, Takes, Ordinary, ProgramPoints, TakesResult, GoesOn, NeedsOperand,
         MayReturnNil, NilHolders, MayHoldNil, MayLack, MayGetNil
<1>2. /\ Begins("parseCreateIndexStatement.Options") /\ Gets("parseCreateIndexStatement.Where")
      /\ Takes("parseCreateRuleStatement.Condition")
      /\ Takes("parseCreateSequenceStatement.Number")
      /\ Begins("parseCreateSequenceStatement.Option")
      /\ Begins("parseCreateStatisticsStatement.With")
      /\ Takes("parseCreateTypeStatement.BaseType") /\ Begins("parseCreateTypeStatement.Table")
  BY DEF Begins, Takes, Gets, Ordinary, ProgramPoints, TakesResult, GoesOn, NeedsOperand,
         MayReturnNil, NilHolders, MayHoldNil, MayLack, MayGetNil
<1>3. /\ Begins("parseCreateXmlIndexStatement.Using")
      /\ Takes("parseCreateXmlSchemaCollectionStatement.Text")
      /\ Begins("parseStatisticsWithOptions")
  BY DEF Begins, Takes, Ordinary, ProgramPoints, TakesResult, GoesOn, NeedsOperand,
         MayReturnNil, NilHolders, MayHoldNil, MayLack, MayGetNil
<1> QED BY <1>1, <1>2, <1>3

LEMMA DefinitionsKinds ==
    {"AlterDatabase", "AlterIndex", "AlterSequence", "BulkInsert", "CreateDefault",
     "CreateIndex", "CreateRule", "CreateSchema", "CreateSequence", "CreateSynonym",
     "CreateType", "CreateXmlSchema", "Statistics"}
       \subseteq ProgramKinds
BY DEF ProgramKinds

LEMMA DmlPoints ==
    /\ Begins("parseCTEDef.As") /\ Takes("parseCTEDef.Close")
    /\ Gets("parseDeleteStatement.Alias") /\ Gets("parseDeleteStatement.End")
    /\ Gets("parseDeleteStatement.From") /\ Gets("parseDeleteStatement.Hints")
    /\ Gets("parseDeleteStatement.Output") /\ Gets("parseDeleteStatement.Target")
    /\ Gets("parseDeleteStatement.Where") /\ Takes("parseInsertStatement.Close")
    /\ Gets("parseInsertStatement.Columns") /\ Gets("parseInsertStatement.End")
    /\ Gets("parseInsertStatement.Hints") /\ Begins("parseInsertStatement.Name")
    /\ Begins("parseInsertStatement.Output") /\ Begins("parseInsertStatement.Percent")
    /\ Gets("parseInsertStatement.Source") /\ Takes("parseInsertStatement.Top")
    /\ Keeps("parseMergeStatement.Alias") /\ GetsMore("parseMergeStatement.Clause")
    /\ TakesMore("parseMergeStatement.Condition") /\ Takes("parseMergeStatement.Derived")
    /\ GetsMore("parseMergeStatement.End") /\ Keeps("parseMergeStatement.On")
    /\ Takes("parseMergeStatement.Rows") /\ Begins("parseMergeStatement.Source")
    /\ Begins("parseMergeStatement.Using") /\ Keeps("parseMergeStatement.When")
    /\ Begins("parseMergeWhenClause.Action") /\ Begins("parseMergeWhenClause.And")
    /\ Gets("parseMergeWhenClause.End") /\ Gets("parseMergeWhenClause.Then")
    /\ Begins("parseMergeWhenClause.Values") /\ Takes("parseOutputClause.Column")
    /\ Takes("parseOutputColumn.Expression") /\ Takes("parseSetClause.Argument")
    /\ Takes("parseSetClause.Value") /\ Takes("parseSetClauses.Clause")
    /\ Gets("parseUpdateStatement.End") /\ Gets("parseUpdateStatement.From")
    /\ Gets("parseUpdateStatement.Hints") /\ Gets("parseUpdateStatement.Output")
    /\ Gets("parseUpdateStatement.Set") /\ Gets("parseUpdateStatement.Target")
    /\ Gets("parseUpdateStatement.Where") /\ Takes("parseValuesList.Row")
    /\ Takes("parseWithStatement.Cte") /\ Gets("parseWithStatement.Query")
    /\ Begins("parseWithXmlnamespacesStatement.Namespace")
    /\ Gets("parseWithXmlnamespacesStatement.Query")
<1>1. /\ Begins("parseCTEDef.As") /\ Takes("parseCTEDef.Close")
      /\ Gets("parseDeleteStatement.Alias") /\ Gets("parseDeleteStatement.End")
      /\ Gets("parseDeleteStatement.From") /\ Gets("parseDeleteStatement.Hints")
      /\ Gets("parseDeleteStatement.Output") /\ Gets("parseDeleteStatement.Target")
  BY DEF Begins, Takes, Gets, Ordinary, ProgramPoints, TakesResult, GoesOn, NeedsOperand,
         MayReturnNil, NilHolders, MayHoldNil, MayLack, MayGetNil
<1>2. /\ Gets("parseDeleteStatement.Where") /\ Takes("parseInsertStatement.Close")
      /\ Gets("parseInsertStatement.Columns") /\ Gets("parseInsertStatement.End")
      /\ Gets("parseInsertStatement.Hints") /\ Begins("parseInsertStatement.Name")
      /\ Begins("parseInsertStatement.Output") /\ Begins("parseInsertStatement.Percent")
  BY DEF Begins, Takes, Gets, Ordinary, ProgramPoints, TakesResult, GoesOn, NeedsOperand,
         MayReturnNil, NilHolders, MayHoldNil, MayLack, MayGetNil
<1>3. /\ Gets("parseInsertStatement.Source") /\ Takes("parseInsertStatement.Top")
      /\ Keeps("parseMergeStatement.Alias") /\ GetsMore("parseMergeStatement.Clause")
      /\ TakesMore("parseMergeStatement.Condition") /\ Takes("parseMergeStatement.Derived")
      /\ GetsMore("parseMergeStatement.End") /\ Keeps("parseMergeStatement.On")
  BY DEF Takes, Gets, Keeps, TakesMore, GetsMore, Ordinary, Holder, ProgramPoints, TakesResult,
         GoesOn, NeedsOperand, MayReturnNil, NilHolders, MayHoldNil, MayLack, MayGetNil
<1>4. /\ Takes("parseMergeStatement.Rows") /\ Begins("parseMergeStatement.Source")
      /\ Begins("parseMergeStatement.Using") /\ Keeps("parseMergeStatement.When")
      /\ Begins("parseMergeWhenClause.Action") /\ Begins("parseMergeWhenClause.And")
      /\ Gets("parseMergeWhenClause.End") /\ Gets("parseMergeWhenClause.Then")
  BY DEF Begins, Takes, Gets, Keeps, Ordinary, Holder, ProgramPoints, TakesResult, GoesOn,
         NeedsOperand, MayReturnNil, NilHolders, MayHoldNil, MayLack, MayGetNil
<1>5. /\ Begins("parseMergeWhenClause.Values") /\ Takes("parseOutputClause.Column")
      /\ Takes("parseOutputColumn.Expression") /\ Takes("parseSetClause.Argument")
      /\ Takes("parseSetClause.Value") /\ Takes("parseSetClauses.Clause")
      /\ Gets("parseUpdateStatement.End") /\ Gets("parseUpdateStatement.From")
  BY DEF Begins, Takes, Gets, Ordinary, ProgramPoints, TakesResult, GoesOn, NeedsOperand,
         MayReturnNil, NilHolders, MayHoldNil, MayLack, MayGetNil
<1>6. /\ Gets("parseUpdateStatement.Hints") /\ Gets("parseUpdateStatement.Output")
      /\ Gets("parseUpdateStatement.Set") /\ Gets("parseUpdateStatement.Target")
      /\ Gets("parseUpdateStatement.Where") /\ Takes("parseValuesList.Row")
      /\ Takes("parseWithStatement.Cte") /\ Gets("parseWithStatement.Query")
  BY DEF Takes, Gets, Ordinary, ProgramPoints, TakesResult, GoesOn, NeedsOperand, MayReturnNil,
         NilHolders, MayHoldNil, MayLack, MayGetNil
<1>7. /\ Begins("parseWithXmlnamespacesStatement.Namespace")
      /\ Gets("parseWithXmlnamespacesStatement.Query")
  BY DEF Begins, Gets, Ordinary, ProgramPoints, TakesResult, GoesOn, NeedsOperand,
         MayReturnNil, NilHolders, MayHoldNil, MayLack, MayGetNil
<1> QED BY <1>1, <1>2, <1>3, <1>4, <1>5, <1>6, <1>7

LEMMA DmlKinds ==
    {"AliasedColumn", "CTE", "Column", "Delete", "Insert", "Merge", "Output", "SetClause",
     "SetClauses", "SetMethod", "Update", "Values", "When", "With", "WithXml"}
       \subseteq ProgramKinds
BY DEF ProgramKinds

LEMMA ExpressionsPoints ==
    /\ Takes("parseAllExpression.Subquery") /\ Takes("parseAtTimeZoneExpression.TimeZone")
    /\ Takes("parseBetweenExpression.High") /\ Takes("parseBetweenExpression.Low")
    /\ Takes("parseCallExpression.Arguments") /\ Takes("parseCallExpression.Clause")
    /\ Begins("parseCallExpression.Over") /\ Takes("parseCallExpression.WithinGroup")
    /\ Takes("parseCaseExpression.Condition") /\ Takes("parseCaseExpression.Else")
    /\ Begins("parseCaseExpression.End") /\ Takes("parseCaseExpression.Operand")
    /\ Takes("parseCaseExpression.Result") /\ Begins("parseCaseExpression.When")
    /\ Takes("parseDistinctFromExpression.Right") /\ Takes("parseDotExpression.Arguments")
    /\ Takes("parseExistsExpression.Subquery") /\ Takes("parseExpression.Left")
    /\ Takes("parseExpressionList.Key") /\ Takes("parseExpressionList.Value")
    /\ Takes("parseGroupedExpression.Exp") /\ Takes("parseGroupedExpression.Subquery")
    /\ Takes("parseInExpression.Subquery") /\ Takes("parseInExpression.Value")
    /\ Takes("parseInfixExpression.Right") /\ Takes("parseLikeExpression.Escape")
    /\ Takes("parseLikeExpression.Pattern") /\ Takes("parsePrefixExpression.Right")
    /\ Takes("parseScopeExpression.Arguments") /\ Takes("parseSubqueryExpression.Select")
<1>1. /\ Takes("parseAllExpression.Subquery") /\ Takes("parseAtTimeZoneExpression.TimeZone")
      /\ Takes("parseBetweenExpression.High") /\ Takes("parseBetweenExpression.Low")
      /\ Takes("parseCallExpression.Arguments") /\ Takes("parseCallExpression.Clause")
      /\ Begins("parseCallExpression.Over") /\ Takes("parseCallExpression.WithinGroup")
  BY DEF Begins, Takes, Ordinary, ProgramPoints, TakesResult, GoesOn, NeedsOperand,
         MayReturnNil, NilHolders, MayHoldNil, MayLack, MayGetNil
<1>2. /\ Takes("parseCaseExpression.Condition") /\ Takes("parseCaseExpression.Else")
      /\ Begins("parseCaseExpression.End") /\ Takes("parseCaseExpression.Operand")
      /\ Takes("parseCaseExpression.Result") /\ Begins("parseCaseExpression.When")
      /\ Takes("parseDistinctFromExpression.Right") /\ Takes("parseDotExpression.Arguments")
  BY DEF Begins, Takes, Ordinary, ProgramPoints, TakesResult, GoesOn, NeedsOperand,
         MayReturnNil, NilHolders, MayHoldNil, MayLack, MayGetNil
<1>3. /\ Takes("parseExistsExpression.Subquery") /\ Takes("parseExpression.Left")
      /\ Takes("parseExpressionList.Key") /\ Takes("parseExpressionList.Value")
      /\ Takes("parseGroupedExpression.Exp") /\ Takes("parseGroupedExpression.Subquery")
      /\ Takes("parseInExpression.Subquery") /\ Takes("parseInExpression.Value")
  BY DEF Takes, Ordinary, ProgramPoints, TakesResult, GoesOn, NeedsOperand, MayReturnNil,
         NilHolders, MayHoldNil, MayLack, MayGetNil
<1>4. /\ Takes("parseInfixExpression.Right") /\ Takes("parseLikeExpression.Escape")
      /\ Takes("parseLikeExpression.Pattern") /\ Takes("parsePrefixExpression.Right")
      /\ Takes("parseScopeExpression.Arguments") /\ Takes("parseSubqueryExpression.Select")
  BY DEF Takes, Ordinary, ProgramPoints, TakesResult, GoesOn, NeedsOperand, MayReturnNil,
         NilHolders, MayHoldNil, MayLack, MayGetNil
<1> QED BY <1>1, <1>2, <1>3, <1>4

LEMMA ExpressionsKinds ==
    {"AtTimeZone", "Between", "Case", "Collate", "Exists", "FunctionCall", "Identifier",
     "In", "Infix", "IsDistinctFrom", "IsNull", "Like", "List", "MethodCall", "Prefix",
     "QualifiedIdentifier", "StaticMethodCall", "Subquery", "Tuple"}
       \subseteq ProgramKinds
BY DEF ProgramKinds

LEMMA RoutinesPoints ==
    /\ Begins("parseAlterFunctionStatement.Body")
    /\ Gets("parseAlterFunctionStatement.Parameters")
    /\ Begins("parseAlterFunctionStatement.Returns")
    /\ Begins("parseAlterFunctionStatement.Type") /\ Begins("parseAlterFunctionStatement.Typed")
    /\ Begins("parseAlterProcedureStatement.Block")
    /\ Begins("parseAlterProcedureStatement.Body")
    /\ Begins("parseAlterProcedureStatement.Parameters")
    /\ "parseAlterProcedureStatement.Parameters" \in MayGetNil
    /\ Gets("parseAlterProcedureStatement.Statement")
    /\ Begins("parseAlterProcedureStatement.Statements")
    /\ Begins("parseAlterTriggerStatement.Body") /\ Leaves("parseAlterViewStatement.Body")
    /\ Takes("parseAlterViewStatement.End") /\ Begins("parseBeginEndBlock.Statements")
    /\ Takes("parseCreateFunctionStatement.Body")
    /\ Begins("parseCreateFunctionStatement.Close")
    /\ Gets("parseCreateFunctionStatement.Parameters")
    /\ Begins("parseCreateFunctionStatement.Returned")
    /\ Begins("parseCreateFunctionStatement.Returns")
    /\ Begins("parseCreateFunctionStatement.Tail") /\ Takes("parseCreateFunctionStatement.Type")
    /\ Gets("parseCreateProcedureStatement.Block")
    /\ Begins("parseCreateProcedureStatement.Body")
    /\ Begins("parseCreateProcedureStatement.Option")
    /\ Gets("parseCreateProcedureStatement.Parameters")
    /\ Gets("parseCreateProcedureStatement.Statement")
    /\ Begins("parseCreateProcedureStatement.Statements")
    /\ Takes("parseCreateProcedureStatement.Transaction")
    /\ Begins("parseCreateProcedureStatement.With") /\ Takes("parseCreateTriggerStatement.Body")
    /\ Leaves("parseCreateViewStatement.Body") /\ Takes("parseCreateViewStatement.Check")
    /\ Takes("parseParameterDef.DataType") /\ Gets("parseParameterDef.Output")
    /\ Takes("parseParameterDefs.Next")
<1>1. /\ Begins("parseAlterFunctionStatement.Body")
      /\ Gets("parseAlterFunctionStatement.Parameters")
      /\ Begins("parseAlterFunctionStatement.Returns")
      /\ Begins("parseAlterFunctionStatement.Type")
      /\ Begins("parseAlterFunctionStatement.Typed")
      /\ Begins("parseAlterProcedureStatement.Block")
      /\ Begins("parseAlterProcedureStatement.Body")
      /\ Begins("parseAlterProcedureStatement.Parameters")
      /\ "parseAlterProcedureStatement.Parameters" \in MayGetNil
  BY DEF Begins, Gets, Ordinary, ProgramPoints, TakesResult, GoesOn, NeedsOperand,
         MayReturnNil, NilHolders, MayHoldNil, MayLack, MayGetNil
<1>2. /\ Gets("parseAlterProcedureStatement.Statement")
      /\ Begins("parseAlterProcedureStatement.Statements")
      /\ Begins("parseAlterTriggerStatement.Body") /\ Leaves("parseAlterViewStatement.Body")
      /\ Takes("parseAlterViewStatement.End") /\ Begins("parseBeginEndBlock.Statements")
      /\ Takes("parseCreateFunctionStatement.Body")
      /\ Begins("parseCreateFunctionStatement.Close")
  BY DEF Begins, Takes, Gets, Leaves, Ordinary, ProgramPoints, TakesResult, GoesOn,
         NeedsOperand, MayReturnNil, NilHolders, MayHoldNil, MayLack, MayGetNil
<1>3. /\ Gets("parseCreateFunctionStatement.Parameters")
      /\ Begins("parseCreateFunctionStatement.Returned")
      /\ Begins("parseCreateFunctionStatement.Returns")
      /\ Begins("parseCreateFunctionStatement.Tail")
      /\ Takes("parseCreateFunctionStatement.Type")
      /\ Gets("parseCreateProcedureStatement.Block")
      /\ Begins("parseCreateProcedureStatement.Body")
      /\ Begins("parseCreateProcedureStatement.Option")
  BY DEF Begins, Takes, Gets, Ordinary, ProgramPoints, TakesResult, GoesOn, NeedsOperand,
         MayReturnNil, NilHolders, MayHoldNil, MayLack, MayGetNil
<1>4. /\ Gets("parseCreateProcedureStatement.Parameters")
      /\ Gets("parseCreateProcedureStatement.Statement")
      /\ Begins("parseCreateProcedureStatement.Statements")
      /\ Takes("parseCreateProcedureStatement.Transaction")
      /\ Begins("parseCreateProcedureStatement.With")
      /\ Takes("parseCreateTriggerStatement.Body") /\ Leaves("parseCreateViewStatement.Body")
      /\ Takes("parseCreateViewStatement.Check")
  BY DEF Begins, Takes, Gets, Leaves, Ordinary, ProgramPoints, TakesResult, GoesOn,
         NeedsOperand, MayReturnNil, NilHolders, MayHoldNil, MayLack, MayGetNil
<1>5. /\ Takes("parseParameterDef.DataType") /\ Gets("parseParameterDef.Output")
      /\ Takes("parseParameterDefs.Next")
  BY DEF Takes, Gets, Ordinary, ProgramPoints, TakesResult, GoesOn, NeedsOperand, MayReturnNil,
         NilHolders, MayHoldNil, MayLack, MayGetNil
<1> QED BY <1>1, <1>2, <1>3, <1>4, <1>5

LEMMA RoutinesKinds ==
    {"AlterFunction", "AlterProcedure", "AlterTrigger", "AlterView", "CreateFunction",
     "CreateProcedure", "CreateTrigger", "CreateView", "EnableTrigger", "Parameter",
     "Parameters"}
       \subseteq ProgramKinds
BY DEF ProgramKinds

LEMMA SecurityPoints ==
    /\ Begins("parseAlterLoginStatement.Modifiers") /\ Begins("parseAlterLoginStatement.Next")
    /\ Begins("parseAlterLoginStatement.Option")
    /\ Begins("parseCreateAsymmetricKeyStatement.Clause")
    /\ Begins("parseCreateCertificateStatement.Clause")
    /\ Begins("parseCreateSymmetricKeyStatement.Clause") /\ Begins("parseLoginOptions")
    /\ Begins("parseLoginOptions.Modifiers") /\ Begins("parseLoginOptions.Next")
<1>1. /\ Begins("parseAlterLoginStatement.Modifiers") /\ Begins("parseAlterLoginStatement.Next")
      /\ Begins("parseAlterLoginStatement.Option")
      /\ Begins("parseCreateAsymmetricKeyStatement.Clause")
      /\ Begins("parseCreateCertificateStatement.Clause")
      /\ Begins("parseCreateSymmetricKeyStatement.Clause") /\ Begins("parseLoginOptions")
      /\ Begins("parseLoginOptions.Modifiers")
  BY DEF Begins, Ordinary, ProgramPoints, TakesResult, GoesOn, NeedsOperand, MayReturnNil,
         NilHolders, MayHoldNil, MayLack, MayGetNil
<1>2. Begins("parseLoginOptions.Next")
  BY DEF Begins, Ordinary, ProgramPoints, TakesResult, GoesOn, NeedsOperand, MayReturnNil,
         NilHolders, MayHoldNil, MayLack, MayGetNil
<1> QED BY <1>1, <1>2

LEMMA SecurityKinds ==
    {"AlterApplicationRole", "AlterAssembly", "AlterLogin", "AlterRole", "AlterUser",
     "CreateApplicationRole", "CreateAssembly", "CreateAsymmetricKey", "CreateCertificate",
     "CreateCredential", "CreateLogin", "CreateMasterKey", "CreateRole",
     "CreateScopedCredential", "CreateSymmetricKey", "CreateUser", "DropObject"}
       \subseteq ProgramKinds
BY DEF ProgramKinds

LEMMA SelectPoints ==
    /\ Begins("parseCube.Column") /\ Takes("parseCube.Next") /\ Begins("parseForClause.Option")
    /\ GetsMore("parseGroupByItems.Item") /\ Takes("parseGroupingSet.Element")
    /\ Takes("parseGroupingSet.Single") /\ Takes("parseGroupingSets.Next")
    /\ Begins("parseGroupingSets.Set") /\ Keeps("parseOptionClause.Binding")
    /\ Keeps("parseOptionClause.Close") /\ Keeps("parseOptionClause.Hint")
    /\ Keeps("parseOptionClause.Next") /\ TakesMore("parseOptionClause.Number")
    /\ TakesMore("parseOptionClause.Value") /\ TakesMore("parseOptionClause.Valued")
    /\ Begins("parseRollup.Column") /\ Takes("parseRollup.Next")
    /\ Takes("parseSelectColumn.Expression") /\ Takes("parseSelectColumn.Value")
    /\ Takes("parseSelectColumns.Column") /\ Takes("parseSelectStatement.Columns")
    /\ Gets("parseSelectStatement.End") /\ Begins("parseSelectStatement.Fetch")
    /\ Begins("parseSelectStatement.For") /\ Takes("parseSelectStatement.From")
    /\ Gets("parseSelectStatement.Group") /\ Gets("parseSelectStatement.Having")
    /\ Gets("parseSelectStatement.Offset") /\ Takes("parseSelectStatement.Only")
    /\ Gets("parseSelectStatement.Option") /\ Gets("parseSelectStatement.Order")
    /\ Takes("parseSelectStatement.Rows") /\ Gets("parseSelectStatement.Union")
    /\ Gets("parseSelectStatement.Where") /\ Gets("parseSelectStatement.Window")
    /\ Takes("parseTopClause.Close") /\ Takes("parseTopClause.Count")
    /\ Begins("parseTopClause.Percent") /\ Takes("parseUnionClause.Right")
    /\ Begins("parseWindowDefinitions.Close") /\ "parseWindowDefinitions.Close" \in MayGetNil
    /\ Begins("parseWindowDefinitions.Order") /\ Begins("parseWindowDefinitions.Partition")
<1>1. /\ Begins("parseCube.Column") /\ Takes("parseCube.Next")
      /\ Begins("parseForClause.Option") /\ GetsMore("parseGroupByItems.Item")
      /\ Takes("parseGroupingSet.Element") /\ Takes("parseGroupingSet.Single")
      /\ Takes("parseGroupingSets.Next") /\ Begins("parseGroupingSets.Set")
  BY DEF Begins, Takes, GetsMore, Ordinary, Holder, ProgramPoints, TakesResult, GoesOn,
         NeedsOperand, MayReturnNil, NilHolders, MayHoldNil, MayLack, MayGetNil
<1>2. /\ Keeps("parseOptionClause.Binding") /\ Keeps("parseOptionClause.Close")
      /\ Keeps("parseOptionClause.Hint") /\ Keeps("parseOptionClause.Next")
      /\ TakesMore("parseOptionClause.Number") /\ TakesMore("parseOptionClause.Value")
      /\ TakesMore("parseOptionClause.Valued") /\ Begins("parseRollup.Column")
  BY DEF Begins, Keeps, TakesMore, Ordinary, Holder, ProgramPoints, TakesResult, GoesOn,
         NeedsOperand, MayReturnNil, NilHolders, MayHoldNil, MayLack, MayGetNil
<1>3. /\ Takes("parseRollup.Next") /\ Takes("parseSelectColumn.Expression")
      /\ Takes("parseSelectColumn.Value") /\ Takes("parseSelectColumns.Column")
      /\ Takes("parseSelectStatement.Columns") /\ Gets("parseSelectStatement.End")
      /\ Begins("parseSelectStatement.Fetch") /\ Begins("parseSelectStatement.For")
  BY DEF Begins, Takes, Gets, Ordinary, ProgramPoints, TakesResult, GoesOn, NeedsOperand,
         MayReturnNil, NilHolders, MayHoldNil, MayLack, MayGetNil
<1>4. /\ Takes("parseSelectStatement.From") /\ Gets("parseSelectStatement.Group")
      /\ Gets("parseSelectStatement.Having") /\ Gets("parseSelectStatement.Offset")
      /\ Takes("parseSelectStatement.Only") /\ Gets("parseSelectStatement.Option")
      /\ Gets("parseSelectStatement.Order") /\ Takes("parseSelectStatement.Rows")
  BY DEF Takes, Gets, Ordinary, ProgramPoints, TakesResult, GoesOn, NeedsOperand, MayReturnNil,
         NilHolders, MayHoldNil, MayLack, MayGetNil
<1>5. /\ Gets("parseSelectStatement.Union") /\ Gets("parseSelectStatement.Where")
      /\ Gets("parseSelectStatement.Window") /\ Takes("parseTopClause.Close")
      /\ Takes("parseTopClause.Count") /\ Begins("parseTopClause.Percent")
      /\ Takes("parseUnionClause.Right") /\ Begins("parseWindowDefinitions.Close")
      /\ "parseWindowDefinitions.Close" \in MayGetNil
  BY DEF Begins, Takes, Gets, Ordinary, ProgramPoints, TakesResult, GoesOn, NeedsOperand,
         MayReturnNil, NilHolders, MayHoldNil, MayLack, MayGetNil
<1>6. /\ Begins("parseWindowDefinitions.Order") /\ Begins("parseWindowDefinitions.Partition")
  BY DEF Begins, Ordinary, ProgramPoints, TakesResult, GoesOn, NeedsOperand, MayReturnNil,
         NilHolders, MayHoldNil, MayLack, MayGetNil
<1> QED BY <1>1, <1>2, <1>3, <1>4, <1>5, <1>6

LEMMA SelectKinds ==
    {"AliasedColumn", "Assignment", "Column", "Columns", "Cube", "For", "GroupBy",
     "GroupingSets", "Options", "Rollup", "Select", "Top", "Tuple", "Union", "Windows"}
       \subseteq ProgramKinds
BY DEF ProgramKinds

LEMMA SimpleStatementsPoints ==
    /\ Takes("parseExpressionStatement.Expression") /\ Begins("parseFetchStatement.From")
    /\ Begins("parseFetchStatement.Into") /\ Takes("parseFetchStatement.Offset")
    /\ Takes("parsePrintStatement.Expression") /\ Takes("parseRaiserrorStatement.Args")
    /\ Takes("parseRaiserrorStatement.Message") /\ Begins("parseRaiserrorStatement.Option")
    /\ Takes("parseRaiserrorStatement.Severity") /\ Begins("parseRaiserrorStatement.With")
    /\ Takes("parseReturnStatement.Value") /\ Takes("parseThrowStatement.ErrorNum")
    /\ Takes("parseThrowStatement.Message") /\ Takes("parseThrowStatement.State")
    /\ Takes("parseWaitforStatement.Duration")
<1>1. /\ Takes("parseExpressionStatement.Expression") /\ Begins("parseFetchStatement.From")
      /\ Begins("parseFetchStatement.Into") /\ Takes("parseFetchStatement.Offset")
      /\ Takes("parsePrintStatement.Expression") /\ Takes("parseRaiserrorStatement.Args")
      /\ Takes("parseRaiserrorStatement.Message") /\ Begins("parseRaiserrorStatement.Option")
  BY DEF Begins, Takes, Ordinary, ProgramPoints, TakesResult, GoesOn, NeedsOperand,
         MayReturnNil, NilHolders, MayHoldNil, MayLack, MayGetNil
<1>2. /\ Takes("parseRaiserrorStatement.Severity") /\ Begins("parseRaiserrorStatement.With")
      /\ Takes("parseReturnStatement.Value") /\ Takes("parseThrowStatement.ErrorNum")
      /\ Takes("parseThrowStatement.Message") /\ Takes("parseThrowStatement.State")
      /\ Takes("parseWaitforStatement.Duration")
  BY DEF Begins, Takes, Ordinary, ProgramPoints, TakesResult, GoesOn, NeedsOperand,
         MayReturnNil, NilHolders, MayHoldNil, MayLack, MayGetNil
<1> QED BY <1>1, <1>2

LEMMA SimpleStatementsKinds ==
    {"BeginTransaction", "Break", "Commit", "Continue", "DeallocateCursor", "Expression",
     "Fetch", "Goto", "Label", "PrintText", "Raiserror", "Return", "Rollback",
     "SaveTransaction", "Throw", "Use", "Waitfor"}
       \subseteq ProgramKinds
BY DEF ProgramKinds

LEMMA StatementsPoints ==
    /\ Begins("ParseProgram") /\ Gets("ParseProgram.Statement")
    /\ Gets("parseBeginEndBlock.Statement") /\ Begins("parseBeginEndBlock.Statements")
    /\ GetsMore("parseIfStatement.Alternative") /\ Takes("parseIfStatement.Condition")
    /\ Gets("parseIfStatement.Consequence") /\ Takes("parseParenthesizedSelectStatement.Inner")
    /\ "parseParenthesizedSelectStatement.Right" \in ProgramPoints
    /\ "parseParenthesizedSelectStatement.Right" \in TakesResult
    /\ "parseParenthesizedSelectStatement.Right" \in NeedsOperand
    /\ "parseParenthesizedSelectStatement.Right" \notin MayReturnNil
    /\ "parseParenthesizedSelectStatement.Right" \notin MayGetNil
    /\ "parseParenthesizedSelectStatement.Right" \notin NilHolders
    /\ "parseParenthesizedSelectStatement.Set" \in ProgramPoints
    /\ "parseParenthesizedSelectStatement.Set" \notin TakesResult
    /\ "parseParenthesizedSelectStatement.Set" \in NeedsOperand
    /\ "parseParenthesizedSelectStatement.Set" \notin MayReturnNil
    /\ "parseParenthesizedSelectStatement.Set" \notin MayGetNil
    /\ "parseParenthesizedSelectStatement.Set" \notin NilHolders
    /\ Takes("parseStatement.Select") /\ Leaves("parseTryCatchStatement.Between")
    /\ Begins("parseTryCatchStatement.Catch") /\ Gets("parseTryCatchStatement.Caught")
    /\ Begins("parseTryCatchStatement.Close")
    /\ "parseTryCatchStatement.Tried" \in ProgramPoints
    /\ "parseTryCatchStatement.Tried" \in TakesResult
    /\ "parseTryCatchStatement.Tried" \notin NeedsOperand
    /\ "parseTryCatchStatement.Tried" \in MayReturnNil
    /\ "parseTryCatchStatement.Tried" \in MayGetNil
    /\ "parseTryCatchStatement.Tried" \notin NilHolders
    /\ Leaves("parseTryCatchStatement.Try") /\ Gets("parseWhileStatement.Body")
    /\ Takes("parseWhileStatement.Condition")
<1>1. /\ Begins("ParseProgram") /\ Gets("ParseProgram.Statement")
      /\ Gets("parseBeginEndBlock.Statement") /\ Begins("parseBeginEndBlock.Statements")
      /\ GetsMore("parseIfStatement.Alternative") /\ Takes("parseIfStatement.Condition")
      /\ Gets("parseIfStatement.Consequence")
      /\ Takes("parseParenthesizedSelectStatement.Inner")
  BY DEF Begins, Takes, Gets, GetsMore, Ordinary, Holder, ProgramPoints, TakesResult, GoesOn,
         NeedsOperand, MayReturnNil, NilHolders, MayHoldNil, MayLack, MayGetNil
<1>2. /\ "parseParenthesizedSelectStatement.Right" \in ProgramPoints
      /\ "parseParenthesizedSelectStatement.Right" \in TakesResult
      /\ "parseParenthesizedSelectStatement.Right" \in NeedsOperand
      /\ "parseParenthesizedSelectStatement.Right" \notin MayReturnNil
      /\ "parseParenthesizedSelectStatement.Right" \notin MayGetNil
      /\ "parseParenthesizedSelectStatement.Right" \notin NilHolders
      /\ "parseParenthesizedSelectStatement.Set" \in ProgramPoints
      /\ "parseParenthesizedSelectStatement.Set" \notin TakesResult
      /\ "parseParenthesizedSelectStatement.Set" \in NeedsOperand
      /\ "parseParenthesizedSelectStatement.Set" \notin MayReturnNil
      /\ "parseParenthesizedSelectStatement.Set" \notin MayGetNil
      /\ "parseParenthesizedSelectStatement.Set" \notin NilHolders
      /\ Takes("parseStatement.Select") /\ Leaves("parseTryCatchStatement.Between")
      /\ Begins("parseTryCatchStatement.Catch") /\ Gets("parseTryCatchStatement.Caught")
      /\ Begins("parseTryCatchStatement.Close")
      /\ "parseTryCatchStatement.Tried" \in ProgramPoints
      /\ "parseTryCatchStatement.Tried" \in TakesResult
      /\ "parseTryCatchStatement.Tried" \notin NeedsOperand
      /\ "parseTryCatchStatement.Tried" \in MayReturnNil
      /\ "parseTryCatchStatement.Tried" \in MayGetNil
      /\ "parseTryCatchStatement.Tried" \notin NilHolders
  BY DEF Begins, Takes, Gets, Leaves, Ordinary, ProgramPoints, TakesResult, GoesOn,
         NeedsOperand, MayReturnNil, NilHolders, MayHoldNil, MayLack, MayGetNil
<1>3. /\ Leaves("parseTryCatchStatement.Try") /\ Gets("parseWhileStatement.Body")
      /\ Takes("parseWhileStatement.Condition")
  BY DEF Takes, Gets, Leaves, Ordinary, ProgramPoints, TakesResult, GoesOn, NeedsOperand,
         MayReturnNil, NilHolders, MayHoldNil, MayLack, MayGetNil
<1> QED BY <1>1, <1>2, <1>3

LEMMA StatementsKinds ==
    {"Block", "If", "IfElse", "NilSelect", "Program", "Select", "TryCatch", "While"}
       \subseteq ProgramKinds
BY DEF ProgramKinds

LEMMA StoragePoints ==
    /\ Takes("parseAlterPartitionFunctionStatement.Value")
    /\ Begins("parseCreateFulltextCatalogStatement.Clause")
    /\ Begins("parseCreatePartitionFunctionStatement.Range")
    /\ Takes("parseCreatePartitionFunctionStatement.Type")
    /\ Begins("parseCreatePartitionFunctionStatement.Value")
    /\ Takes("parseCreatePartitionFunctionStatement.Values")
BY DEF Begins, Takes, Ordinary, ProgramPoints, TakesResult, GoesOn, NeedsOperand, MayReturnNil,
       NilHolders, MayHoldNil, MayLack, MayGetNil

LEMMA StorageKinds ==
    {"AlterFulltextIndex", "AlterPartitionFunction", "AlterPartitionScheme",
     "CreateFulltextCatalog", "CreateFulltextIndex", "DropFulltextIndex", "DropNamed",
     "PartitionFunction", "PartitionScheme"}
       \subseteq ProgramKinds
BY DEF ProgramKinds

LEMMA TableDefinitionsPoints ==
    /\ Takes("parseAlterTableAction.Added") /\ Takes("parseAlterTableAction.Column")
    /\ Begins("parseAlterTableAction.Set") /\ Begins("parseAlterTableStatement.Action")
    /\ Gets("parseAlterTableStatement.Next") /\ Takes("parseColumnDefinition.Constraint")
    /\ Takes("parseColumnDefinition.DataType") /\ Takes("parseColumnDefinition.Default")
    /\ Takes("parseColumnDefinition.Expression") /\ Begins("parseColumnDefinition.Option")
    /\ Takes("parseColumnDefinition.Parenthesis") /\ Begins("parseColumnDefinition.Persisted")
    /\ Begins("parseCreateTableStatement.Element") /\ Begins("parseCreateTableStatement.End")
    /\ Begins("parseCreateTableStatement.Name") /\ Takes("parseCreateTableStatement.Next")
    /\ Begins("parseCreateTableStatement.On") /\ Begins("parseCreateTableStatement.Options")
    /\ Begins("parseDropIndexStatement.More") /\ Begins("parseInlineCheckConstraint.Check")
    /\ Takes("parseInlineCheckConstraint.Condition")
    /\ Begins("parseInlineConstraint.Clustered")
    /\ Begins("parseInlineReferencesConstraint.Actions") /\ Begins("parsePartitionList")
    /\ Begins("parsePartitionList.Close") /\ Begins("parseTableConstraint.Actions")
    /\ Begins("parseTableConstraint.Check") /\ Begins("parseTableConstraint.Columns")
    /\ Takes("parseTableConstraint.Condition") /\ Takes("parseTableConstraint.Default")
    /\ Takes("parseTableConstraint.End") /\ Begins("parseTableConstraint.For")
    /\ Begins("parseTableConstraint.ForeignColumns")
    /\ Begins("parseTableConstraint.ForeignKey") /\ Begins("parseTableConstraint.Key")
    /\ Begins("parseTableConstraint.KeyColumns") /\ Takes("parseTableConstraint.Options")
    /\ Takes("parseTableConstraint.Parenthesis") /\ Takes("parseTableConstraint.References")
    /\ Begins("parseTableConstraint.Table") /\ Begins("parseTableConstraint.TableColumns")
    /\ Begins("parseTableConstraint.Type") /\ Begins("parseTableTypeDefinition.Element")
    /\ Begins("parseTableTypeDefinition.End") /\ Takes("parseTableTypeDefinition.Next")
    /\ Begins("parseTruncateTableCompound.Close")
<1>1. /\ Takes("parseAlterTableAction.Added") /\ Takes("parseAlterTableAction.Column")
      /\ Begins("parseAlterTableAction.Set") /\ Begins("parseAlterTableStatement.Action")
      /\ Gets("parseAlterTableStatement.Next") /\ Takes("parseColumnDefinition.Constraint")
      /\ Takes("parseColumnDefinition.DataType") /\ Takes("parseColumnDefinition.Default")
  BY DEF Begins, Takes, Gets, Ordinary, ProgramPoints, TakesResult, GoesOn, NeedsOperand,
         MayReturnNil, NilHolders, MayHoldNil, MayLack, MayGetNil
<1>2. /\ Takes("parseColumnDefinition.Expression") /\ Begins("parseColumnDefinition.Option")
      /\ Takes("parseColumnDefinition.Parenthesis") /\ Begins("parseColumnDefinition.Persisted")
      /\ Begins("parseCreateTableStatement.Element") /\ Begins("parseCreateTableStatement.End")
      /\ Begins("parseCreateTableStatement.Name") /\ Takes("parseCreateTableStatement.Next")
  BY DEF Begins, Takes, Ordinary, ProgramPoints, TakesResult, GoesOn, NeedsOperand,
         MayReturnNil, NilHolders, MayHoldNil, MayLack, MayGetNil
<1>3. /\ Begins("parseCreateTableStatement.On") /\ Begins("parseCreateTableStatement.Options")
      /\ Begins("parseDropIndexStatement.More") /\ Begins("parseInlineCheckConstraint.Check")
      /\ Takes("parseInlineCheckConstraint.Condition")
      /\ Begins("parseInlineConstraint.Clustered")
      /\ Begins("parseInlineReferencesConstraint.Actions") /\ Begins("parsePartitionList")
  BY DEF Begins, Takes, Ordinary, ProgramPoints, TakesResult, GoesOn, NeedsOperand,
         MayReturnNil, NilHolders, MayHoldNil, MayLack, MayGetNil
<1>4. /\ Begins("parsePartitionList.Close") /\ Begins("parseTableConstraint.Actions")
      /\ Begins("parseTableConstraint.Check") /\ Begins("parseTableConstraint.Columns")
      /\ Takes("parseTableConstraint.Condition") /\ Takes("parseTableConstraint.Default")
      /\ Takes("parseTableConstraint.End") /\ Begins("parseTableConstraint.For")
  BY DEF Begins, Takes, Ordinary, ProgramPoints, TakesResult, GoesOn, NeedsOperand,
         MayReturnNil, NilHolders, MayHoldNil, MayLack, MayGetNil
<1>5. /\ Begins("parseTableConstraint.ForeignColumns")
      /\ Begins("parseTableConstraint.ForeignKey") /\ Begins("parseTableConstraint.Key")
      /\ Begins("parseTableConstraint.KeyColumns") /\ Takes("parseTableConstraint.Options")
      /\ Takes("parseTableConstraint.Parenthesis") /\ Takes("parseTableConstraint.References")
      /\ Begins("parseTableConstraint.Table")
  BY DEF Begins, Takes, Ordinary, ProgramPoints, TakesResult, GoesOn, NeedsOperand,
         MayReturnNil, NilHolders, MayHoldNil, MayLack, MayGetNil
<1>6. /\ Begins("parseTableConstraint.TableColumns") /\ Begins("parseTableConstraint.Type")
      /\ Begins("parseTableTypeDefinition.Element") /\ Begins("parseTableTypeDefinition.End")
      /\ Takes("parseTableTypeDefinition.Next") /\ Begins("parseTruncateTableCompound.Close")
  BY DEF Begins, Takes, Ordinary, ProgramPoints, TakesResult, GoesOn, NeedsOperand,
         MayReturnNil, NilHolders, MayHoldNil, MayLack, MayGetNil
<1> QED BY <1>1, <1>2, <1>3, <1>4, <1>5, <1>6

LEMMA TableDefinitionsKinds ==
    {"Action", "AlterTable", "ColumnConstraint", "ColumnDefinition", "Constraint",
     "CreateTable", "DropIndex", "DropObject", "DropSequence", "DropStatistics",
     "DropTable", "IndexColumns", "TableType", "Truncate"}
       \subseteq ProgramKinds
BY DEF ProgramKinds

LEMMA TablesPoints ==
    /\ Takes("parseFromClause.Table") /\ Takes("parseJoinClause.Apply")
    /\ Takes("parseJoinClause.Condition") /\ Takes("parseJoinClause.Right")
    /\ Begins("parseOpenJsonColumns.Column") /\ Takes("parseOpenJsonColumns.Type")
    /\ Begins("parsePivotTable") /\ Takes("parsePivotTable.Column")
    /\ Begins("parseTableHints.Hint") /\ Begins("parseTableHints.Next")
    /\ Begins("parseTableHints.Outer") /\ Begins("parseTableReference.Alias")
    /\ Takes("parseTableReference.Argument") /\ Takes("parseTableReference.Columns")
    /\ Begins("parseTableReference.Derive") /\ Takes("parseTableReference.Derived")
    /\ Begins("parseTableReference.Function") /\ Takes("parseTableReference.Group")
    /\ Takes("parseTableReference.Hinted") /\ Takes("parseTableReference.HintedAgain")
    /\ Begins("parseTableReference.Hints") /\ Begins("parseTableReference.HintsAgain")
    /\ Begins("parseTableReference.Name") /\ Begins("parseTableReference.Option")
    /\ Takes("parseTableReference.Rows") /\ Gets("parseTableReference.Sampled")
    /\ Begins("parseTableReference.Table") /\ Begins("parseTableReference.Time")
    /\ Gets("parseTableReference.Timed") /\ Takes("parseTableReference.Value")
    /\ Begins("parseTableReference.With") /\ Takes("parseTableSample.Seed")
    /\ Takes("parseTableSample.Value") /\ Takes("parseTemporalClause.Between")
    /\ Takes("parseTemporalClause.Close") /\ Takes("parseTemporalClause.Contained")
    /\ Takes("parseTemporalClause.From") /\ Takes("parseTemporalClause.Last")
    /\ Begins("parseUnpivotTable") /\ Takes("parseValuesRows.Value")
<1>1. /\ Takes("parseFromClause.Table") /\ Takes("parseJoinClause.Apply")
      /\ Takes("parseJoinClause.Condition") /\ Takes("parseJoinClause.Right")
      /\ Begins("parseOpenJsonColumns.Column") /\ Takes("parseOpenJsonColumns.Type")
      /\ Begins("parsePivotTable") /\ Takes("parsePivotTable.Column")
  BY DEF Begins, Takes, Ordinary, ProgramPoints, TakesResult, GoesOn, NeedsOperand,
         MayReturnNil, NilHolders, MayHoldNil, MayLack, MayGetNil
<1>2. /\ Begins("parseTableHints.Hint") /\ Begins("parseTableHints.Next")
      /\ Begins("parseTableHints.Outer") /\ Begins("parseTableReference.Alias")
      /\ Takes("parseTableReference.Argument") /\ Takes("parseTableReference.Columns")
      /\ Begins("parseTableReference.Derive") /\ Takes("parseTableReference.Derived")
  BY DEF Begins, Takes, Ordinary, ProgramPoints, TakesResult, GoesOn, NeedsOperand,
         MayReturnNil, NilHolders, MayHoldNil, MayLack, MayGetNil
<1>3. /\ Begins("parseTableReference.Function") /\ Takes("parseTableReference.Group")
      /\ Takes("parseTableReference.Hinted") /\ Takes("parseTableReference.HintedAgain")
      /\ Begins("parseTableReference.Hints") /\ Begins("parseTableReference.HintsAgain")
      /\ Begins("parseTableReference.Name") /\ Begins("parseTableReference.Option")
  BY DEF Begins, Takes, Ordinary, ProgramPoints, TakesResult, GoesOn, NeedsOperand,
         MayReturnNil, NilHolders, MayHoldNil, MayLack, MayGetNil
<1>4. /\ Takes("parseTableReference.Rows") /\ Gets("parseTableReference.Sampled")
      /\ Begins("parseTableReference.Table") /\ Begins("parseTableReference.Time")
      /\ Gets("parseTableReference.Timed") /\ Takes("parseTableReference.Value")
      /\ Begins("parseTableReference.With") /\ Takes("parseTableSample.Seed")
  BY DEF Begins, Takes, Gets, Ordinary, ProgramPoints, TakesResult, GoesOn, NeedsOperand,
         MayReturnNil, NilHolders, MayHoldNil, MayLack, MayGetNil
<1>5. /\ Takes("parseTableSample.Value") /\ Takes("parseTemporalClause.Between")
      /\ Takes("parseTemporalClause.Close") /\ Takes("parseTemporalClause.Contained")
      /\ Takes("parseTemporalClause.From") /\ Takes("parseTemporalClause.Last")
      /\ Begins("parseUnpivotTable") /\ Takes("parseValuesRows.Value")
  BY DEF Begins, Takes, Ordinary, ProgramPoints, TakesResult, GoesOn, NeedsOperand,
         MayReturnNil, NilHolders, MayHoldNil, MayLack, MayGetNil
<1> QED BY <1>1, <1>2, <1>3, <1>4, <1>5

LEMMA TablesKinds ==
    {"Apply", "DerivedTable", "DmlDerivedTable", "From", "Hints", "Join", "JsonColumns",
     "ParenthesizedTable", "Pivot", "Rows", "Sample", "TableFunction", "TableName",
     "Temporal", "Unpivot", "ValuesTable"}
       \subseteq ProgramKinds
BY DEF ProgramKinds

LEMMA WindowsPoints ==
    /\ Takes("parseFrameBound.Offset") /\ Takes("parseOrderByItems.Item")
    /\ Begins("parseOverClause.Close") /\ Begins("parseOverClause.Frame")
    /\ Takes("parseOverClause.Framed") /\ Begins("parseOverClause.Order")
    /\ Takes("parseOverClause.Ordered") /\ Takes("parseOverClause.Partition")
    /\ Takes("parseWindowFrame.End") /\ Takes("parseWindowFrame.Start")
<1>1. /\ Takes("parseFrameBound.Offset") /\ Takes("parseOrderByItems.Item")
      /\ Begins("parseOverClause.Close") /\ Begins("parseOverClause.Frame")
      /\ Takes("parseOverClause.Framed") /\ Begins("parseOverClause.Order")
      /\ Takes("parseOverClause.Ordered") /\ Takes("parseOverClause.Partition")
  BY DEF Begins, Takes, Ordinary, ProgramPoints, TakesResult, GoesOn, NeedsOperand,
         MayReturnNil, NilHolders, MayHoldNil, MayLack, MayGetNil
<1>2. /\ Takes("parseWindowFrame.End") /\ Takes("parseWindowFrame.Start")
  BY DEF Takes, Ordinary, ProgramPoints, TakesResult, GoesOn, NeedsOperand, MayReturnNil,
         NilHolders, MayHoldNil, MayLack, MayGetNil
<1> QED BY <1>1, <1>2

LEMMA WindowsKinds ==
    {"FrameBound", "OrderBy", "Over", "WindowFrame"}
       \subseteq ProgramKinds
BY DEF ProgramKinds
=============================================================================
