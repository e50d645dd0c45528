----------------------------- MODULE Order_proof -----------------------------
(***************************************************************************)
(* Proofs about the order of Expressions: the operands of a node are parts *)
(* of its text, in the order of the source, and the stack grows with the   *)
(* tokens read.  Every step of the parser of expressions is one of twelve  *)
(* moves: what the moves say of the points of the functions, of the        *)
(* operands that are handed on and of the cursor comes first, so that the  *)
(* proofs of the invariants need not go through the parse functions one by *)
(* one again.                                                              *)
(***************************************************************************)
EXTENDS Expressions_proof

InfixFns ==
    {"parseInfixExpression", "parseCallExpression", "parseDotExpression",
     "parseScopeExpression", "parseLikeExpression", "parseBetweenExpression",
     "parseInExpression", "parseIsNullExpression", "parseDistinctFromExpression",
     "parseNotInfixExpression", "parseCollateExpression", "parseAtTimeZoneExpression"}
Functions == (Labels \ AwaitsResult) \ InfixFns

(* A frame at depth i of the stack has read enough tokens for              *)
(* i <= 2 * pos + Slack(its point).                                        *)
Slack(pc) ==
    CASE pc \in {"parseOrderByItems", "parseOrderByItems.Item", "parseFrameBound",
                 "parseFrameBound.Offset", "parseOverClause", "parseOverClause.Partition",
                 "parseOverClause.Order", "parseOverClause.Ordered", "parseOverClause.Frame",
                 "parseOverClause.Framed", "parseOverClause.Close"}         -> -1
      [] pc \in {"parseExpression", "parseExpression.Left", "parseCallExpression",
                 "parseCallExpression.Arguments", "parseCallExpression.WithinGroup",
                 "parseCallExpression.Over", "parseCallExpression.Clause",
                 "parseWindowFrame", "parseWindowFrame.Start",
                 "parseWindowFrame.End"}                                    -> 0
      [] pc = "parseSelectStatement"                                        -> 2
      [] OTHER                                                              -> 1

(* Where an OVER clause has its frame, which may begin with a token of its *)
(* ORDER BY items.                                                         *)
IsLoose(pc) == pc \in {"parseOverClause.Framed", "parseOverClause.Close"}

(* The points that wait for an operand, and the precedence they ask for;   *)
(* `level` is the one of the operator.                                     *)
WantPoints ==
    {"parsePrefixExpression.Right", "parseInfixExpression.Right",
     "parseLikeExpression.Pattern", "parseLikeExpression.Escape",
     "parseBetweenExpression.Low", "parseBetweenExpression.High",
     "parseDistinctFromExpression.Right", "parseAtTimeZoneExpression.TimeZone"}
Wanted(pc, level) ==
    CASE pc = "parsePrefixExpression.Right"        -> PREFIX
      [] pc = "parseInfixExpression.Right"         -> level
      [] pc = "parseLikeExpression.Pattern"        -> COMPARE
      [] pc = "parseLikeExpression.Escape"         -> LOWEST
      [] pc = "parseBetweenExpression.Low"         -> AND_PREC
      [] pc = "parseBetweenExpression.High"        -> BETWEEN_PREC
      [] pc = "parseDistinctFromExpression.Right"  -> COMPARE
      [] pc = "parseAtTimeZoneExpression.TimeZone" -> CALL

(* The points of the functions that build operations, those that have one  *)
(* operand so far, and those of AT TIME ZONE.                              *)
OneOperand ==
    {"parseInfixExpression", "parseLikeExpression", "parseBetweenExpression",
     "parseInExpression", "parseIsNullExpression", "parseDistinctFromExpression",
     "parseCollateExpression", "parseAtTimeZoneExpression", "parseNotInfixExpression",
     "parseInfixExpression.Right", "parseLikeExpression.Pattern",
     "parseBetweenExpression.Low", "parseDistinctFromExpression.Right",
     "parseAtTimeZoneExpression.TimeZone"}
OperationPoints ==
    OneOperand \cup {"parseLikeExpression.Escape", "parseBetweenExpression.High",
                     "parseInExpression.Value", "parseInExpression.Subquery"}
AtPoints == {"parseAtTimeZoneExpression", "parseAtTimeZoneExpression.TimeZone"}
-----------------------------------------------------------------------------
(* The operands a call may be left with.                                   *)
Kept(kids) ==
    \/ kids \in {<<>>, <<NIL>>, Top.kids}
    \/ Top.pc \in AwaitsResult /\ kids \in {Got, GotIfAny}

(* The points of parseExpression itself.                                   *)
Exprs == {"parseExpression", "parseExpression.Left"}

(* Which function may be called from where, to go on where.                *)
Link(from, k, pc, fn) ==
    /\ pc \in AwaitsResult /\ fn \in Functions
    /\ Slack(from) <= Slack(pc) + 2 * k /\ Slack(from) + 1 <= Slack(fn) + 2 * k
    /\ ~ IsLoose(from)
    /\ from # "parseExpression.Left"
    /\ pc = "parseExpression.Left" <=> from = "parseExpression"
    /\ from = "parseExpression" => fn # "parseExpression"
    /\ pc = "parseInfixExpression.Right" => from = "parseInfixExpression"
    /\ pc = "parseOverClause.Framed" => from = "parseOverClause.Frame"
    /\ pc = "parseBetweenExpression.High" => from = "parseBetweenExpression.Low"
    /\ pc = "parseLikeExpression.Escape" => from = "parseLikeExpression.Pattern"
    /\ pc \in WantPoints => fn = "parseExpression"
    /\ pc \in OperationPoints <=> from \in OperationPoints
    /\ pc \in OneOperand => from \in OneOperand
    /\ pc \in AtPoints => from \in AtPoints
(* With which operands.                                                    *)
Hands(k, pc, kids) ==
    /\ Kept(kids)
    /\ k = 0 /\ kids # <<>> => \/ Top.pc = "parseCallExpression"
                               \/ Cur \in FrameWords /\ pc = "parseOverClause.Framed"
    /\ pc = "parsePrefixExpression.Right" => kids = <<>>
    /\ pc \in OneOperand => kids = Top.kids
    /\ pc \in OperationPoints => kids \in {Top.kids, Got, GotIfAny}
    /\ pc \in {"parseLikeExpression.Escape", "parseBetweenExpression.High"} => kids = Got

CallMove(k, pc, kids, fn, prec) ==
    /\ Link(Top.pc, k, pc, fn) /\ Hands(k, pc, kids)
    /\ fn = "parseExpression" => prec >= LOWEST
    /\ pc \in WantPoints => prec = Wanted(pc, Precedence(Cur))
    /\ CallFrame(k, pc, kids, Frame(fn, prec, pos + k, pos + k, <<>>))

(* Going on in the same function.                                          *)
Way(from, k, pc) ==
    /\ pc \in Functions \ {"parseExpression"}
    /\ from \notin OperationPoints \cup Exprs /\ pc \notin OperationPoints
    /\ Slack(from) <= Slack(pc) + 2 * k
    /\ IsLoose(from) => IsLoose(pc)
GoMove(k, pc, kids) == Way(Top.pc, k, pc) /\ Kept(kids) /\ Continue(k, pc, kids)

(* Returning a new node; the operations are built in one place each.       *)
Builds(kind, at, kids, k) ==
    /\ kind \in Kinds /\ Kept(kids) /\ Top.pc \notin Exprs
    /\ IsLoose(Top.pc) => kind = "Over"
    /\ Top.pc \in OperationPoints <=> kind \in Operations
    /\ kind \in Operations \cup {"Prefix"} => at = Top.at
    /\ kind \in {"Infix", "Between", "IsDistinctFrom", "AtTimeZone", "Prefix"} => kids = Got
    /\ kind \in {"Infix", "Between", "IsDistinctFrom", "AtTimeZone", "Prefix", "Like"} => k = 0
    /\ kind = "Infix" => Top.pc = "parseInfixExpression.Right"
    /\ kind = "Between" => Top.pc = "parseBetweenExpression.High"
    /\ kind = "IsDistinctFrom" => Top.pc = "parseDistinctFromExpression.Right"
    /\ kind = "AtTimeZone" => Top.pc = "parseAtTimeZoneExpression.TimeZone"
    /\ kind = "Prefix" => Top.pc = "parsePrefixExpression.Right"
    /\ kind = "Like" => \/ Top.pc = "parseLikeExpression.Pattern" /\ kids = Got
                        \/ Top.pc = "parseLikeExpression.Escape" /\ kids \in {Got, GotIfAny}
    /\ kind \in {"IsNull", "Collate"} => kids = Top.kids
    /\ kind = "In" => kids \in {Got, GotIfAny}
(* The cursor is on the last token of the node, but for an OVER clause.    *)
BuildMove(kind, at, kids, hi, k) ==
    /\ Builds(kind, at, kids, k)
    /\ hi = pos + k \/ (kind = "Over" /\ k > 0 /\ hi = pos + k - 1)
    /\ BuildTo(kind, at, kids, hi, k)
    /\ errors' = errors \/ \E e \in Nat : errors' = Append(errors, pos + e)

InfixMove ==
    /\ At("parseExpression.Left")
    /\ Top.prec < Precedence(Peek) /\ InfixFn(Peek) # "nil"
    /\ CallFrame(1, "parseExpression.Left", <<>>,
                 Frame(InfixFn(Peek), 0, pos + 1, Top.lo, <<ret>>))
LeftMove ==
    /\ At("parseExpression.Left")
    /\ Top.prec >= Precedence(Peek) \/ Precedence(Peek) = LOWEST
    /\ Return(ret)
ParenMove == At("parseGroupedExpression.Exp") /\ DropParentheses
AtMove    == At("parseAtTimeZoneExpression") /\ Return(Top.kids[1])
NotMove   ==
    At("parseNotInfixExpression") /\ Peek \in {"IN", "LIKE", "BETWEEN"} /\ TailCall(1, InfixFn(Peek))
PanicMove == (errors # <<>> \/ SelectBroke) /\ Panic
SelectMove == At("parseSelectStatement") /\ \E k \in Nat : SelectPanics(k)
NameMove  ==
    /\ At("parseFunctionLiteral")
    /\ heap' = Append(heap, Node("Identifier", pos, <<>>, pos))
    /\ stack' = [stack EXCEPT ![Len(stack)] =
           Frame("parseCallExpression", Top.prec, pos + 1, Top.lo, <<Len(heap) + 1>>)]
    /\ pos' = pos + 1
    /\ UNCHANGED <<input, ret, errors>>

(* The points the rules about operations say nothing of.                   *)
Plain(pc) == pc \notin OperationPoints \cup Exprs \cup {"parsePrefixExpression.Right"}
PlainKinds == Kinds \ (Operations \cup {"Prefix"})

Move ==
    /\ stack # <<>>
    /\ \/ \E k \in Nat, pc \in Labels, kids \in Seq(Nat), fn \in Labels, prec \in Nat :
             CallMove(k, pc, kids, fn, prec)
       \/ \E k \in Nat, pc \in Labels, kids \in Seq(Nat) : GoMove(k, pc, kids)
       \/ \E kind \in Kinds, at \in Nat, kids \in Seq(Nat), hi \in Nat, k \in Nat :
             BuildMove(kind, at, kids, hi, k)
       \/ \E e \in Nat, k \in Nat : Fail(e, k)
       \/ InfixMove \/ LeftMove \/ ParenMove \/ AtMove \/ NotMove \/ NameMove
       \/ PanicMove \/ SelectMove
-----------------------------------------------------------------------------
LEMMA Standing ==
    ASSUME IInv, NEW pc, At(pc)
    PROVE  /\ stack # <<>> /\ Top.pc = pc /\ pos \in Nat
           /\ Top.at \in Nat /\ Top.prec \in Nat /\ Top.lo \in Nat
           /\ Top.kids \in Seq(Nat) /\ Kept(Top.kids) /\ Kept(<<>>)
<1>1. /\ stack # <<>> /\ Top.pc = pc /\ pos \in Nat
      /\ Top.at \in Nat /\ Top.prec \in Nat /\ Top.lo \in Nat
      /\ Operands(Top.kids)
  BY Here DEF IInv
<1> QED BY <1>1 DEF Operands, Kept

LEMMA WithResult ==
    ASSUME IInv, stack # <<>>, Top.pc \in AwaitsResult
    PROVE  /\ ret \in Nat /\ Kept(Got) /\ Kept(GotIfAny)
           /\ Got \in Seq(Nat) /\ GotIfAny \in Seq(Nat)
<1>1. ret \in Nat /\ Operands(Got) /\ Operands(GotIfAny)
  BY GotOK DEF IInv
<1> QED BY <1>1 DEF Operands, Kept

LEMMA Resumed ==
    ASSUME IInv, NEW pc \in AwaitsResult, At(pc)
    PROVE  /\ ret \in Nat /\ Kept(Got) /\ Kept(GotIfAny)
           /\ Got \in Seq(Nat) /\ GotIfAny \in Seq(Nat)
BY WithResult DEF At

LEMMA KeptType ==
    ASSUME IInv, stack # <<>>, NEW kids, Kept(kids)
    PROVE  kids \in Seq(Nat)
<1>1. Top.kids \in Seq(Nat)
  BY TopOK DEF IInv, Operands
<1>2. <<>> \in Seq(Nat) /\ <<NIL>> \in Seq(Nat)
  BY DEF NIL
<1> QED BY <1>1, <1>2, WithResult DEF Kept

LEMMA CallExpressionMoves ==
    ASSUME IInv, NEW from, At(from), NEW k \in Nat, NEW pc, NEW kids, NEW prec \in Nat,
           Link(from, k, pc, "parseExpression"), Hands(k, pc, kids),
           prec >= LOWEST, pc \in WantPoints => prec = Wanted(pc, Precedence(Cur)),
           CallExpression(k, pc, kids, prec)
    PROVE  Move
<1>1. kids \in Seq(Nat) /\ pc \in Labels /\ "parseExpression" \in Labels
  BY KeptType DEF Hands, Link, Labels, Functions, At
<1>2. CallMove(k, pc, kids, "parseExpression", prec)
  BY DEF CallMove, CallExpression, At
<1> QED BY <1>1, <1>2 DEF Move, At

LEMMA CallMoves ==
    ASSUME IInv, NEW from, At(from), NEW k \in Nat, NEW pc, NEW kids,
           NEW fn, fn # "parseExpression",
           Link(from, k, pc, fn), Hands(k, pc, kids),
           Call(k, pc, kids, fn)
    PROVE  Move
<1>1. kids \in Seq(Nat) /\ pc \in Labels /\ fn \in Labels
  BY KeptType DEF Hands, Link, Labels, Functions, At
<1>2. CallMove(k, pc, kids, fn, 0)
  BY DEF CallMove, Call, Link, At
<1> QED BY <1>1, <1>2 DEF Move, At

LEMMA PlainHands ==
    ASSUME NEW k \in Nat, NEW pc, Plain(pc), NEW kids, Kept(kids), k # 0 \/ kids = <<>>
    PROVE  Hands(k, pc, kids)
BY DEF Hands, Plain, OperationPoints

LEMMA PlainCallExpression ==
    ASSUME IInv, NEW from, At(from), NEW k \in Nat, NEW pc, Plain(pc),
           NEW kids, Kept(kids), k # 0 \/ kids = <<>>, NEW prec \in Nat, prec >= LOWEST,
           Link(from, k, pc, "parseExpression"),
           CallExpression(k, pc, kids, prec)
    PROVE  Move
<1>1. pc \notin WantPoints
  BY DEF Plain, WantPoints, OperationPoints, OneOperand
<1> QED BY <1>1, PlainHands, CallExpressionMoves

LEMMA PlainCallLowest ==
    ASSUME IInv, NEW from, At(from), NEW k \in Nat, NEW pc, Plain(pc),
           NEW kids, Kept(kids), k # 0 \/ kids = <<>>,
           Link(from, k, pc, "parseExpression"),
           CallExpression(k, pc, kids, LOWEST)
    PROVE  Move
BY PlainCallExpression DEF LOWEST

LEMMA PlainCall ==
    ASSUME IInv, NEW from, At(from), NEW k \in Nat, NEW pc, Plain(pc),
           NEW kids, Kept(kids), k # 0 \/ kids = <<>>,
           NEW fn, fn # "parseExpression", Link(from, k, pc, fn),
           Call(k, pc, kids, fn)
    PROVE  Move
BY PlainHands, CallMoves

LEMMA ContinueMoves ==
    ASSUME IInv, NEW from, At(from), NEW k \in Nat, NEW pc, NEW kids, Kept(kids),
           Way(from, k, pc), Continue(k, pc, kids)
    PROVE  Move
<1>1. kids \in Seq(Nat) /\ pc \in Labels
  BY KeptType DEF Way, Functions, At
<1>2. GoMove(k, pc, kids)
  BY DEF GoMove, At
<1> QED BY <1>1, <1>2 DEF Move, At

LEMMA ReturnMoves ==
    ASSUME IInv, stack # <<>>, NEW kind, NEW at \in Nat, NEW kids, NEW k \in Nat,
           Builds(kind, at, kids, k),
           \/ ReturnNew(kind, at, kids, k)
           \/ \E e \in Nat : ReturnFlawed(kind, at, kids, k, e)
    PROVE  Move
<1>1. kids \in Seq(Nat) /\ kind \in Kinds
  BY KeptType DEF Builds
<1>2. BuildMove(kind, at, kids, pos + k, k)
  BY DEF BuildMove, ReturnNew, ReturnFlawed, Build
<1>3. pos + k \in Nat
  BY DEF IInv, MachineInv, MachineTypeOK
<1> QED BY <1>1, <1>2, <1>3 DEF Move

LEMMA PlainBuilds ==
    ASSUME NEW from, At(from), Plain(from), NEW kind \in PlainKinds,
           ~ IsLoose(from) \/ kind = "Over", NEW at, NEW kids, Kept(kids), NEW k
    PROVE  Builds(kind, at, kids, k)
BY DEF Builds, Plain, PlainKinds, At, Operations

LEMMA PlainReturn ==
    ASSUME IInv, NEW from, At(from), Plain(from), NEW kind \in PlainKinds,
           ~ IsLoose(from) \/ kind = "Over",
           NEW at \in Nat, NEW kids, Kept(kids), NEW k \in Nat,
           ReturnNew(kind, at, kids, k)
    PROVE  Move
BY PlainBuilds, ReturnMoves DEF At

LEMMA PlainFlawed ==
    ASSUME IInv, NEW from, At(from), Plain(from), NEW kind \in PlainKinds,
           ~ IsLoose(from) \/ kind = "Over",
           NEW at \in Nat, NEW kids, Kept(kids), NEW k \in Nat, NEW e \in Nat,
           ReturnFlawed(kind, at, kids, k, e)
    PROVE  Move
BY PlainBuilds, ReturnMoves DEF At

LEMMA FailMoves ==
    ASSUME stack # <<>>, NEW e \in Nat, NEW k \in Nat, Fail(e, k)
    PROVE  Move
BY DEF Move

LEMMA GiveUpMoves ==
    ASSUME stack # <<>>, NEW k \in Nat, NEW words, DOMAIN words \subseteq Nat \ {0},
           Mismatches(k, words) # {}, GiveUp(k, words)
    PROVE  Move
<1> DEFINE j == k + First(Mismatches(k, words))
<1>1. Mismatches(k, words) \in SUBSET Nat /\ 0 \notin Mismatches(k, words)
  BY DEF Mismatches
<1>2. j \in Nat /\ j - 1 \in Nat
  BY <1>1, FirstOK
<1>3. Fail(j, j - 1)
  BY DEF GiveUp
<1> HIDE DEF j
<1> QED BY <1>2, <1>3, FailMoves
-----------------------------------------------------------------------------
(* The call graph: from where, how many tokens on, where the caller goes   *)
(* on, and the function called.                                            *)
LEMMA WindowLinks ==
    /\ Link("parseOrderByItems", 0, "parseOrderByItems.Item", "parseExpression")
    /\ \A k \in 2..3 : Link("parseOrderByItems.Item", k, "parseOrderByItems.Item", "parseExpression")
    /\ Link("parseFrameBound", 0, "parseFrameBound.Offset", "parseExpression")
    /\ Link("parseWindowFrame", 2, "parseWindowFrame.Start", "parseFrameBound")
    /\ Link("parseWindowFrame", 1, "parseWindowFrame.End", "parseFrameBound")
    /\ Link("parseWindowFrame.Start", 2, "parseWindowFrame.End", "parseFrameBound")
    /\ Link("parseOverClause", 4, "parseOverClause.Partition", "parseExpression")
    /\ Link("parseOverClause.Partition", 2, "parseOverClause.Partition", "parseExpression")
    /\ Link("parseOverClause.Order", 2, "parseOverClause.Ordered", "parseOrderByItems")
    /\ Link("parseOverClause.Frame", 0, "parseOverClause.Framed", "parseWindowFrame")
BY DEF Link, AwaitsResult, Functions, Labels, InfixFns, Slack, IsLoose, WantPoints,
       OperationPoints, OneOperand, AtPoints

LEMMA CallingLinks ==
    /\ Link("parseGroupedExpression", 1, "parseGroupedExpression.Subquery", "parseSelectStatement")
    /\ Link("parseGroupedExpression", 1, "parseGroupedExpression.Exp", "parseExpression")
    /\ Link("parseDotExpression", 2, "parseDotExpression.Arguments", "parseExpressionList")
    /\ Link("parseScopeExpression", 2, "parseScopeExpression.Arguments", "parseExpressionList")
    /\ \A k \in 0..1 : Link("parseCallExpression", k, "parseCallExpression.Arguments", "parseExpressionList")
    /\ Link("parseCallExpression.Arguments", 6, "parseCallExpression.WithinGroup", "parseOrderByItems")
    /\ Link("parseCallExpression.Over", 1, "parseCallExpression.Clause", "parseOverClause")
    /\ \A k \in 1..2 : Link("parseExpressionList", k, "parseExpressionList.Key", "parseExpression")
    /\ Link("parseExpressionList.Key", 2, "parseExpressionList.Value", "parseExpression")
    /\ Link("parseExpressionList.Key", 2, "parseExpressionList.Key", "parseExpression")
    /\ Link("parseExpressionList.Value", 2, "parseExpressionList.Key", "parseExpression")
    /\ Link("parseCaseExpression", 1, "parseCaseExpression.Operand", "parseExpression")
    /\ Link("parseCaseExpression.When", 1, "parseCaseExpression.Condition", "parseExpression")
    /\ Link("parseCaseExpression.When", 1, "parseCaseExpression.Else", "parseExpression")
    /\ Link("parseCaseExpression.Condition", 2, "parseCaseExpression.Result", "parseExpression")
    /\ Link("parseExistsExpression", 2, "parseExistsExpression.Subquery", "parseSelectStatement")
    /\ Link("parseAllExpression", 2, "parseAllExpression.Subquery", "parseSelectStatement")
    /\ Link("parseSubqueryExpression", 0, "parseSubqueryExpression.Select", "parseSelectStatement")
BY DEF Link, AwaitsResult, Functions, Labels, InfixFns, Slack, IsLoose, WantPoints,
       OperationPoints, OneOperand, AtPoints

LEMMA OperatorLinks ==
    /\ Link("parsePrefixExpression", 1, "parsePrefixExpression.Right", "parseExpression")
    /\ Link("parseInfixExpression", 1, "parseInfixExpression.Right", "parseExpression")
    /\ Link("parseLikeExpression", 1, "parseLikeExpression.Pattern", "parseExpression")
    /\ Link("parseLikeExpression.Pattern", 2, "parseLikeExpression.Escape", "parseExpression")
    /\ Link("parseAtTimeZoneExpression", 3, "parseAtTimeZoneExpression.TimeZone", "parseExpression")
    /\ Link("parseBetweenExpression", 1, "parseBetweenExpression.Low", "parseExpression")
    /\ Link("parseBetweenExpression.Low", 2, "parseBetweenExpression.High", "parseExpression")
    /\ Link("parseInExpression", 2, "parseInExpression.Subquery", "parseSelectStatement")
    /\ Link("parseInExpression", 2, "parseInExpression.Value", "parseExpression")
    /\ Link("parseInExpression.Value", 2, "parseInExpression.Value", "parseExpression")
    /\ Link("parseDistinctFromExpression", 1, "parseDistinctFromExpression.Right", "parseExpression")
BY DEF Link, AwaitsResult, Functions, Labels, InfixFns, Slack, IsLoose, WantPoints,
       OperationPoints, OneOperand, AtPoints

LEMMA ConversionLinks ==
    /\ Link("parseCastExpression", 2, "parseCastExpression.Expression", "parseExpression")
    /\ Link("parseCastExpression.Expression", 2, "parseCastExpression.TargetType", "parseDataType")
    /\ Link("parseConvertExpression", 2, "parseConvertExpression.TargetType", "parseDataType")
    /\ Link("parseConvertExpression.TargetType", 2, "parseConvertExpression.Expression", "parseExpression")
    /\ Link("parseConvertExpression.Expression", 2, "parseConvertExpression.Style", "parseExpression")
    /\ Link("parseParseExpression", 2, "parseParseExpression.Expression", "parseExpression")
    /\ Link("parseParseExpression.Expression", 2, "parseParseExpression.TargetType", "parseDataType")
    /\ Link("parseParseExpression.TargetType", 2, "parseParseExpression.Culture", "parseExpression")
    /\ \A k \in 2..3 : Link("parseTrimExpression", k, "parseTrimExpression.First", "parseExpression")
    /\ Link("parseTrimExpression.First", 2, "parseTrimExpression.Expression", "parseExpression")
BY DEF Link, AwaitsResult, Functions, Labels, InfixFns, Slack, IsLoose, WantPoints,
       OperationPoints, OneOperand, AtPoints

LEMMA DistantLinks ==
    ASSUME NEW k \in Nat, k >= 1
    PROVE
    /\ Link("parseCursorExpression", k, "parseCursorExpression.ForSelect", "parseSelectStatement")
    /\ k >= 2 => Link("parseNextValueForCompound", k, "parseNextValueForCompound.Over", "parseOverClause")
    /\ Link("parseContainsExpression", k, "parseContainsExpression.SearchTerm", "parseExpression")
    /\ Link("parseFreetextExpression", k, "parseFreetextExpression.SearchTerm", "parseExpression")
    /\ Link("parseContainsTableExpression", k, "parseContainsTableExpression.SearchTerm", "parseExpression")
    /\ Link("parseFreetextTableExpression", k, "parseFreetextTableExpression.SearchTerm", "parseExpression")
BY DEF Link, AwaitsResult, Functions, Labels, InfixFns, Slack, IsLoose, WantPoints,
       OperationPoints, OneOperand, AtPoints

LEMMA Ways ==
    /\ Way("parseOverClause", 2, "parseOverClause.Order")
    /\ Way("parseOverClause.Partition", 1, "parseOverClause.Order")
    /\ Way("parseOverClause.Order", 0, "parseOverClause.Frame")
    /\ \A k \in 0..1 : Way("parseOverClause.Ordered", k, "parseOverClause.Frame")
    /\ Way("parseOverClause.Frame", 0, "parseOverClause.Close")
    /\ Way("parseOverClause.Framed", 0, "parseOverClause.Close")
    /\ Way("parseCallExpression.Arguments", 0, "parseCallExpression.Over")
    /\ Way("parseCallExpression.WithinGroup", 1, "parseCallExpression.Over")
    /\ Way("parseCaseExpression", 1, "parseCaseExpression.When")
    /\ Way("parseCaseExpression.Operand", 1, "parseCaseExpression.When")
    /\ Way("parseCaseExpression.Result", 1, "parseCaseExpression.When")
    /\ Way("parseCaseExpression.Else", 1, "parseCaseExpression.End")
BY DEF Way, Functions, Labels, AwaitsResult, InfixFns, Slack, IsLoose, OperationPoints, OneOperand, Exprs

LEMMA PlainKindsKnown ==
    /\ "Case" \in PlainKinds /\ "Exists" \in PlainKinds /\ "FrameBound" \in PlainKinds
    /\ "FunctionCall" \in PlainKinds /\ "Identifier" \in PlainKinds /\ "List" \in PlainKinds
    /\ "Literal" \in PlainKinds /\ "MethodCall" \in PlainKinds /\ "OrderBy" \in PlainKinds
    /\ "Over" \in PlainKinds /\ "QualifiedIdentifier" \in PlainKinds /\ "Select" \in PlainKinds
    /\ "StaticMethodCall" \in PlainKinds /\ "Subquery" \in PlainKinds /\ "Tuple" \in PlainKinds
    /\ "Variable" \in PlainKinds /\ "WindowFrame" \in PlainKinds /\ "DataType" \in PlainKinds
    /\ "Conversion" \in PlainKinds /\ "Trim" \in PlainKinds
    /\ "CursorExpression" \in PlainKinds /\ "NextValueFor" \in PlainKinds
    /\ "FullText" \in PlainKinds
BY DEF PlainKinds, Kinds, Operations
-----------------------------------------------------------------------------
(* The functions, one after the other.                                     *)
LEMMA parseOrderByItemsMoves == IInv /\ parseOrderByItems => Move
<1> SUFFICES ASSUME IInv, parseOrderByItems PROVE Move
  OBVIOUS
<1>1. CASE At("parseOrderByItems")
  <2>1. Plain("parseOrderByItems.Item")
    BY DEF Plain, Exprs, OperationPoints, OneOperand, IsLoose
  <2> QED BY <1>1, <2>1, Standing, WindowLinks, PlainCallLowest
             DEF parseOrderByItems, At
<1>2. CASE At("parseOrderByItems.Item")
  <2>1. Kept(Got) /\ Plain("parseOrderByItems.Item") /\ ~ IsLoose("parseOrderByItems.Item")
    BY <1>2, Resumed DEF AwaitsResult, Plain, Exprs, OperationPoints, OneOperand, IsLoose
  <2>2. PICK k \in 0..1 :
           \/ CallExpression(k + 2, "parseOrderByItems.Item", Got, LOWEST)
           \/ ReturnNew("OrderBy", Top.at, Got, k)
    BY <1>2 DEF parseOrderByItems, At
  <2>3. k \in Nat /\ k + 2 \in Nat /\ k + 2 # 0 /\ k + 2 \in 2..3
    OBVIOUS
  <2>4. CASE CallExpression(k + 2, "parseOrderByItems.Item", Got, LOWEST)
    BY <1>2, <2>1, <2>3, <2>4, WindowLinks, PlainCallLowest
  <2>5. CASE ReturnNew("OrderBy", Top.at, Got, k)
    BY <1>2, <2>1, <2>3, <2>5, Standing, PlainReturn, PlainKindsKnown
  <2> QED BY <2>2, <2>4, <2>5
<1> QED BY <1>1, <1>2 DEF parseOrderByItems

LEMMA parseFrameBoundMoves == IInv /\ parseFrameBound => Move
<1> SUFFICES ASSUME IInv, parseFrameBound PROVE Move
  OBVIOUS
<1>1. CASE At("parseFrameBound")
  <2>1. Plain("parseFrameBound") /\ Plain("parseFrameBound.Offset") /\ ~
        IsLoose("parseFrameBound")
    BY DEF Plain, Exprs, OperationPoints, OneOperand, IsLoose
  <2>2. CASE ReturnNew("FrameBound", pos, <<>>, 1)
    BY <1>1, <2>1, <2>2, Standing, PlainReturn, PlainKindsKnown
  <2>3. CASE CallExpression(0, "parseFrameBound.Offset", <<>>, LOWEST)
    <3>1. Link("parseFrameBound", 0, "parseFrameBound.Offset", "parseExpression")
      BY WindowLinks
    <3> QED BY <1>1, <2>1, <2>3, Standing, <3>1, PlainCallLowest
  <2> QED BY <1>1, <2>2, <2>3 DEF parseFrameBound, At
<1>2. CASE At("parseFrameBound.Offset")
  <2>1. Kept(GotIfAny)
    BY <1>2, Resumed DEF AwaitsResult
  <2>2. Plain("parseFrameBound.Offset") /\ ~ IsLoose("parseFrameBound.Offset")
    BY DEF Plain, Exprs, OperationPoints, OneOperand, IsLoose
  <2> QED BY <1>2, <2>1, <2>2, Standing, PlainReturn, PlainKindsKnown
             DEF parseFrameBound, At
<1> QED BY <1>1, <1>2 DEF parseFrameBound

LEMMA parseWindowFrameMoves == IInv /\ parseWindowFrame => Move
<1> SUFFICES ASSUME IInv, parseWindowFrame PROVE Move
  OBVIOUS
<1>1. CASE At("parseWindowFrame")
  <2>1. Plain("parseWindowFrame.Start") /\ Plain("parseWindowFrame.End")
    BY DEF Plain, Exprs, OperationPoints, OneOperand, IsLoose
  <2>2. CASE Call(2, "parseWindowFrame.Start", <<>>, "parseFrameBound")
    <3>1. Link("parseWindowFrame", 2, "parseWindowFrame.Start", "parseFrameBound")
      BY WindowLinks
    <3> QED BY <1>1, <2>1, <2>2, Standing, <3>1, PlainCall
  <2>3. CASE Call(1, "parseWindowFrame.End", <<>>, "parseFrameBound")
    <3>1. Link("parseWindowFrame", 1, "parseWindowFrame.End", "parseFrameBound")
      BY WindowLinks
    <3> QED BY <1>1, <2>1, <2>3, Standing, <3>1, PlainCall
  <2> QED BY <1>1, <2>2, <2>3 DEF parseWindowFrame, At
<1>2. CASE At("parseWindowFrame.Start")
  <2>1. Kept(Got)
    BY <1>2, Resumed DEF AwaitsResult
  <2>2. Plain("parseWindowFrame.End") /\ Plain("parseWindowFrame.Start") /\ ~
        IsLoose("parseWindowFrame.Start")
    BY DEF Plain, Exprs, OperationPoints, OneOperand, IsLoose
  <2>3. CASE Call(2, "parseWindowFrame.End", Got, "parseFrameBound")
    <3>1. Link("parseWindowFrame.Start", 2, "parseWindowFrame.End", "parseFrameBound")
      BY WindowLinks
    <3> QED BY <1>2, <2>1, <2>2, <2>3, <3>1, PlainCall
  <2>4. CASE ReturnFlawed("WindowFrame", Top.at, Got, 0, 1)
    BY <1>2, <2>1, <2>2, <2>4, Standing, PlainFlawed, PlainKindsKnown
  <2> QED BY <1>2, <2>3, <2>4 DEF parseWindowFrame, At
<1>3. CASE At("parseWindowFrame.End")
  <2>1. Kept(Got)
    BY <1>3, Resumed DEF AwaitsResult
  <2>2. Plain("parseWindowFrame.End") /\ ~ IsLoose("parseWindowFrame.End")
    BY DEF Plain, Exprs, OperationPoints, OneOperand, IsLoose
  <2> QED BY <1>3, <2>1, <2>2, Standing, PlainReturn, PlainKindsKnown
             DEF parseWindowFrame, At
<1> QED BY <1>1, <1>2, <1>3 DEF parseWindowFrame

LEMMA parseOverClauseMoves == IInv /\ parseOverClause => Move
<1> SUFFICES ASSUME IInv, parseOverClause PROVE Move
  OBVIOUS
<1>1. CASE At("parseOverClause")
  <2>1. Plain("parseOverClause") /\ Plain("parseOverClause.Partition") /\ ~
        IsLoose("parseOverClause")
    BY DEF Plain, Exprs, OperationPoints, OneOperand, IsLoose
  <2>2. CASE ReturnNew("Over", Top.at, <<>>, 1)
    BY <1>1, <2>1, <2>2, Standing, PlainReturn, PlainKindsKnown
  <2>3. CASE CallExpression(4, "parseOverClause.Partition", <<>>, LOWEST)
    <3>1. Link("parseOverClause", 4, "parseOverClause.Partition", "parseExpression")
      BY WindowLinks
    <3> QED BY <1>1, <2>1, <2>3, Standing, <3>1, PlainCallLowest
  <2>4. CASE Continue(2, "parseOverClause.Order", <<>>)
    BY <1>1, <2>1, <2>4, Standing, Ways, ContinueMoves
  <2>5. CASE Fail(3, 2) \/ Fail(1, 0)
    BY <1>1, <2>1, <2>5, Standing, FailMoves
  <2> QED BY <1>1, <2>2, <2>3, <2>4, <2>5 DEF parseOverClause, At, OverClose
<1>2. CASE At("parseOverClause.Partition")
  <2>1. Kept(Got)
    BY <1>2, Resumed DEF AwaitsResult
  <2>2. Plain("parseOverClause.Partition") /\ ~ IsLoose("parseOverClause.Partition")
    BY DEF Plain, Exprs, OperationPoints, OneOperand, IsLoose
  <2>3. CASE CallExpression(2, "parseOverClause.Partition", Got, LOWEST)
    <3>1. Link("parseOverClause.Partition", 2, "parseOverClause.Partition", "parseExpression")
      BY WindowLinks
    <3> QED BY <1>2, <2>1, <2>2, <2>3, <3>1, PlainCallLowest
  <2>4. CASE Continue(1, "parseOverClause.Order", Got)
    BY <1>2, <2>1, <2>2, <2>4, Standing, Ways, ContinueMoves
  <2> QED BY <1>2, <2>3, <2>4 DEF parseOverClause, At, OverClose
<1>3. CASE At("parseOverClause.Order")
  <2>1. Plain("parseOverClause.Ordered")
    BY DEF Plain, Exprs, OperationPoints, OneOperand, IsLoose
  <2>2. CASE Continue(0, "parseOverClause.Frame", Top.kids)
    BY <1>3, <2>1, <2>2, Standing, Ways, ContinueMoves
  <2>3. CASE Call(2, "parseOverClause.Ordered", Top.kids, "parseOrderByItems")
    <3>1. Link("parseOverClause.Order", 2, "parseOverClause.Ordered", "parseOrderByItems")
      BY WindowLinks
    <3> QED BY <1>3, <2>1, <2>3, Standing, <3>1, PlainCall
  <2>4. CASE Fail(1, 0)
    BY <1>3, <2>1, <2>4, Standing, FailMoves
  <2> QED BY <1>3, <2>2, <2>3, <2>4 DEF parseOverClause, At, OverClose
<1>4. CASE At("parseOverClause.Ordered")
  <2>1. PICK k \in 0..1 : Continue(k, "parseOverClause.Frame", Got)
    BY <1>4 DEF parseOverClause, OverClose, At
  <2>2. k \in Nat /\ Kept(Got)
    BY <1>4, Resumed DEF AwaitsResult
  <2> QED BY <1>4, <2>1, <2>2, ContinueMoves, Ways
<1>5. CASE At("parseOverClause.Frame")
  <2>1. CASE Cur \in FrameWords
    <3>1. Call(0, "parseOverClause.Framed", Top.kids, "parseWindowFrame")
      BY <1>5, <2>1 DEF parseOverClause, OverClose, At, FrameWords
    <3>2. Hands(0, "parseOverClause.Framed", Top.kids)
      BY <1>5, <2>1, Standing DEF Hands, Exprs, OperationPoints, OneOperand
    <3> QED BY <1>5, <3>1, <3>2, WindowLinks, CallMoves
  <2>2. CASE Cur \notin FrameWords
    BY <1>5, <2>2, Standing, ContinueMoves, Ways DEF parseOverClause, OverClose, At, FrameWords
  <2> QED BY <2>1, <2>2
<1>6. CASE At("parseOverClause.Framed")
  <2>1. Kept(Got)
    BY <1>6, Resumed DEF AwaitsResult
  <2> QED BY <1>6, <2>1, Standing, Ways, ContinueMoves
             DEF parseOverClause, At, OverClose
<1>7. CASE OverClose
  <2>1. At("parseOverClause.Close") /\ Plain("parseOverClause.Close")
    BY <1>7 DEF OverClose, Plain, Exprs, OperationPoints, OneOperand
  <2>2. CASE Fail(1, 0)
    BY <2>1, <2>2, Standing, FailMoves
  <2>3. ASSUME NEW k \in 1..2, ReturnPassing("Over", Top.at, Top.kids, k) PROVE Move
    <3>1. Builds("Over", Top.at, Top.kids, k)
      BY <2>1, Standing, PlainBuilds, PlainKindsKnown
    <3>2. BuildMove("Over", Top.at, Top.kids, pos + k - 1, k)
      BY <2>3, <3>1 DEF BuildMove, ReturnPassing
    <3>3. pos + k - 1 \in Nat /\ k \in Nat /\ "Over" \in Kinds
      BY <2>1, Standing DEF Kinds
    <3> QED BY <2>1, <3>2, <3>3, Standing DEF Move
  <2> QED BY <1>7, <2>2, <2>3 DEF OverClose
<1> QED BY <1>1, <1>2, <1>3, <1>4, <1>5, <1>6, <1>7 DEF parseOverClause

(* Where parseExpression hands over to a prefix function.                  *)
LEMMA PrefixLinks ==
    ASSUME NEW t, PrefixFn(t) # "nil"
    PROVE  Link("parseExpression", 0, "parseExpression.Left", PrefixFn(t)) /\ PrefixFn(t) # "parseExpression"
BY DEF PrefixFn, Link, AwaitsResult, Functions, Labels, InfixFns, Slack, IsLoose, WantPoints,
       Exprs, OperationPoints, OneOperand, AtPoints

LEMMA Unknown ==
    ASSUME NEW t, InfixFn(t) = "nil" \/ t = "SEMICOLON"
    PROVE  Precedence(t) = LOWEST
BY DEF InfixFn, Precedence

LEMMA PrecedenceBound == \A t : Precedence(t) >= LOWEST
BY DEF Precedence, LOWEST, OR_PREC, AND_PREC, COMPARE, BETWEEN_PREC, BITOR, BITXOR,
       BITAND, SHIFT, SUM, PRODUCT, CALL, INDEX

LEMMA parseExpressionMoves == IInv /\ parseExpression => Move
<1> SUFFICES ASSUME IInv, parseExpression PROVE Move
  OBVIOUS
<1>1. CASE At("parseExpression")
  <2>1. Hands(0, "parseExpression.Left", <<>>)
    BY DEF Hands, Kept, Exprs, OperationPoints, OneOperand
  <2>2. CASE PrefixFn(Cur) # "nil" /\ Call(0, "parseExpression.Left", <<>>, PrefixFn(Cur))
    BY <1>1, <2>1, <2>2, PrefixLinks, CallMoves
  <2>3. CASE Fail(0, 0)
    BY <1>1, <2>3, Standing, FailMoves
  <2> QED BY <1>1, <2>2, <2>3 DEF parseExpression, At
<1>2. CASE At("parseExpression.Left")
  <2>1. InfixMove \/ LeftMove
    <3>1. CASE Peek # "SEMICOLON" /\ Top.prec < Precedence(Peek) /\ InfixFn(Peek) # "nil"
      BY <1>2, <3>1 DEF parseExpression, At, InfixMove
    <3>2. CASE ~ (Peek # "SEMICOLON" /\ Top.prec < Precedence(Peek) /\ InfixFn(Peek) # "nil")
      <4>1. Top.prec >= Precedence(Peek) \/ Precedence(Peek) = LOWEST
        BY <1>2, <3>2, Standing, Unknown, PrecedenceType
      <4>2. Return(ret)
        BY <1>2, <3>2 DEF parseExpression, At
      <4> QED BY <1>2, <4>1, <4>2 DEF LeftMove
    <3> QED BY <3>1, <3>2
  <2> QED BY <1>2, <2>1 DEF Move, At
<1> QED BY <1>1, <1>2 DEF parseExpression

LEMMA parseLeafMoves == IInv /\ parseLeaf => Move
<1> SUFFICES ASSUME IInv, NEW fn \in DOMAIN LeafKind, At(fn),
                    ReturnNew(LeafKind[fn], pos, <<>>, 0)
             PROVE  Move
  BY DEF parseLeaf
<1>1. Plain(fn) /\ ~ IsLoose(fn) /\ LeafKind[fn] \in PlainKinds
  BY PlainKindsKnown DEF LeafKind, Plain, Exprs, OperationPoints, OneOperand, IsLoose
<1> QED BY <1>1, Standing, PlainReturn

LEMMA parseFloatLiteralMoves == IInv /\ parseFloatLiteral => Move
BY Standing, FailMoves DEF parseFloatLiteral

LEMMA parsePrefixExpressionMoves == IInv /\ parsePrefixExpression => Move
<1> SUFFICES ASSUME IInv, parsePrefixExpression PROVE Move
  OBVIOUS
<1>1. CASE At("parsePrefixExpression")
  <2>1. Hands(1, "parsePrefixExpression.Right", <<>>)
    BY <1>1, Standing DEF Hands, Exprs, OperationPoints, OneOperand
  <2>2. PREFIX = Wanted("parsePrefixExpression.Right", Precedence(Cur)) /\ PREFIX \in Nat /\ PREFIX >= LOWEST
    BY DEF Wanted, PREFIX, LOWEST
  <2>3. CallExpression(1, "parsePrefixExpression.Right", <<>>, PREFIX)
    BY <1>1 DEF parsePrefixExpression, At
  <2> QED BY <1>1, <2>1, <2>2, <2>3, OperatorLinks, CallExpressionMoves
<1>2. CASE At("parsePrefixExpression.Right")
  <2>1. Kept(Got)
    BY <1>2, Resumed DEF AwaitsResult
  <2>2. Builds("Prefix", Top.at, Got, 0)
    BY <1>2, <2>1 DEF Builds, At, Kinds, Operations, Exprs, OperationPoints, OneOperand, IsLoose
  <2> QED BY <1>2, <2>2, Standing, ReturnMoves DEF parsePrefixExpression, At
<1> QED BY <1>1, <1>2 DEF parsePrefixExpression

LEMMA parseInfixExpressionMoves == IInv /\ parseInfixExpression => Move
<1> SUFFICES ASSUME IInv, parseInfixExpression PROVE Move
  OBVIOUS
<1>1. CASE At("parseInfixExpression")
  <2>1. Hands(1, "parseInfixExpression.Right", Top.kids)
    BY <1>1, Standing DEF Hands, Exprs, OperationPoints, OneOperand
  <2>2. Precedence(Cur) = Wanted("parseInfixExpression.Right", Precedence(Cur))
    BY DEF Wanted, Cur
  <2>3. Precedence(Cur) \in Nat /\ Precedence(Cur) >= LOWEST
    BY PrecedenceType, PrecedenceBound
  <2>4. CallExpression(1, "parseInfixExpression.Right", Top.kids, Precedence(Cur))
    BY <1>1 DEF parseInfixExpression, At
  <2> QED BY <1>1, <2>1, <2>2, <2>3, <2>4, OperatorLinks, CallExpressionMoves
<1>2. CASE At("parseInfixExpression.Right")
  <2>1. Kept(Got)
    BY <1>2, Resumed DEF AwaitsResult
  <2>2. Builds("Infix", Top.at, Got, 0)
    BY <1>2, <2>1 DEF Builds, At, Kinds, Operations, Exprs, OperationPoints, OneOperand, IsLoose
  <2> QED BY <1>2, <2>2, Standing, ReturnMoves DEF parseInfixExpression, At
<1> QED BY <1>1, <1>2 DEF parseInfixExpression

LEMMA parseGroupedExpressionMoves == IInv /\ parseGroupedExpression => Move
<1> SUFFICES ASSUME IInv, parseGroupedExpression PROVE Move
  OBVIOUS
<1>1. CASE At("parseGroupedExpression")
  <2>1. Plain("parseGroupedExpression") /\ Plain("parseGroupedExpression.Subquery") /\
        Plain("parseGroupedExpression.Exp") /\ ~ IsLoose("parseGroupedExpression")
    BY DEF Plain, Exprs, OperationPoints, OneOperand, IsLoose
  <2>2. CASE ReturnNew("Tuple", pos, <<>>, 1)
    BY <1>1, <2>1, <2>2, Standing, PlainReturn, PlainKindsKnown
  <2>3. CASE Call(1, "parseGroupedExpression.Subquery", <<>>, "parseSelectStatement")
    <3>1. Link("parseGroupedExpression", 1, "parseGroupedExpression.Subquery", "parseSelectStatement")
      BY CallingLinks
    <3> QED BY <1>1, <2>1, <2>3, Standing, <3>1, PlainCall
  <2>4. CASE CallExpression(1, "parseGroupedExpression.Exp", <<>>, LOWEST)
    <3>1. Link("parseGroupedExpression", 1, "parseGroupedExpression.Exp", "parseExpression")
      BY CallingLinks
    <3> QED BY <1>1, <2>1, <2>4, Standing, <3>1, PlainCallLowest
  <2> QED BY <1>1, <2>2, <2>3, <2>4 DEF parseGroupedExpression, At
<1>2. CASE At("parseGroupedExpression.Subquery")
  <2>1. Kept(Got) /\ pos + 1 \in Nat
    BY <1>2, Standing, Resumed DEF AwaitsResult
  <2>2. Plain("parseGroupedExpression.Subquery") /\ ~ IsLoose("parseGroupedExpression.Subquery")
    BY DEF Plain, Exprs, OperationPoints, OneOperand, IsLoose
  <2>3. CASE ReturnNew("Subquery", pos + 1, Got, 1)
    BY <1>2, <2>1, <2>2, <2>3, PlainReturn, PlainKindsKnown
  <2>4. CASE Fail(1, 0)
    BY <1>2, <2>4, Standing, FailMoves
  <2> QED BY <1>2, <2>3, <2>4 DEF parseGroupedExpression, At
<1>3. CASE At("parseGroupedExpression.Exp")
  <2>1. ParenMove \/ Fail(1, 0)
    BY <1>3 DEF parseGroupedExpression, At, ParenMove
  <2> QED BY <1>3, <2>1, Standing, FailMoves DEF Move
<1> QED BY <1>1, <1>2, <1>3 DEF parseGroupedExpression

LEMMA parseDotExpressionMoves == IInv /\ parseDotExpression => Move
<1> SUFFICES ASSUME IInv, parseDotExpression PROVE Move
  OBVIOUS
<1>1. CASE At("parseDotExpression")
  <2>1. Plain("parseDotExpression.Arguments") /\ Plain("parseDotExpression")
        /\ ~ IsLoose("parseDotExpression") /\ pos + 1 \in Nat
    BY <1>1, Standing DEF Plain, Exprs, OperationPoints, OneOperand, IsLoose
  <2>2. CASE Call(2, "parseDotExpression.Arguments", Top.kids, "parseExpressionList")
    BY <1>1, <2>1, <2>2, Standing, CallingLinks, PlainCall
  <2>3. ASSUME NEW kids \in {Top.kids, <<>>}, ReturnNew("QualifiedIdentifier", pos + 1, kids, 1)
        PROVE  Move
    BY <1>1, <2>1, <2>3, Standing, PlainReturn, PlainKindsKnown
  <2> QED BY <1>1, <2>2, <2>3 DEF parseDotExpression, At
<1>2. CASE At("parseDotExpression.Arguments")
  <2>1. Kept(GotIfAny)
    BY <1>2, Resumed DEF AwaitsResult
  <2>2. Plain("parseDotExpression.Arguments") /\ ~
        IsLoose("parseDotExpression.Arguments")
    BY DEF Plain, Exprs, OperationPoints, OneOperand, IsLoose
  <2> QED BY <1>2, <2>1, <2>2, Standing, PlainReturn, PlainKindsKnown
             DEF parseDotExpression, At
<1> QED BY <1>1, <1>2 DEF parseDotExpression

LEMMA parseScopeExpressionMoves == IInv /\ parseScopeExpression => Move
<1> SUFFICES ASSUME IInv, parseScopeExpression PROVE Move
  OBVIOUS
<1>1. CASE At("parseScopeExpression")
  <2>1. Plain("parseScopeExpression.Arguments") /\ Plain("parseScopeExpression")
        /\ ~ IsLoose("parseScopeExpression")
    BY DEF Plain, Exprs, OperationPoints, OneOperand, IsLoose
  <2>2. CASE Call(2, "parseScopeExpression.Arguments", Top.kids, "parseExpressionList")
    BY <1>1, <2>1, <2>2, Standing, CallingLinks, PlainCall
  <2>3. CASE ReturnNew("StaticMethodCall", Top.at, Top.kids, 1)
    BY <1>1, <2>1, <2>3, Standing, PlainReturn, PlainKindsKnown
  <2>4. CASE ~ Whole(Top.kids) /\ Panic
    <3>1. errors # <<>> \/ SelectBroke
      BY <1>1, <2>4, Here, WholeOK DEF IInv
    <3> QED BY <1>1, <2>4, <3>1, Standing DEF Move, PanicMove
  <2> QED BY <1>1, <2>2, <2>3, <2>4 DEF parseScopeExpression, At
<1>2. CASE At("parseScopeExpression.Arguments")
  <2>1. Kept(GotIfAny)
    BY <1>2, Resumed DEF AwaitsResult
  <2>2. Plain("parseScopeExpression.Arguments") /\ ~
        IsLoose("parseScopeExpression.Arguments")
    BY DEF Plain, Exprs, OperationPoints, OneOperand, IsLoose
  <2> QED BY <1>2, <2>1, <2>2, Standing, PlainReturn, PlainKindsKnown
             DEF parseScopeExpression, At
<1> QED BY <1>1, <1>2 DEF parseScopeExpression

LEMMA parseCallExpressionMoves == IInv /\ parseCallExpression => Move
<1> SUFFICES ASSUME IInv, parseCallExpression PROVE Move
  OBVIOUS
<1>1. CASE At("parseCallExpression")
  <2>1. PICK k \in 0..1 : Call(k, "parseCallExpression.Arguments", Top.kids, "parseExpressionList")
    BY <1>1 DEF parseCallExpression, At
  <2>2. k \in Nat /\ Hands(k, "parseCallExpression.Arguments", Top.kids)
    BY <1>1, Standing DEF Hands, Exprs, OperationPoints, OneOperand
  <2> QED BY <1>1, <2>1, <2>2, CallingLinks, CallMoves
<1>2. CASE At("parseCallExpression.Arguments")
  <2>1. Kept(GotIfAny)
    BY <1>2, Resumed DEF AwaitsResult
  <2>2. Plain("parseCallExpression.WithinGroup")
    BY DEF Plain, Exprs, OperationPoints, OneOperand
  <2>3. CASE Continue(0, "parseCallExpression.Over", GotIfAny)
    BY <1>2, <2>1, <2>3, ContinueMoves, Ways
  <2>4. CASE Call(6, "parseCallExpression.WithinGroup", GotIfAny, "parseOrderByItems")
    BY <1>2, <2>1, <2>2, <2>4, CallingLinks, PlainCall
  <2>5. CASE /\ ~ \A j \in 2..5 : Tok(pos + j) = WithinGroup[j]
             /\ Fail(FirstMissing, FirstMissing - 1)
    BY <1>2, <2>5, Standing, FirstMissingOK, FailMoves
  <2> QED BY <1>2, <2>3, <2>4, <2>5 DEF parseCallExpression, At
<1>3. CASE At("parseCallExpression.WithinGroup")
  <2>1. Kept(Got)
    BY <1>3, Resumed DEF AwaitsResult
  <2>2. CASE Continue(1, "parseCallExpression.Over", Got)
    BY <1>3, <2>1, <2>2, Standing, Ways, ContinueMoves
  <2>3. CASE Fail(1, 0)
    BY <1>3, <2>1, <2>3, Standing, FailMoves
  <2> QED BY <1>3, <2>2, <2>3 DEF parseCallExpression, At
<1>4. CASE At("parseCallExpression.Over")
  <2>1. Plain("parseCallExpression.Clause") /\ Plain("parseCallExpression.Over") /\ ~
        IsLoose("parseCallExpression.Over")
    BY DEF Plain, Exprs, OperationPoints, OneOperand, IsLoose
  <2>2. CASE Call(1, "parseCallExpression.Clause", Top.kids, "parseOverClause")
    <3>1. Link("parseCallExpression.Over", 1, "parseCallExpression.Clause", "parseOverClause")
      BY CallingLinks
    <3> QED BY <1>4, <2>1, <2>2, Standing, <3>1, PlainCall
  <2>3. CASE ReturnNew("FunctionCall", Top.at, Top.kids, 0)
    BY <1>4, <2>1, <2>3, Standing, PlainReturn, PlainKindsKnown
  <2> QED BY <1>4, <2>2, <2>3 DEF parseCallExpression, At
<1>5. CASE At("parseCallExpression.Clause")
  <2>1. Kept(GotIfAny)
    BY <1>5, Resumed DEF AwaitsResult
  <2>2. Plain("parseCallExpression.Clause") /\ ~ IsLoose("parseCallExpression.Clause")
    BY DEF Plain, Exprs, OperationPoints, OneOperand, IsLoose
  <2> QED BY <1>5, <2>1, <2>2, Standing, PlainReturn, PlainKindsKnown
             DEF parseCallExpression, At
<1> QED BY <1>1, <1>2, <1>3, <1>4, <1>5 DEF parseCallExpression

LEMMA parseExpressionListMoves == IInv /\ parseExpressionList => Move
<1> SUFFICES ASSUME IInv, parseExpressionList PROVE Move
  OBVIOUS
<1>1. CASE At("parseExpressionList")
  <2>1. Plain("parseExpressionList") /\ Plain("parseExpressionList.Key") /\ ~
        IsLoose("parseExpressionList")
    BY DEF Plain, Exprs, OperationPoints, OneOperand, IsLoose
  <2>2. CASE ReturnNew("List", Top.at, <<>>, 1)
    BY <1>1, <2>1, <2>2, Standing, PlainReturn, PlainKindsKnown
  <2>3. CASE CallExpression(1, "parseExpressionList.Key", <<>>, LOWEST)
    <3>1. Link("parseExpressionList", 1, "parseExpressionList.Key", "parseExpression")
      BY CallingLinks
    <3> QED BY <1>1, <2>1, <2>3, Standing, <3>1, PlainCallLowest
  <2>4. CASE CallExpression(2, "parseExpressionList.Key", <<>>, LOWEST)
    <3>1. Link("parseExpressionList", 2, "parseExpressionList.Key", "parseExpression")
      BY CallingLinks
    <3> QED BY <1>1, <2>1, <2>4, Standing, <3>1, PlainCallLowest
  <2> QED BY <1>1, <2>2, <2>3, <2>4 DEF parseExpressionList, At
<1>2. CASE At("parseExpressionList.Key")
  <2>1. Kept(Got)
    BY <1>2, Resumed DEF AwaitsResult
  <2>2. Plain("parseExpressionList.Value") /\ Plain("parseExpressionList.Key") /\ ~
        IsLoose("parseExpressionList.Key")
    BY DEF Plain, Exprs, OperationPoints, OneOperand, IsLoose
  <2>3. CASE CallExpression(2, "parseExpressionList.Value", Got, LOWEST)
    <3>1. Link("parseExpressionList.Key", 2, "parseExpressionList.Value", "parseExpression")
      BY CallingLinks
    <3> QED BY <1>2, <2>1, <2>2, <2>3, <3>1, PlainCallLowest
  <2>4. CASE CallExpression(2, "parseExpressionList.Key", Got, LOWEST)
    <3>1. Link("parseExpressionList.Key", 2, "parseExpressionList.Key", "parseExpression")
      BY CallingLinks
    <3> QED BY <1>2, <2>1, <2>2, <2>4, <3>1, PlainCallLowest
  <2>5. CASE ReturnNew("List", Top.at, Got, 1)
    BY <1>2, <2>1, <2>2, <2>5, Standing, PlainReturn, PlainKindsKnown
  <2>6. CASE Fail(1, 0)
    BY <1>2, <2>1, <2>2, <2>6, Standing, FailMoves
  <2> QED BY <1>2, <2>3, <2>4, <2>5, <2>6 DEF parseExpressionList, At
<1>3. CASE At("parseExpressionList.Value")
  <2>1. Kept(Got)
    BY <1>3, Resumed DEF AwaitsResult
  <2>2. Plain("parseExpressionList.Key") /\ Plain("parseExpressionList.Value") /\ ~
        IsLoose("parseExpressionList.Value")
    BY DEF Plain, Exprs, OperationPoints, OneOperand, IsLoose
  <2>3. CASE CallExpression(2, "parseExpressionList.Key", Got, LOWEST)
    <3>1. Link("parseExpressionList.Value", 2, "parseExpressionList.Key", "parseExpression")
      BY CallingLinks
    <3> QED BY <1>3, <2>1, <2>2, <2>3, <3>1, PlainCallLowest
  <2>4. CASE ReturnNew("List", Top.at, Got, 1)
    BY <1>3, <2>1, <2>2, <2>4, Standing, PlainReturn, PlainKindsKnown
  <2>5. CASE Fail(1, 0)
    BY <1>3, <2>1, <2>2, <2>5, Standing, FailMoves
  <2> QED BY <1>3, <2>3, <2>4, <2>5 DEF parseExpressionList, At
<1> QED BY <1>1, <1>2, <1>3 DEF parseExpressionList

LEMMA parseFunctionLiteralMoves == IInv /\ parseFunctionLiteral => Move
<1> SUFFICES ASSUME IInv, parseFunctionLiteral PROVE Move
  OBVIOUS
<1>1. CASE ReturnNew("Identifier", pos, <<>>, 0)
  <2>1. Plain("parseFunctionLiteral") /\ ~ IsLoose("parseFunctionLiteral")
    BY DEF Plain, Exprs, OperationPoints, OneOperand, IsLoose
  <2>2. At("parseFunctionLiteral")
    BY DEF parseFunctionLiteral
  <2> QED BY <1>1, <2>1, <2>2, Standing, PlainReturn, PlainKindsKnown
<1>2. CASE NameMove
  BY <1>2 DEF Move, NameMove, At
<1> QED BY <1>1, <1>2 DEF parseFunctionLiteral, NameMove

LEMMA CaseEndMoves == IInv /\ CaseEnd => Move
<1> SUFFICES ASSUME IInv, CaseEnd PROVE Move
  OBVIOUS
<1>1. PICK pc \in {"parseCaseExpression.End", "parseCaseExpression.When"} : At(pc)
  BY DEF CaseEnd
<1>2. Plain(pc) /\ ~ IsLoose(pc)
  BY DEF Plain, Exprs, OperationPoints, OneOperand, IsLoose
<1>3. CASE ReturnNew("Case", Top.at, Top.kids, 0)
  BY <1>1, <1>2, <1>3, Standing, PlainReturn, PlainKindsKnown
<1>4. CASE Fail(0, 0)
  BY <1>1, <1>4, Standing, FailMoves
<1> QED BY <1>3, <1>4 DEF CaseEnd

LEMMA parseCaseExpressionMoves == IInv /\ parseCaseExpression => Move
<1> SUFFICES ASSUME IInv, parseCaseExpression PROVE Move
  OBVIOUS
<1>1. CASE At("parseCaseExpression")
  <2>1. Plain("parseCaseExpression.Operand")
    BY DEF Plain, Exprs, OperationPoints, OneOperand, IsLoose
  <2>2. CASE Continue(1, "parseCaseExpression.When", <<>>)
    BY <1>1, <2>1, <2>2, Standing, Ways, ContinueMoves
  <2>3. CASE CallExpression(1, "parseCaseExpression.Operand", <<>>, LOWEST)
    <3>1. Link("parseCaseExpression", 1, "parseCaseExpression.Operand", "parseExpression")
      BY CallingLinks
    <3> QED BY <1>1, <2>1, <2>3, Standing, <3>1, PlainCallLowest
  <2> QED BY <1>1, <2>2, <2>3 DEF parseCaseExpression, At, CaseEnd
<1>2. CASE At("parseCaseExpression.Operand")
  <2>1. Kept(GotIfAny)
    BY <1>2, Resumed DEF AwaitsResult
  <2> QED BY <1>2, <2>1, Standing, Ways, ContinueMoves
             DEF parseCaseExpression, At, CaseEnd
<1>3. CASE At("parseCaseExpression.When")
  <2>1. Plain("parseCaseExpression.Condition") /\ Plain("parseCaseExpression.Else")
    BY DEF Plain, Exprs, OperationPoints, OneOperand
  <2>2. CASE CallExpression(1, "parseCaseExpression.Condition", Top.kids, LOWEST)
    BY <1>3, <2>1, <2>2, Standing, CallingLinks, PlainCallLowest
  <2>3. CASE CallExpression(1, "parseCaseExpression.Else", Top.kids, LOWEST)
    BY <1>3, <2>1, <2>3, Standing, CallingLinks, PlainCallLowest
  <2> QED BY <1>3, <2>2, <2>3, CaseEndMoves DEF parseCaseExpression, At
<1>4. CASE At("parseCaseExpression.Condition")
  <2>1. Kept(Got)
    BY <1>4, Resumed DEF AwaitsResult
  <2>2. Plain("parseCaseExpression.Result")
    BY DEF Plain, Exprs, OperationPoints, OneOperand, IsLoose
  <2>3. CASE CallExpression(2, "parseCaseExpression.Result", Got, LOWEST)
    <3>1. Link("parseCaseExpression.Condition", 2, "parseCaseExpression.Result", "parseExpression")
      BY CallingLinks
    <3> QED BY <1>4, <2>1, <2>2, <2>3, <3>1, PlainCallLowest
  <2>4. CASE Fail(1, 0)
    BY <1>4, <2>1, <2>2, <2>4, Standing, FailMoves
  <2> QED BY <1>4, <2>3, <2>4 DEF parseCaseExpression, At, CaseEnd
<1>5. CASE At("parseCaseExpression.Result")
  <2>1. Kept(Got)
    BY <1>5, Resumed DEF AwaitsResult
  <2> QED BY <1>5, <2>1, Standing, Ways, ContinueMoves
             DEF parseCaseExpression, At, CaseEnd
<1>6. CASE At("parseCaseExpression.Else")
  <2>1. Kept(GotIfAny)
    BY <1>6, Resumed DEF AwaitsResult
  <2> QED BY <1>6, <2>1, Standing, Ways, ContinueMoves
             DEF parseCaseExpression, At, CaseEnd
<1>7. CASE CaseEnd
  BY <1>7, CaseEndMoves
<1> QED BY <1>1, <1>2, <1>3, <1>4, <1>5, <1>6, <1>7 DEF parseCaseExpression

LEMMA parseExistsExpressionMoves == IInv /\ parseExistsExpression => Move
<1> SUFFICES ASSUME IInv, parseExistsExpression PROVE Move
  OBVIOUS
<1>1. CASE At("parseExistsExpression")
  <2>1. Plain("parseExistsExpression.Subquery")
    BY DEF Plain, Exprs, OperationPoints, OneOperand, IsLoose
  <2>2. CASE Call(2, "parseExistsExpression.Subquery", <<>>, "parseSelectStatement")
    <3>1. Link("parseExistsExpression", 2, "parseExistsExpression.Subquery", "parseSelectStatement")
      BY CallingLinks
    <3> QED BY <1>1, <2>1, <2>2, Standing, <3>1, PlainCall
  <2>3. CASE Fail(1, 0)
    BY <1>1, <2>1, <2>3, Standing, FailMoves
  <2> QED BY <1>1, <2>2, <2>3 DEF parseExistsExpression, At
<1>2. CASE At("parseExistsExpression.Subquery")
  <2>1. Kept(Got)
    BY <1>2, Resumed DEF AwaitsResult
  <2>2. Plain("parseExistsExpression.Subquery") /\ ~
        IsLoose("parseExistsExpression.Subquery")
    BY DEF Plain, Exprs, OperationPoints, OneOperand, IsLoose
  <2>3. CASE ReturnNew("Exists", Top.at, Got, 1)
    BY <1>2, <2>1, <2>2, <2>3, Standing, PlainReturn, PlainKindsKnown
  <2>4. CASE Fail(1, 0)
    BY <1>2, <2>1, <2>2, <2>4, Standing, FailMoves
  <2> QED BY <1>2, <2>3, <2>4 DEF parseExistsExpression, At
<1> QED BY <1>1, <1>2 DEF parseExistsExpression

LEMMA parseAllExpressionMoves == IInv /\ parseAllExpression => Move
<1> SUFFICES ASSUME IInv, parseAllExpression PROVE Move
  OBVIOUS
<1>1. CASE At("parseAllExpression")
  <2>1. Plain("parseAllExpression.Subquery")
    BY DEF Plain, Exprs, OperationPoints, OneOperand, IsLoose
  <2>2. CASE Call(2, "parseAllExpression.Subquery", <<>>, "parseSelectStatement")
    <3>1. Link("parseAllExpression", 2, "parseAllExpression.Subquery", "parseSelectStatement")
      BY CallingLinks
    <3> QED BY <1>1, <2>1, <2>2, Standing, <3>1, PlainCall
  <2>3. CASE Fail(1, 0)
    BY <1>1, <2>1, <2>3, Standing, FailMoves
  <2> QED BY <1>1, <2>2, <2>3 DEF parseAllExpression, At
<1>2. CASE At("parseAllExpression.Subquery")
  <2>1. Kept(Got)
    BY <1>2, Resumed DEF AwaitsResult
  <2>2. Plain("parseAllExpression.Subquery") /\ ~
        IsLoose("parseAllExpression.Subquery")
    BY DEF Plain, Exprs, OperationPoints, OneOperand, IsLoose
  <2>3. CASE ReturnNew("FunctionCall", Top.at, Got, 1)
    BY <1>2, <2>1, <2>2, <2>3, Standing, PlainReturn, PlainKindsKnown
  <2>4. CASE Fail(1, 0)
    BY <1>2, <2>1, <2>2, <2>4, Standing, FailMoves
  <2> QED BY <1>2, <2>3, <2>4 DEF parseAllExpression, At
<1> QED BY <1>1, <1>2 DEF parseAllExpression

LEMMA parseSubqueryExpressionMoves == IInv /\ parseSubqueryExpression => Move
<1> SUFFICES ASSUME IInv, parseSubqueryExpression PROVE Move
  OBVIOUS
<1>1. CASE At("parseSubqueryExpression")
  <2>1. Plain("parseSubqueryExpression.Select")
    BY DEF Plain, Exprs, OperationPoints, OneOperand, IsLoose
  <2> QED BY <1>1, <2>1, Standing, CallingLinks, PlainCall
             DEF parseSubqueryExpression, At
<1>2. CASE At("parseSubqueryExpression.Select")
  <2>1. Kept(Got)
    BY <1>2, Resumed DEF AwaitsResult
  <2>2. Plain("parseSubqueryExpression.Select") /\ ~
        IsLoose("parseSubqueryExpression.Select")
    BY DEF Plain, Exprs, OperationPoints, OneOperand, IsLoose
  <2> QED BY <1>2, <2>1, <2>2, Standing, PlainReturn, PlainKindsKnown
             DEF parseSubqueryExpression, At
<1> QED BY <1>1, <1>2 DEF parseSubqueryExpression

LEMMA NestedSelectMoves == IInv /\ NestedSelect => Move
<1> SUFFICES ASSUME IInv, NestedSelect PROVE Move
  OBVIOUS
<1>1. At("parseSelectStatement")
  BY DEF NestedSelect
<1>2. PICK k \in 1..MaxSelect :
         \/ ReturnNew("Select", Top.at, <<>>, k)
         \/ ReturnNew("Select", Top.at, <<NIL>>, k)
         \/ ReturnFlawed("Select", Top.at, <<NIL>>, k, k)
         \/ Fail(k + 1, k)
         \/ SelectPanics(k)
  BY DEF NestedSelect
<1>3. k \in Nat /\ k + 1 \in Nat /\ Kept(<<NIL>>)
  BY SelectAssumption DEF Kept
<1>4. Plain("parseSelectStatement") /\ ~ IsLoose("parseSelectStatement")
  BY DEF Plain, Exprs, OperationPoints, OneOperand, IsLoose
<1>5. CASE ReturnNew("Select", Top.at, <<>>, k) \/ ReturnNew("Select", Top.at, <<NIL>>, k)
  BY <1>1, <1>3, <1>4, <1>5, Standing, PlainReturn, PlainKindsKnown
<1>6. CASE ReturnFlawed("Select", Top.at, <<NIL>>, k, k)
  BY <1>1, <1>3, <1>4, <1>6, Standing, PlainFlawed, PlainKindsKnown
<1>7. CASE Fail(k + 1, k)
  BY <1>1, <1>3, <1>7, Standing, FailMoves
<1>8. CASE SelectPanics(k)
  BY <1>1, <1>3, <1>8, Standing DEF Move, SelectMove
<1> QED BY <1>2, <1>5, <1>6, <1>7, <1>8

LEMMA parseLikeExpressionMoves == IInv /\ parseLikeExpression => Move
<1> SUFFICES ASSUME IInv, parseLikeExpression PROVE Move
  OBVIOUS
<1>1. CASE At("parseLikeExpression")
  <2>1. CASE CallExpression(1, "parseLikeExpression.Pattern", Top.kids, COMPARE)
    <3>1. Hands(1, "parseLikeExpression.Pattern", Top.kids)
      BY <1>1, Standing DEF Hands, Exprs, OperationPoints, OneOperand
    <3>2. COMPARE = Wanted("parseLikeExpression.Pattern", Precedence(Cur)) /\ COMPARE \in Nat /\ COMPARE >= LOWEST
      BY DEF Wanted, COMPARE, LOWEST
    <3> QED BY <1>1, <2>1, <3>1, <3>2, OperatorLinks, CallExpressionMoves
  <2> QED BY <1>1, <2>1 DEF parseLikeExpression, At
<1>2. CASE At("parseLikeExpression.Pattern")
  <2>1. Kept(Got)
    BY <1>2, Resumed DEF AwaitsResult
  <2>2. CASE CallExpression(2, "parseLikeExpression.Escape", Got, LOWEST)
    <3>1. Hands(2, "parseLikeExpression.Escape", Got)
      BY <1>2, <2>1, Standing DEF Hands, Exprs, OperationPoints, OneOperand
    <3>2. LOWEST = Wanted("parseLikeExpression.Escape", Precedence(Cur)) /\ LOWEST \in Nat /\ LOWEST >= LOWEST
      BY DEF Wanted, LOWEST
    <3> QED BY <1>2, <2>2, <3>1, <3>2, OperatorLinks, CallExpressionMoves
  <2>3. CASE ReturnNew("Like", Top.at, Got, 0)
    <3>1. Builds("Like", Top.at, Got, 0)
      BY <1>2, <2>1, Standing DEF Builds, At, Kinds, Operations, Exprs, OperationPoints, OneOperand, IsLoose
    <3> QED BY <1>2, <2>3, <3>1, Standing, ReturnMoves
  <2> QED BY <1>2, <2>2, <2>3 DEF parseLikeExpression, At
<1>3. CASE At("parseLikeExpression.Escape")
  <2>1. Kept(GotIfAny)
    BY <1>3, Resumed DEF AwaitsResult
  <2>2. CASE ReturnNew("Like", Top.at, GotIfAny, 0)
    <3>1. Builds("Like", Top.at, GotIfAny, 0)
      BY <1>3, <2>1, Standing DEF Builds, At, Kinds, Operations, Exprs, OperationPoints, OneOperand, IsLoose
    <3> QED BY <1>3, <2>2, <3>1, Standing, ReturnMoves
  <2> QED BY <1>3, <2>2 DEF parseLikeExpression, At
<1> QED BY <1>1, <1>2, <1>3 DEF parseLikeExpression

LEMMA parseCollateExpressionMoves == IInv /\ parseCollateExpression => Move
<1> SUFFICES ASSUME IInv, parseCollateExpression PROVE Move
  OBVIOUS
<1>1. CASE At("parseCollateExpression")
  <2>1. CASE ReturnNew("Collate", Top.at, Top.kids, 1)
    <3>1. Builds("Collate", Top.at, Top.kids, 1)
      BY <1>1, Standing DEF Builds, At, Kinds, Operations, Exprs, OperationPoints, OneOperand, IsLoose
    <3> QED BY <1>1, <2>1, <3>1, Standing, ReturnMoves
  <2> QED BY <1>1, <2>1 DEF parseCollateExpression, At
<1> QED BY <1>1 DEF parseCollateExpression

LEMMA parseAtTimeZoneExpressionMoves == IInv /\ parseAtTimeZoneExpression => Move
<1> SUFFICES ASSUME IInv, parseAtTimeZoneExpression PROVE Move
  OBVIOUS
<1>1. CASE At("parseAtTimeZoneExpression")
  <2>1. CASE Return(Top.kids[1])
    BY <1>1, <2>1, Standing DEF Move, AtMove
  <2>2. CASE CallExpression(3, "parseAtTimeZoneExpression.TimeZone", Top.kids, CALL)
    <3>1. Hands(3, "parseAtTimeZoneExpression.TimeZone", Top.kids)
      BY <1>1, Standing DEF Hands, Exprs, OperationPoints, OneOperand
    <3>2. CALL = Wanted("parseAtTimeZoneExpression.TimeZone", Precedence(Cur)) /\ CALL \in Nat /\ CALL >= LOWEST
      BY DEF Wanted, CALL, LOWEST
    <3> QED BY <1>1, <2>2, <3>1, <3>2, OperatorLinks, CallExpressionMoves
  <2>3. CASE Fail(2, 1)
    BY <1>1, <2>3, Standing, FailMoves
  <2> QED BY <1>1, <2>1, <2>2, <2>3 DEF parseAtTimeZoneExpression, At
<1>2. CASE At("parseAtTimeZoneExpression.TimeZone")
  <2>1. Kept(Got)
    BY <1>2, Resumed DEF AwaitsResult
  <2>2. CASE ReturnNew("AtTimeZone", Top.at, Got, 0)
    <3>1. Builds("AtTimeZone", Top.at, Got, 0)
      BY <1>2, <2>1, Standing DEF Builds, At, Kinds, Operations, Exprs, OperationPoints, OneOperand, IsLoose
    <3> QED BY <1>2, <2>2, <3>1, Standing, ReturnMoves
  <2> QED BY <1>2, <2>2 DEF parseAtTimeZoneExpression, At
<1> QED BY <1>1, <1>2 DEF parseAtTimeZoneExpression

LEMMA parseBetweenExpressionMoves == IInv /\ parseBetweenExpression => Move
<1> SUFFICES ASSUME IInv, parseBetweenExpression PROVE Move
  OBVIOUS
<1>1. CASE At("parseBetweenExpression")
  <2>1. CASE CallExpression(1, "parseBetweenExpression.Low", Top.kids, AND_PREC)
    <3>1. Hands(1, "parseBetweenExpression.Low", Top.kids)
      BY <1>1, Standing DEF Hands, Exprs, OperationPoints, OneOperand
    <3>2. AND_PREC = Wanted("parseBetweenExpression.Low", Precedence(Cur)) /\ AND_PREC \in Nat /\ AND_PREC >= LOWEST
      BY DEF Wanted, AND_PREC, LOWEST
    <3> QED BY <1>1, <2>1, <3>1, <3>2, OperatorLinks, CallExpressionMoves
  <2> QED BY <1>1, <2>1 DEF parseBetweenExpression, At
<1>2. CASE At("parseBetweenExpression.Low")
  <2>1. Kept(Got)
    BY <1>2, Resumed DEF AwaitsResult
  <2>2. CASE CallExpression(2, "parseBetweenExpression.High", Got, BETWEEN_PREC)
    <3>1. Hands(2, "parseBetweenExpression.High", Got)
      BY <1>2, <2>1, Standing DEF Hands, Exprs, OperationPoints, OneOperand
    <3>2. BETWEEN_PREC = Wanted("parseBetweenExpression.High", Precedence(Cur)) /\ BETWEEN_PREC \in Nat /\ BETWEEN_PREC >= LOWEST
      BY DEF Wanted, BETWEEN_PREC, LOWEST
    <3> QED BY <1>2, <2>2, <3>1, <3>2, OperatorLinks, CallExpressionMoves
  <2>3. CASE Fail(1, 0)
    BY <1>2, <2>3, Standing, FailMoves
  <2> QED BY <1>2, <2>2, <2>3 DEF parseBetweenExpression, At
<1>3. CASE At("parseBetweenExpression.High")
  <2>1. Kept(Got)
    BY <1>3, Resumed DEF AwaitsResult
  <2>2. CASE ReturnNew("Between", Top.at, Got, 0)
    <3>1. Builds("Between", Top.at, Got, 0)
      BY <1>3, <2>1, Standing DEF Builds, At, Kinds, Operations, Exprs, OperationPoints, OneOperand, IsLoose
    <3> QED BY <1>3, <2>2, <3>1, Standing, ReturnMoves
  <2> QED BY <1>3, <2>2 DEF parseBetweenExpression, At
<1> QED BY <1>1, <1>2, <1>3 DEF parseBetweenExpression

LEMMA parseInExpressionMoves == IInv /\ parseInExpression => Move
<1> SUFFICES ASSUME IInv, parseInExpression PROVE Move
  OBVIOUS
<1>1. CASE At("parseInExpression")
  <2>1. CASE Call(2, "parseInExpression.Subquery", Top.kids, "parseSelectStatement")
    <3>1. Hands(2, "parseInExpression.Subquery", Top.kids)
      BY <1>1, Standing DEF Hands, Exprs, OperationPoints, OneOperand
    <3> QED BY <1>1, <2>1, <3>1, OperatorLinks, CallMoves
  <2>2. CASE CallExpression(2, "parseInExpression.Value", Top.kids, LOWEST)
    <3>1. Hands(2, "parseInExpression.Value", Top.kids)
      BY <1>1, Standing DEF Hands, Exprs, OperationPoints, OneOperand
    <3>2. "parseInExpression.Value" \notin WantPoints /\ LOWEST \in Nat
      BY DEF WantPoints, LOWEST
    <3> QED BY <1>1, <2>2, <3>1, <3>2, OperatorLinks, CallExpressionMoves
  <2>3. CASE Fail(1, 0)
    BY <1>1, <2>3, Standing, FailMoves
  <2> QED BY <1>1, <2>1, <2>2, <2>3 DEF parseInExpression, At
<1>2. CASE At("parseInExpression.Value")
  <2>1. Kept(Got)
    BY <1>2, Resumed DEF AwaitsResult
  <2>2. CASE CallExpression(2, "parseInExpression.Value", Got, LOWEST)
    <3>1. Hands(2, "parseInExpression.Value", Got)
      BY <1>2, <2>1, Standing DEF Hands, Exprs, OperationPoints, OneOperand
    <3>2. "parseInExpression.Value" \notin WantPoints /\ LOWEST \in Nat
      BY DEF WantPoints, LOWEST
    <3> QED BY <1>2, <2>2, <3>1, <3>2, OperatorLinks, CallExpressionMoves
  <2>3. CASE ReturnNew("In", Top.at, Got, 1)
    <3>1. Builds("In", Top.at, Got, 1)
      BY <1>2, <2>1, Standing DEF Builds, At, Kinds, Operations, Exprs, OperationPoints, OneOperand, IsLoose
    <3> QED BY <1>2, <2>3, <3>1, Standing, ReturnMoves
  <2>4. CASE Fail(1, 0)
    BY <1>2, <2>4, Standing, FailMoves
  <2> QED BY <1>2, <2>2, <2>3, <2>4 DEF parseInExpression, At
<1>3. CASE At("parseInExpression.Subquery")
  <2>1. Kept(GotIfAny)
    BY <1>3, Resumed DEF AwaitsResult
  <2>2. CASE ReturnNew("In", Top.at, GotIfAny, 1)
    <3>1. Builds("In", Top.at, GotIfAny, 1)
      BY <1>3, <2>1, Standing DEF Builds, At, Kinds, Operations, Exprs, OperationPoints, OneOperand, IsLoose
    <3> QED BY <1>3, <2>2, <3>1, Standing, ReturnMoves
  <2>3. CASE Fail(1, 0)
    BY <1>3, <2>3, Standing, FailMoves
  <2> QED BY <1>3, <2>2, <2>3 DEF parseInExpression, At
<1> QED BY <1>1, <1>2, <1>3 DEF parseInExpression

LEMMA parseIsNullExpressionMoves == IInv /\ parseIsNullExpression => Move
<1> SUFFICES ASSUME IInv, parseIsNullExpression PROVE Move
  OBVIOUS
<1>1. At("parseIsNullExpression")
  BY DEF parseIsNullExpression
<1>2. PICK k \in 1..2 : ReturnNew("IsNull", Top.at, Top.kids, k) \/ Fail(k, k)
  BY DEF parseIsNullExpression
<1>3. Builds("IsNull", Top.at, Top.kids, k)
  BY <1>1, Standing DEF Builds, At, Kinds, Operations, Exprs, OperationPoints, OneOperand, IsLoose
<1>4. k \in Nat /\ stack # <<>> /\ Top.at \in Nat
  BY <1>1, Standing
<1>5. CASE ReturnNew("IsNull", Top.at, Top.kids, k)
  BY <1>3, <1>4, <1>5, ReturnMoves
<1>6. CASE Fail(k, k)
  BY <1>4, <1>6, FailMoves
<1> QED BY <1>2, <1>5, <1>6

LEMMA parseDistinctFromExpressionMoves == IInv /\ parseDistinctFromExpression => Move
<1> SUFFICES ASSUME IInv, parseDistinctFromExpression PROVE Move
  OBVIOUS
<1>1. CASE At("parseDistinctFromExpression")
  <2>1. CASE CallExpression(1, "parseDistinctFromExpression.Right", Top.kids, COMPARE)
    <3>1. Hands(1, "parseDistinctFromExpression.Right", Top.kids)
      BY <1>1, Standing DEF Hands, Exprs, OperationPoints, OneOperand
    <3>2. COMPARE = Wanted("parseDistinctFromExpression.Right", Precedence(Cur)) /\ COMPARE \in Nat /\ COMPARE >= LOWEST
      BY DEF Wanted, COMPARE, LOWEST
    <3> QED BY <1>1, <2>1, <3>1, <3>2, OperatorLinks, CallExpressionMoves
  <2> QED BY <1>1, <2>1 DEF parseDistinctFromExpression, At
<1>2. CASE At("parseDistinctFromExpression.Right")
  <2>1. Kept(Got)
    BY <1>2, Resumed DEF AwaitsResult
  <2>2. CASE ReturnNew("IsDistinctFrom", Top.at, Got, 0)
    <3>1. Builds("IsDistinctFrom", Top.at, Got, 0)
      BY <1>2, <2>1, Standing DEF Builds, At, Kinds, Operations, Exprs, OperationPoints, OneOperand, IsLoose
    <3> QED BY <1>2, <2>2, <3>1, Standing, ReturnMoves
  <2> QED BY <1>2, <2>2 DEF parseDistinctFromExpression, At
<1> QED BY <1>1, <1>2 DEF parseDistinctFromExpression

LEMMA parseNotInfixExpressionMoves == IInv /\ parseNotInfixExpression => Move
<1> SUFFICES ASSUME IInv, parseNotInfixExpression PROVE Move
  OBVIOUS
<1>1. At("parseNotInfixExpression") /\ stack # <<>>
  BY Standing DEF parseNotInfixExpression
<1>2. NotMove \/ Fail(1, 1)
  BY DEF parseNotInfixExpression, NotMove
<1> QED BY <1>1, <1>2, FailMoves DEF Move

LEMMA parseDataTypeMoves == IInv /\ parseDataType => Move
<1> SUFFICES ASSUME IInv, parseDataType PROVE Move
  OBVIOUS
<1> DEFINE name == ListEnd(pos, "DOT")
           size == name + 2
           last == CASE Cur = "XML" /\ name = pos                      -> ListEnd(size, "DOT")
                     [] Tok(size) # "MAX" /\ Tok(size + 1) = "COMMA" -> size + 2
                     [] OTHER                                          -> size
<1>1. pos \in Nat /\ input \in Seq(Tokens)
  BY DEF IInv, MachineInv, MachineTypeOK
<1>2. name \in Nat /\ pos <= name
  BY <1>1, ListEndOK
<1>3. \/ ReturnExpecting("RPAREN", "DataType", <<>>, last - pos)
      \/ ReturnNew("DataType", pos, <<>>, name - pos)
  BY DEF parseDataType
<1>4. At("parseDataType")
  BY DEF parseDataType
<1> HIDE DEF name
<1>5. ListEnd(size, "DOT") \in Nat /\ size <= ListEnd(size, "DOT")
  BY <1>1, <1>2, ListEndOK
<1>6. last \in {ListEnd(size, "DOT"), size + 2, size}
  OBVIOUS
<1>7. last \in Nat /\ pos <= last
  BY <1>1, <1>2, <1>5, <1>6
<1> HIDE DEF last
<1>8. last - pos \in Nat /\ last - pos + 1 \in Nat /\ name - pos \in Nat
  BY <1>1, <1>2, <1>7
<1>9. Plain("parseDataType") /\ ~ IsLoose("parseDataType")
  BY DEF Plain, Exprs, OperationPoints, OneOperand, IsLoose
<1>10. CASE ReturnNew("DataType", Top.at, <<>>, last - pos + 1)
  BY <1>4, <1>8, <1>9, <1>10, Standing, PlainReturn, PlainKindsKnown
<1>11. CASE ReturnFlawed("DataType", Top.at, <<>>, last - pos, last - pos + 1)
  BY <1>4, <1>8, <1>9, <1>11, Standing, PlainFlawed, PlainKindsKnown
<1>12. CASE ReturnNew("DataType", pos, <<>>, name - pos)
  BY <1>4, <1>8, <1>9, <1>12, Standing, PlainReturn, PlainKindsKnown
<1> QED BY <1>3, <1>10, <1>11, <1>12 DEF ReturnExpecting

LEMMA parseCastExpressionMoves == IInv /\ parseCastExpression => Move
<1> SUFFICES ASSUME IInv, parseCastExpression PROVE Move
  OBVIOUS
<1>1. CASE At("parseCastExpression")
  <2>1. Plain("parseCastExpression.Expression")
    BY DEF Plain, Exprs, OperationPoints, OneOperand, IsLoose
  <2>2. CASE CallExpression(2, "parseCastExpression.Expression", <<>>, LOWEST)
    <3>1. Link("parseCastExpression", 2, "parseCastExpression.Expression", "parseExpression")
      BY ConversionLinks
    <3> QED BY <1>1, <2>1, <2>2, Standing, <3>1, PlainCallLowest
  <2>3. CASE Mismatches(0, <<"LPAREN">>) # {} /\ GiveUp(0, <<"LPAREN">>)
    BY <1>1, <2>1, <2>3, Standing, GiveUpMoves
  <2> QED BY <1>1, <2>2, <2>3 DEF parseCastExpression, At, Require
<1>2. CASE At("parseCastExpression.Expression")
  <2>1. Kept(Got)
    BY <1>2, Resumed DEF AwaitsResult
  <2>2. Plain("parseCastExpression.TargetType")
    BY DEF Plain, Exprs, OperationPoints, OneOperand, IsLoose
  <2>3. CASE Call(2, "parseCastExpression.TargetType", Got, "parseDataType")
    <3>1. Link("parseCastExpression.Expression", 2, "parseCastExpression.TargetType", "parseDataType")
      BY ConversionLinks
    <3> QED BY <1>2, <2>1, <2>2, <2>3, <3>1, PlainCall
  <2>4. CASE Mismatches(0, <<"AS">>) # {} /\ GiveUp(0, <<"AS">>)
    BY <1>2, <2>1, <2>2, <2>4, Standing, GiveUpMoves
  <2> QED BY <1>2, <2>3, <2>4 DEF parseCastExpression, At, Require
<1>3. CASE At("parseCastExpression.TargetType")
  <2>1. Kept(Got)
    BY <1>3, Resumed DEF AwaitsResult
  <2>2. Plain("parseCastExpression.TargetType") /\ ~
        IsLoose("parseCastExpression.TargetType")
    BY DEF Plain, Exprs, OperationPoints, OneOperand, IsLoose
  <2>3. CASE ReturnNew("Conversion", Top.at, Got, 1)
    BY <1>3, <2>1, <2>2, <2>3, Standing, PlainReturn, PlainKindsKnown
  <2>4. CASE Mismatches(0, <<"RPAREN">>) # {} /\ GiveUp(0, <<"RPAREN">>)
    BY <1>3, <2>1, <2>2, <2>4, Standing, GiveUpMoves
  <2> QED BY <1>3, <2>3, <2>4 DEF parseCastExpression, At, Require
<1> QED BY <1>1, <1>2, <1>3 DEF parseCastExpression

LEMMA parseConvertExpressionMoves == IInv /\ parseConvertExpression => Move
<1> SUFFICES ASSUME IInv, parseConvertExpression PROVE Move
  OBVIOUS
<1>1. CASE At("parseConvertExpression")
  <2>1. Plain("parseConvertExpression.TargetType")
    BY DEF Plain, Exprs, OperationPoints, OneOperand, IsLoose
  <2>2. CASE Call(2, "parseConvertExpression.TargetType", <<>>, "parseDataType")
    <3>1. Link("parseConvertExpression", 2, "parseConvertExpression.TargetType", "parseDataType")
      BY ConversionLinks
    <3> QED BY <1>1, <2>1, <2>2, Standing, <3>1, PlainCall
  <2>3. CASE Mismatches(0, <<"LPAREN">>) # {} /\ GiveUp(0, <<"LPAREN">>)
    BY <1>1, <2>1, <2>3, Standing, GiveUpMoves
  <2> QED BY <1>1, <2>2, <2>3 DEF parseConvertExpression, At, Require
<1>2. CASE At("parseConvertExpression.TargetType")
  <2>1. Kept(Got)
    BY <1>2, Resumed DEF AwaitsResult
  <2>2. Plain("parseConvertExpression.Expression")
    BY DEF Plain, Exprs, OperationPoints, OneOperand, IsLoose
  <2>3. CASE CallExpression(2, "parseConvertExpression.Expression", Got, LOWEST)
    <3>1. Link("parseConvertExpression.TargetType", 2, "parseConvertExpression.Expression", "parseExpression")
      BY ConversionLinks
    <3> QED BY <1>2, <2>1, <2>2, <2>3, <3>1, PlainCallLowest
  <2>4. CASE Mismatches(0, <<"COMMA">>) # {} /\ GiveUp(0, <<"COMMA">>)
    BY <1>2, <2>1, <2>2, <2>4, Standing, GiveUpMoves
  <2> QED BY <1>2, <2>3, <2>4 DEF parseConvertExpression, At, Require
<1>3. CASE At("parseConvertExpression.Expression")
  <2>1. Kept(Got)
    BY <1>3, Resumed DEF AwaitsResult
  <2>2. Plain("parseConvertExpression.Style") /\
        Plain("parseConvertExpression.Expression") /\ ~
        IsLoose("parseConvertExpression.Expression")
    BY DEF Plain, Exprs, OperationPoints, OneOperand, IsLoose
  <2>3. CASE CallExpression(2, "parseConvertExpression.Style", Got, LOWEST)
    <3>1. Link("parseConvertExpression.Expression", 2, "parseConvertExpression.Style", "parseExpression")
      BY ConversionLinks
    <3> QED BY <1>3, <2>1, <2>2, <2>3, <3>1, PlainCallLowest
  <2>4. CASE ReturnNew("Conversion", Top.at, Got, 1)
    BY <1>3, <2>1, <2>2, <2>4, Standing, PlainReturn, PlainKindsKnown
  <2>5. CASE Mismatches(0, <<"RPAREN">>) # {} /\ GiveUp(0, <<"RPAREN">>)
    BY <1>3, <2>1, <2>2, <2>5, Standing, GiveUpMoves
  <2> QED BY <1>3, <2>3, <2>4, <2>5 DEF parseConvertExpression, At, Require
<1>4. CASE At("parseConvertExpression.Style")
  <2>1. Kept(GotIfAny)
    BY <1>4, Resumed DEF AwaitsResult
  <2>2. Plain("parseConvertExpression.Style") /\ ~
        IsLoose("parseConvertExpression.Style")
    BY DEF Plain, Exprs, OperationPoints, OneOperand, IsLoose
  <2>3. CASE ReturnNew("Conversion", Top.at, GotIfAny, 1)
    BY <1>4, <2>1, <2>2, <2>3, Standing, PlainReturn, PlainKindsKnown
  <2>4. CASE Mismatches(0, <<"RPAREN">>) # {} /\ GiveUp(0, <<"RPAREN">>)
    BY <1>4, <2>1, <2>2, <2>4, Standing, GiveUpMoves
  <2> QED BY <1>4, <2>3, <2>4 DEF parseConvertExpression, At, Require
<1> QED BY <1>1, <1>2, <1>3, <1>4 DEF parseConvertExpression

LEMMA parseParseExpressionMoves == IInv /\ parseParseExpression => Move
<1> SUFFICES ASSUME IInv, parseParseExpression PROVE Move
  OBVIOUS
<1>1. CASE At("parseParseExpression")
  <2>1. Plain("parseParseExpression.Expression")
    BY DEF Plain, Exprs, OperationPoints, OneOperand, IsLoose
  <2>2. CASE CallExpression(2, "parseParseExpression.Expression", <<>>, LOWEST)
    <3>1. Link("parseParseExpression", 2, "parseParseExpression.Expression", "parseExpression")
      BY ConversionLinks
    <3> QED BY <1>1, <2>1, <2>2, Standing, <3>1, PlainCallLowest
  <2>3. CASE Mismatches(0, <<"LPAREN">>) # {} /\ GiveUp(0, <<"LPAREN">>)
    BY <1>1, <2>1, <2>3, Standing, GiveUpMoves
  <2> QED BY <1>1, <2>2, <2>3 DEF parseParseExpression, At, Require
<1>2. CASE At("parseParseExpression.Expression")
  <2>1. Kept(Got)
    BY <1>2, Resumed DEF AwaitsResult
  <2>2. Plain("parseParseExpression.TargetType")
    BY DEF Plain, Exprs, OperationPoints, OneOperand, IsLoose
  <2>3. CASE Call(2, "parseParseExpression.TargetType", Got, "parseDataType")
    <3>1. Link("parseParseExpression.Expression", 2, "parseParseExpression.TargetType", "parseDataType")
      BY ConversionLinks
    <3> QED BY <1>2, <2>1, <2>2, <2>3, <3>1, PlainCall
  <2>4. CASE Mismatches(0, <<"AS">>) # {} /\ GiveUp(0, <<"AS">>)
    BY <1>2, <2>1, <2>2, <2>4, Standing, GiveUpMoves
  <2> QED BY <1>2, <2>3, <2>4 DEF parseParseExpression, At, Require
<1>3. CASE At("parseParseExpression.TargetType")
  <2>1. Kept(Got)
    BY <1>3, Resumed DEF AwaitsResult
  <2>2. Plain("parseParseExpression.Culture") /\
        Plain("parseParseExpression.TargetType") /\ ~
        IsLoose("parseParseExpression.TargetType")
    BY DEF Plain, Exprs, OperationPoints, OneOperand, IsLoose
  <2>3. CASE CallExpression(2, "parseParseExpression.Culture", Got, LOWEST)
    <3>1. Link("parseParseExpression.TargetType", 2, "parseParseExpression.Culture", "parseExpression")
      BY ConversionLinks
    <3> QED BY <1>3, <2>1, <2>2, <2>3, <3>1, PlainCallLowest
  <2>4. CASE ReturnNew("Conversion", Top.at, Got, 1)
    BY <1>3, <2>1, <2>2, <2>4, Standing, PlainReturn, PlainKindsKnown
  <2>5. CASE Mismatches(0, <<"RPAREN">>) # {} /\ GiveUp(0, <<"RPAREN">>)
    BY <1>3, <2>1, <2>2, <2>5, Standing, GiveUpMoves
  <2> QED BY <1>3, <2>3, <2>4, <2>5 DEF parseParseExpression, At, Require
<1>4. CASE At("parseParseExpression.Culture")
  <2>1. Kept(GotIfAny)
    BY <1>4, Resumed DEF AwaitsResult
  <2>2. Plain("parseParseExpression.Culture") /\ ~
        IsLoose("parseParseExpression.Culture")
    BY DEF Plain, Exprs, OperationPoints, OneOperand, IsLoose
  <2>3. CASE ReturnNew("Conversion", Top.at, GotIfAny, 1)
    BY <1>4, <2>1, <2>2, <2>3, Standing, PlainReturn, PlainKindsKnown
  <2>4. CASE Mismatches(0, <<"RPAREN">>) # {} /\ GiveUp(0, <<"RPAREN">>)
    BY <1>4, <2>1, <2>2, <2>4, Standing, GiveUpMoves
  <2> QED BY <1>4, <2>3, <2>4 DEF parseParseExpression, At, Require
<1> QED BY <1>1, <1>2, <1>3, <1>4 DEF parseParseExpression

LEMMA parseTrimExpressionMoves == IInv /\ parseTrimExpression => Move
<1> SUFFICES ASSUME IInv, parseTrimExpression PROVE Move
  OBVIOUS
<1>1. CASE At("parseTrimExpression")
  <2>1. PICK k \in {2, 3} :
           Require(0, <<"LPAREN">>, CallExpression(k, "parseTrimExpression.First", <<>>, LOWEST))
    BY <1>1 DEF parseTrimExpression, At
  <2>2. Plain("parseTrimExpression.First")
    BY DEF Plain, Exprs, OperationPoints, OneOperand
  <2>3. k \in Nat /\ k # 0 /\ Link("parseTrimExpression", k, "parseTrimExpression.First", "parseExpression")
    BY ConversionLinks
  <2>4. CASE CallExpression(k, "parseTrimExpression.First", <<>>, LOWEST)
    BY <1>1, <2>2, <2>3, <2>4, Standing, PlainCallLowest
  <2>5. CASE Mismatches(0, <<"LPAREN">>) # {} /\ GiveUp(0, <<"LPAREN">>)
    BY <1>1, <2>5, Standing, GiveUpMoves
  <2> QED BY <2>1, <2>4, <2>5 DEF Require
<1>2. CASE At("parseTrimExpression.First")
  <2>1. Kept(Got) /\ Kept(GotIfAny)
    BY <1>2, Resumed DEF AwaitsResult
  <2>2. Plain("parseTrimExpression.Expression") /\ Plain("parseTrimExpression.First")
        /\ ~ IsLoose("parseTrimExpression.First")
    BY DEF Plain, Exprs, OperationPoints, OneOperand, IsLoose
  <2>3. CASE CallExpression(2, "parseTrimExpression.Expression", GotIfAny, LOWEST)
    <3>1. Link("parseTrimExpression.First", 2, "parseTrimExpression.Expression", "parseExpression")
      BY ConversionLinks
    <3> QED BY <1>2, <2>1, <2>2, <2>3, <3>1, PlainCallLowest
  <2>4. CASE ReturnNew("Trim", Top.at, Got, 1)
    BY <1>2, <2>1, <2>2, <2>4, Standing, PlainReturn, PlainKindsKnown
  <2>5. CASE Mismatches(0, <<"RPAREN">>) # {} /\ GiveUp(0, <<"RPAREN">>)
    BY <1>2, <2>1, <2>2, <2>5, Standing, GiveUpMoves
  <2> QED BY <1>2, <2>3, <2>4, <2>5 DEF parseTrimExpression, At, Require
<1>3. CASE At("parseTrimExpression.Expression")
  <2>1. Kept(Got)
    BY <1>3, Resumed DEF AwaitsResult
  <2>2. Plain("parseTrimExpression.Expression") /\ ~
        IsLoose("parseTrimExpression.Expression")
    BY DEF Plain, Exprs, OperationPoints, OneOperand, IsLoose
  <2>3. CASE ReturnNew("Trim", Top.at, Got, 1)
    BY <1>3, <2>1, <2>2, <2>3, Standing, PlainReturn, PlainKindsKnown
  <2>4. CASE Mismatches(0, <<"RPAREN">>) # {} /\ GiveUp(0, <<"RPAREN">>)
    BY <1>3, <2>1, <2>2, <2>4, Standing, GiveUpMoves
  <2> QED BY <1>3, <2>3, <2>4 DEF parseTrimExpression, At, Require
<1> QED BY <1>1, <1>2, <1>3 DEF parseTrimExpression

LEMMA parseCursorExpressionMoves == IInv /\ parseCursorExpression => Move
<1> SUFFICES ASSUME IInv, parseCursorExpression PROVE Move
  OBVIOUS
<1>1. CASE At("parseCursorExpression")
  <2> DEFINE k == parseCursorOptions(pos + 1)
  <2>1. k \in Nat
    BY parseCursorOptionsOK DEF IInv, MachineInv, MachineTypeOK
  <2>2. \/ Call(k + 1, "parseCursorExpression.ForSelect", <<>>, "parseSelectStatement")
        \/ ReturnNew("CursorExpression", Top.at, <<>>, k)
    BY <1>1 DEF parseCursorExpression, At
  <2> HIDE DEF k
  <2>3. k + 1 \in Nat /\ k + 1 >= 1
    BY <2>1
  <2>4. Plain("parseCursorExpression") /\ ~ IsLoose("parseCursorExpression")
        /\ Plain("parseCursorExpression.ForSelect")
    BY DEF Plain, Exprs, OperationPoints, OneOperand, IsLoose
  <2>5. CASE Call(k + 1, "parseCursorExpression.ForSelect", <<>>, "parseSelectStatement")
    BY <1>1, <2>3, <2>4, <2>5, Standing, DistantLinks, PlainCall
  <2>6. CASE ReturnNew("CursorExpression", Top.at, <<>>, k)
    BY <1>1, <2>1, <2>4, <2>6, Standing, PlainReturn, PlainKindsKnown
  <2> QED BY <2>2, <2>5, <2>6
<1>2. CASE At("parseCursorExpression.ForSelect")
  <2>1. Kept(GotIfAny)
    BY <1>2, Resumed DEF AwaitsResult
  <2>2. Plain("parseCursorExpression.ForSelect") /\ ~
        IsLoose("parseCursorExpression.ForSelect")
    BY DEF Plain, Exprs, OperationPoints, OneOperand, IsLoose
  <2> QED BY <1>2, <2>1, <2>2, Standing, PlainReturn, PlainKindsKnown
             DEF parseCursorExpression, At
<1> QED BY <1>1, <1>2 DEF parseCursorExpression

LEMMA parseNextValueForMoves == IInv /\ parseNextValueFor => Move
<1> SUFFICES ASSUME IInv, parseNextValueFor PROVE Move
  OBVIOUS
<1> DEFINE k == ListEnd(pos + 3, "DOT") - pos
<1>1. k \in Nat
  <2>1. pos \in Nat
    BY DEF IInv, MachineInv, MachineTypeOK
  <2>2. ListEnd(pos + 3, "DOT") \in Nat /\ pos + 3 <= ListEnd(pos + 3, "DOT")
    BY ListFromCursor DEF IInv
  <2> QED BY <2>1, <2>2
<1>2. /\ At("parseNextValueFor")
      /\ \/ ReturnNew("NextValueFor", Top.at, <<>>, k)
         \/ Mismatches(0, <<"VALUE", "FOR">>) # {} /\ GiveUp(0, <<"VALUE", "FOR">>)
  BY DEF parseNextValueFor, Require
<1> HIDE DEF k
<1>3. Plain("parseNextValueFor") /\ ~ IsLoose("parseNextValueFor")
  BY DEF Plain, Exprs, OperationPoints, OneOperand, IsLoose
<1>4. CASE ReturnNew("NextValueFor", Top.at, <<>>, k)
  BY <1>1, <1>2, <1>3, <1>4, Standing, PlainReturn, PlainKindsKnown
<1>5. CASE Mismatches(0, <<"VALUE", "FOR">>) # {} /\ GiveUp(0, <<"VALUE", "FOR">>)
  BY <1>2, <1>5, Standing, GiveUpMoves
<1> QED BY <1>2, <1>4, <1>5

LEMMA parseNextValueForCompoundMoves == IInv /\ parseNextValueForCompound => Move
<1> SUFFICES ASSUME IInv, parseNextValueForCompound PROVE Move
  OBVIOUS
<1>1. CASE At("parseNextValueForCompound")
  <2> DEFINE k == ListEnd(pos + 1, "DOT") - pos
  <2>1. k \in Nat /\ k >= 1
    <3>1. pos \in Nat
      BY DEF IInv, MachineInv, MachineTypeOK
    <3>2. ListEnd(pos + 1, "DOT") \in Nat /\ pos + 1 <= ListEnd(pos + 1, "DOT")
      BY ListFromCursor DEF IInv
    <3> QED BY <3>1, <3>2
  <2>2. \/ Call(k + 1, "parseNextValueForCompound.Over", <<>>, "parseOverClause")
        \/ ReturnNew("NextValueFor", Top.at, <<>>, k)
    BY <1>1 DEF parseNextValueForCompound, At
  <2> HIDE DEF k
  <2>3. k + 1 \in Nat /\ k + 1 >= 2
    BY <2>1
  <2>4. Plain("parseNextValueForCompound") /\ ~ IsLoose("parseNextValueForCompound")
        /\ Plain("parseNextValueForCompound.Over")
    BY DEF Plain, Exprs, OperationPoints, OneOperand, IsLoose
  <2>5. CASE Call(k + 1, "parseNextValueForCompound.Over", <<>>, "parseOverClause")
    BY <1>1, <2>3, <2>4, <2>5, Standing, DistantLinks, PlainCall
  <2>6. CASE ReturnNew("NextValueFor", Top.at, <<>>, k)
    BY <1>1, <2>1, <2>4, <2>6, Standing, PlainReturn, PlainKindsKnown
  <2> QED BY <2>2, <2>5, <2>6
<1>2. CASE At("parseNextValueForCompound.Over")
  <2>1. Kept(GotIfAny)
    BY <1>2, Resumed DEF AwaitsResult
  <2>2. Plain("parseNextValueForCompound.Over") /\ ~
        IsLoose("parseNextValueForCompound.Over")
    BY DEF Plain, Exprs, OperationPoints, OneOperand, IsLoose
  <2> QED BY <1>2, <2>1, <2>2, Standing, PlainReturn, PlainKindsKnown
             DEF parseNextValueForCompound, At
<1> QED BY <1>1, <1>2 DEF parseNextValueForCompound

(* The search term is at least two tokens ahead.                           *)
LEMMA SearchTermAhead ==
    ASSUME IInv, NEW table \in BOOLEAN
    PROVE  SearchTermAt(table) - pos \in Nat /\ SearchTermAt(table) - pos >= 1
<1>1. pos \in Nat /\ input \in Seq(Tokens)
  BY DEF IInv, MachineInv, MachineTypeOK
<1>2. ASSUME NEW i \in Nat PROVE PastComma(i) \in Nat /\ i <= PastComma(i)
  BY DEF PastComma
<1>3. ASSUME NEW i \in Nat PROVE ColumnsEnd(i) \in Nat /\ i <= ColumnsEnd(i)
  <2>1. FirstIn(i + 1, {"RPAREN"}) \in Nat /\ i + 1 <= FirstIn(i + 1, {"RPAREN"})
    BY <1>1, FirstInOK
  <2> QED BY <1>2, <2>1 DEF ColumnsEnd
<1>4. pos + 2 \in Nat /\ pos + 3 \in Nat
  BY <1>1
<1>5. PastComma(pos + 3) \in Nat /\ pos + 3 <= PastComma(pos + 3)
  BY <1>2, <1>4
<1>6. /\ ColumnsEnd(pos + 2) \in Nat /\ pos + 2 <= ColumnsEnd(pos + 2)
      /\ ColumnsEnd(PastComma(pos + 3)) \in Nat
      /\ PastComma(pos + 3) <= ColumnsEnd(PastComma(pos + 3))
  BY <1>3, <1>4, <1>5
<1> QED BY <1>1, <1>5, <1>6 DEF SearchTermAt

LEMMA FullTextMoves ==
    ASSUME IInv, NEW fn, NEW term \in AwaitsResult, NEW table \in BOOLEAN,
           \A k \in Nat : k >= 1 => Link(fn, k, term, "parseExpression"),
           Plain(term), ~ IsLoose(term),
           FullText(fn, term, table)
    PROVE  Move
<1> DEFINE k == SearchTermAt(table) - pos
<1>1. k \in Nat /\ k >= 1 /\ LOWEST \in Nat
  BY SearchTermAhead DEF LOWEST
<1>2. CASE At(fn) /\ Require(0, <<"LPAREN">>, CallExpression(k, term, <<>>, LOWEST))
  <2>1. \/ CallExpression(k, term, <<>>, LOWEST)
        \/ Mismatches(0, <<"LPAREN">>) # {} /\ GiveUp(0, <<"LPAREN">>)
    BY <1>2 DEF Require
  <2> HIDE DEF k
  <2>2. CASE CallExpression(k, term, <<>>, LOWEST)
    BY <1>1, <1>2, <2>2, Standing, PlainCallLowest
  <2>3. CASE Mismatches(0, <<"LPAREN">>) # {} /\ GiveUp(0, <<"LPAREN">>)
    <3>1. stack # <<>>
      BY <1>2 DEF At
    <3>2. DOMAIN <<"LPAREN">> \subseteq Nat \ {0}
      OBVIOUS
    <3> QED BY <2>3, <3>1, <3>2, GiveUpMoves
  <2> QED BY <2>1, <2>2, <2>3
<1>3. CASE At(term) /\ \E n \in Nat : ReturnNew("FullText", Top.at, GotIfAny, n)
  BY <1>3, Standing, Resumed, PlainReturn, PlainKindsKnown
<1> QED BY <1>2, <1>3 DEF FullText

LEMMA ConversionMoves == IInv /\ ConversionStep => Move
<1> SUFFICES ASSUME IInv, ConversionStep PROVE Move
  OBVIOUS
<1>1. CASE parseContainsExpression
  <2>1. Plain("parseContainsExpression.SearchTerm") /\ ~ IsLoose("parseContainsExpression.SearchTerm")
        /\ "parseContainsExpression.SearchTerm" \in AwaitsResult
    BY DEF Plain, Exprs, OperationPoints, OneOperand, IsLoose, AwaitsResult
  <2> QED BY <1>1, <2>1, DistantLinks, FullTextMoves DEF parseContainsExpression
<1>2. CASE parseFreetextExpression
  <2>1. Plain("parseFreetextExpression.SearchTerm") /\ ~ IsLoose("parseFreetextExpression.SearchTerm")
        /\ "parseFreetextExpression.SearchTerm" \in AwaitsResult
    BY DEF Plain, Exprs, OperationPoints, OneOperand, IsLoose, AwaitsResult
  <2> QED BY <1>2, <2>1, DistantLinks, FullTextMoves DEF parseFreetextExpression
<1>3. CASE parseContainsTableExpression
  <2>1. /\ Plain("parseContainsTableExpression.SearchTerm")
        /\ ~ IsLoose("parseContainsTableExpression.SearchTerm")
        /\ "parseContainsTableExpression.SearchTerm" \in AwaitsResult
    BY DEF Plain, Exprs, OperationPoints, OneOperand, IsLoose, AwaitsResult
  <2> QED BY <1>3, <2>1, DistantLinks, FullTextMoves DEF parseContainsTableExpression
<1>4. CASE parseFreetextTableExpression
  <2>1. /\ Plain("parseFreetextTableExpression.SearchTerm")
        /\ ~ IsLoose("parseFreetextTableExpression.SearchTerm")
        /\ "parseFreetextTableExpression.SearchTerm" \in AwaitsResult
    BY DEF Plain, Exprs, OperationPoints, OneOperand, IsLoose, AwaitsResult
  <2> QED BY <1>4, <2>1, DistantLinks, FullTextMoves DEF parseFreetextTableExpression
<1> QED BY <1>1, <1>2, <1>3, <1>4, parseDataTypeMoves, parseCastExpressionMoves,
           parseConvertExpressionMoves, parseParseExpressionMoves, parseTrimExpressionMoves,
           parseCursorExpressionMoves, parseNextValueForMoves, parseNextValueForCompoundMoves
        DEF ConversionStep

(* Every step is one of the moves.                                         *)
LEMMA NextMoves == IInv /\ [Next]_vars => Move \/ UNCHANGED vars
<1> SUFFICES ASSUME IInv, [Next]_vars PROVE Move \/ UNCHANGED vars
  OBVIOUS
<1>1. CASE WindowStep
  BY <1>1, parseOrderByItemsMoves, parseFrameBoundMoves, parseWindowFrameMoves,
     parseOverClauseMoves DEF WindowStep
<1>2. CASE ConversionStep
  BY <1>2, ConversionMoves
<1>3. CASE ExpressionStep
  BY <1>1, <1>2, <1>3, parseExpressionMoves, parseLeafMoves, parseFloatLiteralMoves,
     parsePrefixExpressionMoves, parseInfixExpressionMoves, parseGroupedExpressionMoves,
     parseDotExpressionMoves, parseScopeExpressionMoves, parseCallExpressionMoves,
     parseExpressionListMoves, parseFunctionLiteralMoves, parseCaseExpressionMoves,
     parseExistsExpressionMoves, parseAllExpressionMoves, parseSubqueryExpressionMoves,
     parseLikeExpressionMoves, parseCollateExpressionMoves, parseAtTimeZoneExpressionMoves,
     parseBetweenExpressionMoves, parseInExpressionMoves, parseIsNullExpressionMoves,
     parseDistinctFromExpressionMoves, parseNotInfixExpressionMoves
     DEF ExpressionStep
<1>4. CASE NestedSelect
  BY <1>4, NestedSelectMoves
<1> QED BY <1>3, <1>4 DEF Next
-----------------------------------------------------------------------------
(* The order of the operands, of nodes h, with the places w of the words   *)
(* that an OVER clause may read twice.                                     *)
FramePlaces == {b \in Nat : Tok(b) \in FrameWords}
Seam(loose, w) == IF loose THEN w ELSE {}

Placed(h, v, lo, hi) == v # NIL => v \in DOMAIN h /\ lo <= h[v].lo /\ h[v].hi <= hi
Before(h, v, b, seam) == v # NIL => h[v].hi < b \/ (h[v].hi = b /\ b \in seam)
AllBefore(h, kids, b, seam) == \A j \in DOMAIN kids : Before(h, kids[j], b, seam)
InOrder(h, kids, lo, hi, seam) ==
    \A j \in DOMAIN kids :
        /\ Placed(h, kids[j], lo, hi)
        /\ kids[j] # NIL => \A i \in 1..(j - 1) : Before(h, kids[i], h[kids[j]].lo, seam)
AllUpTo(kids, m) == \A j \in DOMAIN kids : kids[j] <= m

(* A node comes after its operands, and they are in order.                 *)
NodeOrder(h, w, n) ==
    /\ h[n].lo <= h[n].hi
    /\ InOrder(h, h[n].kids, h[n].lo, h[n].hi, Seam(h[n].kind = "Over", w))
    /\ AllUpTo(h[n].kids, n - 1)

(* The operands a call has collected lie between the beginning of its      *)
(* expression and the cursor p; those of a caller lie before what it calls.*)
FrameOrder(h, p, w, f) ==
    /\ f.lo <= p
    /\ InOrder(h, f.kids, f.lo, p, Seam(IsLoose(f.pc), w))
    /\ f.pc = "parseCallExpression" => AllBefore(h, f.kids, p, {})
Below(h, w, f, g) ==
    /\ f.lo <= g.lo
    /\ AllBefore(h, f.kids, g.lo, Seam(IsLoose(f.pc), w))
    /\ f.pc \in AwaitsResult
StackOrder(h, p, w, s) ==
    /\ \A i \in DOMAIN s : FrameOrder(h, p, w, s[i])
    /\ \A i, j \in DOMAIN s : i < j => Below(h, w, s[i], s[j])

(* The node just returned is the youngest, no call holds it, and it comes  *)
(* after the operands of the call that is to take it.                      *)
Alone(s, r) == \A i \in DOMAIN s : AllUpTo(s[i].kids, r - 1)
Returned(h, p, w, s, r) ==
    /\ r = Len(h) /\ Alone(s, r)
    /\ s[Len(s)].lo <= h[r].lo /\ h[r].hi <= p
    /\ AllBefore(h, s[Len(s)].kids, h[r].lo, Seam(IsLoose(s[Len(s)].pc), w))

NodesOrder  == \A n \in DOMAIN heap : NodeOrder(heap, FramePlaces, n)
FramesOrder == StackOrder(heap, pos, FramePlaces, stack)
ResultOrder == stack # <<>> /\ Top.pc \in AwaitsResult /\ ret # NIL
                   => Returned(heap, pos, FramePlaces, stack, ret)
(* parseAtTimeZoneExpression may return its left side as it is.            *)
LeftOrder   == At("parseAtTimeZoneExpression")
                   => /\ Len(Top.kids) = 1
                      /\ Top.kids[1] # NIL =>
                            /\ Top.kids[1] = Len(heap)
                            /\ \A i \in 1..(Len(stack) - 1) :
                                  AllUpTo(stack[i].kids, Top.kids[1] - 1)
ResultIsThere == Finished => ret \in {NIL, Panicked} \cup DOMAIN heap
OrderInv == NodesOrder /\ FramesOrder /\ ResultOrder /\ LeftOrder /\ ResultIsThere
-----------------------------------------------------------------------------
(* The nodes up to m are where they were.                                  *)
Agree(h, g, m) ==
    \A n \in DOMAIN h : n <= m => n \in DOMAIN g /\ g[n].lo = h[n].lo /\ g[n].hi = h[n].hi
Heaps == Seq(Nodes(Kinds))
Stacks == Seq(Frames(Labels))

LEMMA NodeType ==
    ASSUME NEW h \in Heaps, NEW n \in DOMAIN h
    PROVE  n \in Nat \ {0} /\ n <= Len(h) /\ h[n].lo \in Nat /\ h[n].hi \in Nat
           /\ h[n].kids \in Seq(Nat)
<1>1. h[n] \in Nodes(Kinds) /\ n \in 1..Len(h) /\ Len(h) \in Nat
  BY DEF Heaps
<1> QED BY <1>1 DEF Nodes

LEMMA FrameType ==
    ASSUME NEW s \in Stacks, NEW i \in DOMAIN s
    PROVE  s[i].lo \in Nat /\ s[i].kids \in Seq(Nat) /\ s[i].pc \in Labels
<1>1. s[i] \in Frames(Labels)
  BY DEF Stacks
<1> QED BY <1>1 DEF Frames

LEMMA Lengths ==
    ASSUME NEW h \in Heaps, NEW s \in Stacks
    PROVE  /\ Len(h) \in Nat /\ Len(s) \in Nat /\ DOMAIN s = 1..Len(s)
           /\ s # <<>> => Len(s) \in DOMAIN s
           /\ \A i \in DOMAIN s : s[i] \in Frames(Labels) /\ s[i].lo \in Nat
<1>1. Len(h) \in Nat
  BY DEF Heaps
<1>2. s \in Seq(Frames(Labels))
  BY DEF Stacks
<1> QED BY <1>1, <1>2, FrameType

LEMMA BeforeLater ==
    ASSUME NEW h \in Heaps, NEW v \in Nat, v # NIL => v \in DOMAIN h,
           NEW b \in Nat, NEW c \in Nat, b <= c, NEW seam, Before(h, v, b, seam)
    PROVE  Before(h, v, c, seam)
BY NodeType DEF Before

LEMMA InOrderAfter ==
    ASSUME NEW h \in Heaps, NEW kids \in Seq(Nat), NEW lo \in Nat, NEW hi \in Nat, NEW seam,
           InOrder(h, kids, lo, hi, seam),
           NEW b \in Nat, hi < b, NEW other
    PROVE  AllBefore(h, kids, b, other)
BY NodeType DEF InOrder, Placed, AllBefore, Before

LEMMA AllBeforeLater ==
    ASSUME NEW h \in Heaps, NEW kids \in Seq(Nat), NEW lo, NEW hi, NEW seam, NEW other,
           InOrder(h, kids, lo, hi, other),
           NEW b \in Nat, NEW c \in Nat, b <= c, AllBefore(h, kids, b, seam)
    PROVE  AllBefore(h, kids, c, seam)
<1> SUFFICES ASSUME NEW j \in DOMAIN kids PROVE Before(h, kids[j], c, seam)
  BY DEF AllBefore
<1>1. kids[j] \in Nat /\ (kids[j] # NIL => kids[j] \in DOMAIN h)
  BY DEF InOrder, Placed
<1>2. Before(h, kids[j], b, seam)
  BY DEF AllBefore
<1> QED BY <1>1, <1>2, BeforeLater

LEMMA InOrderBound ==
    ASSUME NEW h \in Heaps, NEW kids \in Seq(Nat), NEW lo, NEW hi, NEW seam,
           InOrder(h, kids, lo, hi, seam)
    PROVE  AllUpTo(kids, Len(h))
BY DEF InOrder, Placed, AllUpTo, NIL, Heaps

LEMMA InOrderAgree ==
    ASSUME NEW h \in Heaps, NEW g \in Heaps, NEW m \in Nat, Agree(h, g, m),
           NEW kids \in Seq(Nat), AllUpTo(kids, m),
           NEW lo \in Nat, NEW hi \in Nat, NEW lo2 \in Nat, NEW hi2 \in Nat,
           lo2 <= lo, hi <= hi2, NEW seam, NEW seam2, seam \subseteq seam2,
           InOrder(h, kids, lo, hi, seam)
    PROVE  InOrder(g, kids, lo2, hi2, seam2)
<1>1. \A j \in DOMAIN kids : Placed(h, kids[j], lo, hi) /\ kids[j] <= m
  BY DEF InOrder, AllUpTo
<1>2. \A j \in DOMAIN kids : kids[j] # NIL =>
        /\ kids[j] \in DOMAIN h /\ kids[j] \in DOMAIN g
        /\ g[kids[j]].lo = h[kids[j]].lo /\ g[kids[j]].hi = h[kids[j]].hi
        /\ h[kids[j]].lo \in Nat /\ h[kids[j]].hi \in Nat
  BY <1>1, NodeType DEF Agree, Placed
<1>3. ASSUME NEW j \in DOMAIN kids PROVE Placed(g, kids[j], lo2, hi2)
  BY <1>1, <1>2 DEF Placed
<1>4. ASSUME NEW j \in DOMAIN kids, kids[j] # NIL, NEW i \in 1..(j - 1)
      PROVE  Before(g, kids[i], g[kids[j]].lo, seam2)
  <2>1. i \in DOMAIN kids
    OBVIOUS
  <2>2. Before(h, kids[i], h[kids[j]].lo, seam)
    BY <1>4 DEF InOrder
  <2> QED BY <1>2, <1>4, <2>1, <2>2 DEF Before
<1> QED BY <1>3, <1>4 DEF InOrder

LEMMA AllBeforeAgree ==
    ASSUME NEW h \in Heaps, NEW g \in Heaps, NEW m \in Nat, Agree(h, g, m),
           NEW kids \in Seq(Nat), AllUpTo(kids, m),
           NEW lo, NEW hi, NEW other, InOrder(h, kids, lo, hi, other),
           NEW b \in Nat, NEW seam, AllBefore(h, kids, b, seam)
    PROVE  AllBefore(g, kids, b, seam)
<1>1. \A j \in DOMAIN kids : kids[j] # NIL =>
        kids[j] \in DOMAIN h /\ g[kids[j]].hi = h[kids[j]].hi
  BY DEF InOrder, Placed, Agree, AllUpTo
<1> QED BY <1>1 DEF AllBefore, Before

LEMMA AppendInOrder ==
    ASSUME NEW h \in Heaps, NEW kids \in Seq(Nat), NEW lo \in Nat, NEW hi \in Nat, NEW seam,
           InOrder(h, kids, lo, hi, seam), NEW v \in Nat,
           v # NIL => /\ Placed(h, v, lo, hi) /\ AllBefore(h, kids, h[v].lo, seam)
    PROVE  InOrder(h, Append(kids, v), lo, hi, seam)
<1> DEFINE more == Append(kids, v)
<1>1. /\ DOMAIN more = 1..(Len(kids) + 1) /\ more[Len(kids) + 1] = v
      /\ \A j \in DOMAIN kids : more[j] = kids[j] /\ j \in 1..Len(kids)
  OBVIOUS
<1> HIDE DEF more
<1>2. ASSUME NEW j \in DOMAIN more PROVE Placed(h, more[j], lo, hi)
  BY <1>1, <1>2 DEF InOrder, Placed
<1>3. ASSUME NEW j \in DOMAIN more, more[j] # NIL, NEW i \in 1..(j - 1)
      PROVE  Before(h, more[i], h[more[j]].lo, seam)
  <2>1. i \in DOMAIN kids /\ more[i] = kids[i]
    BY <1>1, <1>3
  <2>2. CASE j \in DOMAIN kids
    BY <1>1, <1>3, <2>1, <2>2 DEF InOrder
  <2>3. CASE j = Len(kids) + 1
    BY <1>1, <1>3, <2>1, <2>3 DEF AllBefore
  <2> QED BY <1>1, <1>3, <2>2, <2>3
<1>4. InOrder(h, more, lo, hi, seam)
  BY <1>2, <1>3 DEF InOrder
<1> QED BY <1>4 DEF more
-----------------------------------------------------------------------------
(* The stack in order: a call, a return, a call that goes on.              *)
LEMMA SameNodes == ASSUME NEW h, NEW m PROVE Agree(h, h, m)
BY DEF Agree

LEMMA FrameAgree ==
    ASSUME NEW h \in Heaps, NEW g \in Heaps, NEW m \in Nat, Agree(h, g, m),
           NEW p \in Nat, NEW q \in Nat, p <= q, NEW w, NEW f \in Frames(Labels),
           FrameOrder(h, p, w, f), AllUpTo(f.kids, m)
    PROVE  FrameOrder(g, q, w, f)
<1>1. f.lo \in Nat /\ f.kids \in Seq(Nat)
  BY DEF Frames
<1>2. f.lo <= p /\ InOrder(h, f.kids, f.lo, p, Seam(IsLoose(f.pc), w))
  BY DEF FrameOrder
<1>3. InOrder(g, f.kids, f.lo, q, Seam(IsLoose(f.pc), w))
  BY <1>1, <1>2, InOrderAgree
<1>4. ASSUME f.pc = "parseCallExpression" PROVE AllBefore(g, f.kids, q, {})
  <2>1. AllBefore(h, f.kids, p, {})
    BY <1>4 DEF FrameOrder
  <2>2. AllBefore(g, f.kids, p, {})
    BY <1>1, <1>2, <2>1, AllBeforeAgree
  <2> QED BY <1>1, <1>3, <2>2, AllBeforeLater
<1> QED BY <1>1, <1>2, <1>3, <1>4 DEF FrameOrder

LEMMA BelowAgree ==
    ASSUME NEW h \in Heaps, NEW g \in Heaps, NEW m \in Nat, Agree(h, g, m),
           NEW p \in Nat, NEW w, NEW f \in Frames(Labels), NEW c \in Frames(Labels),
           FrameOrder(h, p, w, f), AllUpTo(f.kids, m), Below(h, w, f, c),
           NEW d \in Frames(Labels), c.lo <= d.lo
    PROVE  Below(g, w, f, d)
<1>1. f.lo \in Nat /\ f.kids \in Seq(Nat) /\ c.lo \in Nat /\ d.lo \in Nat
  BY DEF Frames
<1>2. InOrder(h, f.kids, f.lo, p, Seam(IsLoose(f.pc), w))
  BY DEF FrameOrder
<1>3. AllBefore(h, f.kids, c.lo, Seam(IsLoose(f.pc), w))
  BY DEF Below
<1>4. AllBefore(h, f.kids, d.lo, Seam(IsLoose(f.pc), w))
  BY <1>1, <1>2, <1>3, AllBeforeLater
<1>5. AllBefore(g, f.kids, d.lo, Seam(IsLoose(f.pc), w))
  BY <1>1, <1>2, <1>4, AllBeforeAgree
<1> QED BY <1>1, <1>5 DEF Below

LEMMA KidsUpTo ==
    ASSUME NEW h \in Heaps, NEW p, NEW w, NEW s \in Stacks, StackOrder(h, p, w, s),
           NEW i \in DOMAIN s
    PROVE  AllUpTo(s[i].kids, Len(h))
BY FrameType, InOrderBound DEF StackOrder, FrameOrder

(* The calls below the top stay as they are; the top is another call of    *)
(* the same expression.                                                    *)
LEMMA ReplaceOrder ==
    ASSUME NEW h \in Heaps, NEW g \in Heaps, Agree(h, g, Len(h)),
           NEW p \in Nat, NEW q \in Nat, p <= q, NEW w,
           NEW s \in Stacks, s # <<>>, StackOrder(h, p, w, s),
           NEW f \in Frames(Labels), f.lo = s[Len(s)].lo, FrameOrder(g, q, w, f)
    PROVE  StackOrder(g, q, w, [s EXCEPT ![Len(s)] = f])
<1> DEFINE t == [s EXCEPT ![Len(s)] = f]
<1>1. /\ DOMAIN t = DOMAIN s /\ Len(s) \in DOMAIN s /\ DOMAIN s = 1..Len(s)
      /\ t[Len(s)] = f /\ Len(h) \in Nat
      /\ \A i \in DOMAIN s : i # Len(s) => t[i] = s[i]
      /\ \A i \in DOMAIN s : s[i] \in Frames(Labels) /\ s[i].lo \in Nat
  BY Lengths DEF Stacks
<1> HIDE DEF t
<1>2. \A i \in DOMAIN s : AllUpTo(s[i].kids, Len(h)) /\ FrameOrder(h, p, w, s[i])
  BY KidsUpTo DEF StackOrder
<1>3. \A i \in DOMAIN t : FrameOrder(g, q, w, t[i])
  BY <1>1, <1>2, FrameAgree
<1>4. ASSUME NEW i \in DOMAIN t, NEW j \in DOMAIN t, i < j PROVE Below(g, w, t[i], t[j])
  <2>1. Below(h, w, s[i], s[j]) /\ t[i] = s[i] /\ i # Len(s)
    BY <1>1, <1>4 DEF StackOrder
  <2>2. t[j] \in Frames(Labels) /\ t[j].lo = s[j].lo
    BY <1>1
  <2> QED BY <1>1, <1>2, <2>1, <2>2, BelowAgree
<1>5. StackOrder(g, q, w, t)
  BY <1>3, <1>4 DEF StackOrder
<1> QED BY <1>5 DEF t

LEMMA PushOrder ==
    ASSUME NEW h \in Heaps, NEW p \in Nat, NEW w,
           NEW s \in Stacks, s # <<>>, StackOrder(h, p, w, s),
           NEW f \in Frames(Labels), FrameOrder(h, p, w, f), Below(h, w, s[Len(s)], f)
    PROVE  StackOrder(h, p, w, Append(s, f))
<1> DEFINE t == Append(s, f)
<1>1. /\ DOMAIN t = 1..(Len(s) + 1) /\ DOMAIN s = 1..Len(s) /\ Len(s) \in DOMAIN s
      /\ t[Len(s) + 1] = f /\ Len(h) \in Nat
      /\ \A i \in DOMAIN s : t[i] = s[i]
      /\ \A i \in DOMAIN s : s[i] \in Frames(Labels) /\ s[i].lo \in Nat
  BY Lengths DEF Stacks
<1> HIDE DEF t
<1>2. \A i \in DOMAIN s : AllUpTo(s[i].kids, Len(h)) /\ FrameOrder(h, p, w, s[i])
  BY KidsUpTo DEF StackOrder
<1>3. ASSUME NEW i \in DOMAIN t PROVE FrameOrder(h, p, w, t[i])
  <2>1. CASE i \in DOMAIN s
    BY <1>1, <1>2, <2>1
  <2>2. CASE i = Len(s) + 1
    BY <1>1, <2>2
  <2> QED BY <1>1, <2>1, <2>2
<1>4. ASSUME NEW i \in DOMAIN t, NEW j \in DOMAIN t, i < j PROVE Below(h, w, t[i], t[j])
  <2>1. i \in DOMAIN s /\ t[i] = s[i]
    BY <1>1, <1>4
  <2>2. CASE j \in DOMAIN s
    BY <1>1, <1>4, <2>1, <2>2 DEF StackOrder
  <2>3. CASE j = Len(s) + 1 /\ i = Len(s)
    BY <1>1, <2>1, <2>3
  <2>4. CASE j = Len(s) + 1 /\ i < Len(s)
    <3>1. Below(h, w, s[i], s[Len(s)])
      BY <1>1, <2>1, <2>4 DEF StackOrder
    <3>2. s[Len(s)].lo <= f.lo
      BY DEF Below
    <3> QED BY <1>1, <1>2, <2>1, <2>4, <3>1, <3>2, SameNodes, BelowAgree
  <2> QED BY <1>1, <2>1, <2>2, <2>3, <2>4
<1>5. StackOrder(h, p, w, t)
  BY <1>3, <1>4 DEF StackOrder
<1> QED BY <1>5 DEF t

Popped(s) == SubSeq(s, 1, Len(s) - 1)
LEMMA PoppedFrames ==
    ASSUME NEW s \in Stacks, s # <<>>
    PROVE  /\ Popped(s) \in Stacks /\ Len(Popped(s)) = Len(s) - 1 /\ Len(s) \in Nat \ {0}
           /\ DOMAIN Popped(s) = 1..(Len(s) - 1) /\ DOMAIN Popped(s) \subseteq DOMAIN s
           /\ DOMAIN s = 1..Len(s)
           /\ \A i \in DOMAIN Popped(s) : Popped(s)[i] = s[i]
           /\ \A i \in DOMAIN s : s[i] \in Frames(Labels) /\ s[i].lo \in Nat
<1>1. s \in Seq(Frames(Labels))
  BY DEF Stacks
<1>2. \A i \in DOMAIN s : s[i] \in Frames(Labels) /\ s[i].lo \in Nat
  BY <1>1, FrameType
<1>3. Len(s) \in Nat \ {0} /\ DOMAIN s = 1..Len(s)
  BY <1>1
<1>4. /\ Popped(s) \in Seq(Frames(Labels)) /\ Len(Popped(s)) = Len(s) - 1
      /\ DOMAIN Popped(s) = 1..(Len(s) - 1)
      /\ \A i \in DOMAIN Popped(s) : Popped(s)[i] = s[i]
  BY <1>1, <1>3 DEF Popped
<1> QED BY <1>2, <1>3, <1>4 DEF Stacks

LEMMA PopOrder ==
    ASSUME NEW h \in Heaps, NEW g \in Heaps, NEW m \in Nat, Agree(h, g, m),
           NEW p \in Nat, NEW q \in Nat, p <= q, NEW w,
           NEW s \in Stacks, s # <<>>, StackOrder(h, p, w, s),
           \A i \in DOMAIN Popped(s) : AllUpTo(s[i].kids, m)
    PROVE  StackOrder(g, q, w, Popped(s))
<1> DEFINE t == Popped(s)
<1>1. /\ DOMAIN t = 1..(Len(s) - 1) /\ DOMAIN t \subseteq DOMAIN s
      /\ \A i \in DOMAIN t : t[i] = s[i] /\ s[i] \in Frames(Labels) /\ s[i].lo \in Nat
  BY PoppedFrames
<1>0. \A i \in DOMAIN t : AllUpTo(s[i].kids, m)
  OBVIOUS
<1> HIDE DEF t
<1>2. \A i \in DOMAIN t : FrameOrder(h, p, w, s[i])
  BY <1>1 DEF StackOrder
<1>3. \A i \in DOMAIN t : FrameOrder(g, q, w, t[i])
  BY <1>0, <1>1, <1>2, FrameAgree
<1>4. ASSUME NEW i \in DOMAIN t, NEW j \in DOMAIN t, i < j PROVE Below(g, w, t[i], t[j])
  <2>1. Below(h, w, s[i], s[j])
    BY <1>1, <1>4 DEF StackOrder
  <2>2. s[j].lo <= s[j].lo
    BY <1>1
  <2> QED BY <1>0, <1>1, <1>2, <2>1, <2>2, BelowAgree
<1>5. StackOrder(g, q, w, t)
  BY <1>3, <1>4 DEF StackOrder
<1> QED BY <1>5 DEF t

LEMMA ReturnOrder ==
    ASSUME NEW h \in Heaps, NEW g \in Heaps, NEW r \in DOMAIN g, r = Len(g),
           Agree(h, g, r - 1),
           NEW p \in Nat, NEW q \in Nat, p <= q, NEW w,
           NEW s \in Stacks, s # <<>>, StackOrder(h, p, w, s),
           \A i \in DOMAIN Popped(s) : AllUpTo(s[i].kids, r - 1),
           s[Len(s)].lo <= g[r].lo, g[r].hi <= q
    PROVE  /\ StackOrder(g, q, w, Popped(s))
           /\ Popped(s) # <<>> => Returned(g, q, w, Popped(s), r)
<1> DEFINE t    == Popped(s)
           last == Len(s)
           m    == r - 1
<1>1. /\ DOMAIN t = 1..(last - 1) /\ DOMAIN t \subseteq DOMAIN s /\ last \in DOMAIN s
      /\ Len(t) = last - 1
      /\ \A i \in DOMAIN t : t[i] = s[i]
      /\ \A i \in DOMAIN s : s[i] \in Frames(Labels) /\ s[i].lo \in Nat
  BY PoppedFrames
<1>2. r \in Nat /\ m \in Nat /\ g[r].lo \in Nat
  BY NodeType
<1>0. Agree(h, g, m) /\ \A i \in DOMAIN t : AllUpTo(s[i].kids, m)
  OBVIOUS
<1>3. StackOrder(g, q, w, t)
  BY <1>0, <1>2, PopOrder
<1> HIDE DEF last, m, t
<1>4. ASSUME t # <<>> PROVE Returned(g, q, w, t, r)
  <2> DEFINE f == t[Len(t)]
  <2>1. Len(t) \in DOMAIN t /\ Len(t) < last /\ f = s[Len(t)]
    BY <1>1, <1>4 DEF last
  <2>2. f \in Frames(Labels) /\ f.lo \in Nat /\ f.kids \in Seq(Nat) /\ s[last].lo \in Nat
    BY <1>1, <2>1 DEF Frames
  <2>3. Below(h, w, f, s[last])
    BY <1>1, <2>1 DEF StackOrder
  <2>4. FrameOrder(g, q, w, f) /\ FrameOrder(h, p, w, f)
    BY <1>1, <1>3, <2>1 DEF StackOrder
  <2>5. AllUpTo(f.kids, m)
    BY <1>0, <1>1, <2>1
  <2> HIDE DEF f
  <2>6. Below(g, w, f, s[last])
    BY <1>0, <1>1, <1>2, <2>2, <2>3, <2>4, <2>5, BelowAgree
  <2>7. s[last].lo <= g[r].lo
    BY DEF last
  <2>8. f.lo <= g[r].lo /\ AllBefore(g, f.kids, s[last].lo, Seam(IsLoose(f.pc), w))
    BY <1>2, <2>2, <2>6, <2>7 DEF Below
  <2>9. AllBefore(g, f.kids, g[r].lo, Seam(IsLoose(f.pc), w))
    BY <1>2, <2>2, <2>4, <2>7, <2>8, AllBeforeLater DEF FrameOrder
  <2>10. Alone(t, r)
    BY <1>0, <1>1 DEF Alone, m
  <2> QED BY <2>8, <2>9, <2>10 DEF Returned, f
<1> QED BY <1>3, <1>4 DEF t
-----------------------------------------------------------------------------
(* The moves, one after the other.                                         *)
LEMMA SamePlaces == input' = input => FramePlaces' = FramePlaces
BY DEF FramePlaces, Tok

LEMMA TypesHere ==
    ASSUME IInv
    PROVE  /\ heap \in Heaps /\ stack \in Stacks /\ pos \in Nat /\ errors \in Seq(Nat)
           /\ Top = stack[Len(stack)]
BY DEF IInv, MachineInv, MachineTypeOK, Heaps, Stacks, Top

LEMMA OrderHere ==
    ASSUME IInv, OrderInv, stack # <<>>
    PROVE  /\ Top \in Frames(Labels) /\ Top.lo \in Nat /\ Top.kids \in Seq(Nat)
           /\ Top.lo <= pos
           /\ InOrder(heap, Top.kids, Top.lo, pos, Seam(IsLoose(Top.pc), FramePlaces))
           /\ Top.pc = "parseCallExpression" => AllBefore(heap, Top.kids, pos, {})
<1>1. Len(stack) \in DOMAIN stack
  BY TypesHere, Lengths
<1>2. FrameOrder(heap, pos, FramePlaces, Top)
  BY <1>1, TypesHere DEF OrderInv, FramesOrder, StackOrder
<1>3. Top \in Frames(Labels)
  BY <1>1, TypesHere, Lengths
<1> QED BY <1>2, <1>3 DEF FrameOrder, Frames

LEMMA ResultHere ==
    ASSUME IInv, OrderInv, stack # <<>>, Top.pc \in AwaitsResult
    PROVE  /\ ret \in Nat
           /\ ret # NIL => /\ ret \in DOMAIN heap /\ ret = Len(heap) /\ Alone(stack, ret)
                           /\ Placed(heap, ret, Top.lo, pos)
                           /\ AllBefore(heap, Top.kids, heap[ret].lo,
                                        Seam(IsLoose(Top.pc), FramePlaces))
<1>1. ret \in Nat
  BY WithResult
<1>2. ASSUME ret # NIL PROVE Returned(heap, pos, FramePlaces, stack, ret)
  BY <1>2 DEF OrderInv, ResultOrder
<1>3. ASSUME ret # NIL PROVE ret \in DOMAIN heap
  BY <1>1, <1>2, <1>3, TypesHere DEF Returned, NIL, Heaps
<1> QED BY <1>1, <1>2, <1>3, TypesHere DEF Returned, Placed

(* Every call below the top awaits a result.                               *)
LEMMA CallersAwait ==
    ASSUME IInv, OrderInv, stack # <<>>, stack' = Popped(stack), stack' # <<>>
    PROVE  Top'.pc \in AwaitsResult /\ Top' = stack[Len(stack) - 1]
           /\ Len(stack) - 1 \in DOMAIN stack
<1> DEFINE n == Len(stack)
<1>1. /\ n \in Nat \ {0} /\ Len(stack') = n - 1 /\ n - 1 \in DOMAIN stack' /\ DOMAIN stack = 1..n
      /\ stack'[n - 1] = stack[n - 1] /\ n - 1 \in DOMAIN stack /\ n \in DOMAIN stack
  BY TypesHere, PoppedFrames DEF Stacks
<1>2. Below(heap, FramePlaces, stack[n - 1], stack[n])
  BY <1>1 DEF OrderInv, FramesOrder, StackOrder
<1> QED BY <1>1, <1>2 DEF Top, Below

LEMMA KeptOrder ==
    ASSUME IInv, OrderInv, stack # <<>>, NEW kids, Kept(kids)
    PROVE  /\ kids \in Seq(Nat)
           /\ InOrder(heap, kids, Top.lo, pos, Seam(IsLoose(Top.pc), FramePlaces))
           /\ AllUpTo(kids, Len(heap))
<1> DEFINE seam == Seam(IsLoose(Top.pc), FramePlaces)
<1>1. kids \in Seq(Nat)
  BY KeptType
<1>2. /\ InOrder(heap, <<>>, Top.lo, pos, seam)
      /\ InOrder(heap, <<NIL>>, Top.lo, pos, seam)
      /\ InOrder(heap, Top.kids, Top.lo, pos, seam)
  BY OrderHere DEF InOrder, Placed, Before
<1>3. ASSUME Top.pc \in AwaitsResult PROVE InOrder(heap, Got, Top.lo, pos, seam)
  BY <1>2, <1>3, TypesHere, OrderHere, ResultHere, AppendInOrder DEF Got
<1>4. InOrder(heap, kids, Top.lo, pos, seam)
  BY <1>2, <1>3 DEF Kept, GotIfAny
<1> QED BY <1>1, <1>4, TypesHere, InOrderBound

LEMMA CallOrder ==
    ASSUME IInv, OrderInv, stack # <<>>,
           NEW k \in Nat, NEW pc \in Labels, NEW kids \in Seq(Nat), NEW fn \in Labels,
           NEW prec \in Nat, CallMove(k, pc, kids, fn, prec)
    PROVE  OrderInv'
<1> DEFINE caller == Frame(pc, Top.prec, Top.at, Top.lo, kids)
           callee == Frame(fn, prec, pos + k, pos + k, <<>>)
           under  == [stack EXCEPT ![Len(stack)] = caller]
           w      == FramePlaces
           q      == pos + k
<1>1. /\ stack' = Append(under, callee) /\ pos' = q
      /\ UNCHANGED <<input, ret, heap, errors>>
  BY DEF CallMove, CallFrame, Resume
<1>2. /\ caller.lo = Top.lo /\ caller.pc = pc /\ caller.kids = kids
      /\ callee.lo = q /\ callee.pc = fn /\ callee.kids = <<>>
  BY DEF Frame
<1>3. caller \in Frames(Labels) /\ callee \in Frames(Labels) /\ q \in Nat
  BY TypesHere, OrderHere DEF Frame, Frames
<1>4. /\ under \in Stacks /\ Len(under) = Len(stack) /\ under # <<>>
      /\ under[Len(under)] = caller /\ stack' # <<>> /\ Top' = callee
  BY <1>1, <1>3, TypesHere DEF Stacks, Top
<1>5. Kept(kids) /\ pc \in AwaitsResult /\ ~ IsLoose(Top.pc) /\ fn \in Functions
  BY DEF CallMove, Link, Hands
<1> HIDE DEF caller, callee, under, q
<1>6. Seam(IsLoose(Top.pc), w) \subseteq Seam(IsLoose(pc), w)
  BY <1>5 DEF Seam
<1>7. FrameOrder(heap, q, w, caller)
  <2>1. /\ Top.lo \in Nat /\ Top.lo <= q /\ pos \in Nat /\ pos <= q
        /\ InOrder(heap, kids, Top.lo, pos, Seam(IsLoose(Top.pc), w))
        /\ AllUpTo(kids, Len(heap)) /\ Len(heap) \in Nat /\ heap \in Heaps
    BY <1>5, TypesHere, OrderHere, KeptOrder DEF q, Heaps
  <2>2. InOrder(heap, kids, Top.lo, q, Seam(IsLoose(pc), w))
    BY <1>3, <1>6, <2>1, SameNodes, InOrderAgree
  <2>3. pc # "parseCallExpression"
    BY <1>5 DEF AwaitsResult
  <2> QED BY <1>2, <2>1, <2>2, <2>3 DEF FrameOrder
<1>8. FrameOrder(heap, q, w, callee)
  BY <1>2, <1>3 DEF FrameOrder, InOrder, AllBefore
<1>9. Below(heap, w, caller, callee)
  <2>1. /\ Top.lo \in Nat /\ Top.lo <= q /\ pos \in Nat
        /\ InOrder(heap, kids, Top.lo, pos, {}) /\ heap \in Heaps
    BY <1>5, TypesHere, OrderHere, KeptOrder DEF q, Seam
  <2>2. AllBefore(heap, kids, q, Seam(IsLoose(pc), w))
    <3>1. CASE k # 0
      BY <1>3, <2>1, <3>1, InOrderAfter DEF q
    <3>2. CASE kids = <<>>
      BY <3>2 DEF AllBefore
    <3>3. CASE k = 0 /\ Top.pc = "parseCallExpression"
      <4>1. AllBefore(heap, Top.kids, pos, {}) /\ q = pos
        BY <3>3, OrderHere, TypesHere DEF q
      <4>2. kids \in {<<>>, <<NIL>>, Top.kids}
        BY <1>5, <3>3 DEF Kept, AwaitsResult
      <4> QED BY <4>1, <4>2 DEF AllBefore, Before
    <3>4. CASE k = 0 /\ Cur \in FrameWords /\ pc = "parseOverClause.Framed"
      <4>1. q = pos /\ q \in Seam(IsLoose(pc), w)
        BY <3>4, TypesHere DEF q, Seam, IsLoose, w, FramePlaces, Cur
      <4> QED BY <2>1, <4>1, NodeType DEF InOrder, Placed, AllBefore, Before
    <3> QED BY <3>1, <3>2, <3>3, <3>4 DEF CallMove, Hands
  <2> QED BY <1>2, <1>5, <2>1, <2>2 DEF Below
<1>10. StackOrder(heap, q, w, stack')
  <2>1. StackOrder(heap, q, w, under)
    <3>1. StackOrder(heap, pos, w, stack) /\ pos <= q /\ pos \in Nat
      BY TypesHere DEF OrderInv, FramesOrder, q
    <3> QED BY <1>2, <1>3, <1>7, <3>1, TypesHere, SameNodes, ReplaceOrder DEF under
  <2> QED BY <1>1, <1>3, <1>4, <1>8, <1>9, <2>1, TypesHere, PushOrder
<1>11. FramesOrder' /\ NodesOrder'
  BY <1>1, <1>10, SamePlaces DEF FramesOrder, NodesOrder, OrderInv
<1>12. ResultOrder' /\ LeftOrder' /\ ResultIsThere'
  BY <1>2, <1>4, <1>5 DEF ResultOrder, LeftOrder, ResultIsThere, Functions, At, Finished, InfixFns
<1> QED BY <1>11, <1>12 DEF OrderInv

LEMMA TopReplaced ==
    ASSUME IInv, OrderInv, stack # <<>>, NEW f \in Frames(Labels),
           stack' = [stack EXCEPT ![Len(stack)] = f], f.lo = Top.lo,
           heap' \in Heaps, Agree(heap, heap', Len(heap)),
           pos' \in Nat, pos <= pos', input' = input,
           FrameOrder(heap', pos', FramePlaces, f),
           f.pc \notin AwaitsResult, f.pc # "parseAtTimeZoneExpression"
    PROVE  FramesOrder' /\ ResultOrder' /\ LeftOrder' /\ ResultIsThere'
<1>1. stack' # <<>> /\ Top' = f
  BY TypesHere, Lengths DEF Top, Stacks
<1>2. StackOrder(heap', pos', FramePlaces, stack')
  <2>1. StackOrder(heap, pos, FramePlaces, stack)
    BY DEF OrderInv, FramesOrder
  <2> QED BY <2>1, TypesHere, ReplaceOrder
<1>3. FramesOrder'
  BY <1>2, SamePlaces DEF FramesOrder
<1> QED BY <1>1, <1>3 DEF ResultOrder, LeftOrder, ResultIsThere, At, Finished

LEMMA GoOrder ==
    ASSUME IInv, OrderInv, stack # <<>>,
           NEW k \in Nat, NEW pc \in Labels, NEW kids \in Seq(Nat), GoMove(k, pc, kids)
    PROVE  OrderInv'
<1> DEFINE f == Frame(pc, Top.prec, Top.at, Top.lo, kids)
           q == pos + k
<1>1. /\ stack' = [stack EXCEPT ![Len(stack)] = f] /\ pos' = q
      /\ UNCHANGED <<input, ret, heap, errors>>
  BY DEF GoMove, Continue, Resume
<1>2. f.lo = Top.lo /\ f.pc = pc /\ f.kids = kids
  BY DEF Frame
<1>3. f \in Frames(Labels) /\ q \in Nat /\ pos <= q /\ pos \in Nat
  BY TypesHere, OrderHere DEF Frame, Frames
<1>4. /\ Kept(kids) /\ pc \notin AwaitsResult
      /\ IsLoose(Top.pc) => IsLoose(pc)
      /\ pc # "parseCallExpression" /\ pc # "parseAtTimeZoneExpression"
  BY DEF GoMove, Way, Functions, InfixFns
<1> HIDE DEF f, q
<1>5. FrameOrder(heap, q, FramePlaces, f)
  <2>1. /\ Top.lo \in Nat /\ Top.lo <= q /\ pos \in Nat /\ pos <= q
        /\ InOrder(heap, kids, Top.lo, pos, Seam(IsLoose(Top.pc), FramePlaces))
        /\ AllUpTo(kids, Len(heap)) /\ Len(heap) \in Nat /\ heap \in Heaps
    BY <1>3, <1>4, TypesHere, OrderHere, KeptOrder DEF Heaps
  <2>2. Seam(IsLoose(Top.pc), FramePlaces) \subseteq Seam(IsLoose(pc), FramePlaces)
    BY <1>4 DEF Seam
  <2>3. InOrder(heap, kids, Top.lo, q, Seam(IsLoose(pc), FramePlaces))
    BY <1>3, <2>1, <2>2, SameNodes, InOrderAgree
  <2> QED BY <1>2, <1>4, <2>1, <2>3 DEF FrameOrder
<1>6. FramesOrder' /\ ResultOrder' /\ LeftOrder' /\ ResultIsThere'
  BY <1>1, <1>2, <1>3, <1>4, <1>5, TypesHere, SameNodes, TopReplaced
<1>7. NodesOrder'
  BY <1>1, SamePlaces DEF NodesOrder, OrderInv
<1> QED BY <1>6, <1>7 DEF OrderInv

(* return nil: the calls below are left alone.                             *)
LEMMA NilReturned ==
    ASSUME IInv, OrderInv, stack # <<>>, Pop, ret' = NIL,
           pos' \in Nat, pos <= pos', UNCHANGED <<input, heap>>
    PROVE  OrderInv'
<1>1. stack' = Popped(stack)
  BY DEF Pop, Popped
<1>2. StackOrder(heap, pos', FramePlaces, stack')
  <2>1. StackOrder(heap, pos, FramePlaces, stack) /\ heap \in Heaps /\ Len(heap) \in Nat
    BY TypesHere DEF OrderInv, FramesOrder, Heaps
  <2>2. \A i \in DOMAIN Popped(stack) : AllUpTo(stack[i].kids, Len(heap))
    BY <2>1, TypesHere, PoppedFrames, KidsUpTo
  <2> QED BY <1>1, <2>1, <2>2, TypesHere, SameNodes, PopOrder
<1>3. FramesOrder' /\ NodesOrder'
  BY <1>2, SamePlaces DEF FramesOrder, NodesOrder, OrderInv
<1>4. LeftOrder'
  BY <1>1, CallersAwait DEF LeftOrder, At, AwaitsResult
<1> QED BY <1>3, <1>4 DEF OrderInv, ResultOrder, ResultIsThere

LEMMA FailOrder ==
    ASSUME IInv, OrderInv, stack # <<>>, NEW e \in Nat, NEW k \in Nat, Fail(e, k)
    PROVE  OrderInv'
BY NilReturned, TypesHere DEF Fail

LEMMA PanicOrder ==
    ASSUME IInv, OrderInv, stack # <<>>, PanicMove
    PROVE  OrderInv'
<1>1. stack' = <<>> /\ ret' = Panicked /\ UNCHANGED <<input, pos, heap, errors>>
  BY DEF PanicMove, Panic
<1>2. NodesOrder'
  BY <1>1, SamePlaces DEF NodesOrder, OrderInv
<1> QED BY <1>1, <1>2 DEF OrderInv, FramesOrder, StackOrder, ResultOrder, LeftOrder,
                          At, ResultIsThere

(* return node: the youngest one, from the text of the call.               *)
LEMMA NodeReturned ==
    ASSUME IInv, OrderInv, stack # <<>>, Pop, heap' \in Heaps,
           NEW r \in DOMAIN heap', r = Len(heap'), ret' = r,
           Agree(heap, heap', r - 1), input' = input,
           NEW q \in Nat, pos' = q, pos <= q,
           \A i \in 1..(Len(stack) - 1) : AllUpTo(stack[i].kids, r - 1),
           Top.lo <= heap'[r].lo, heap'[r].hi <= q
    PROVE  FramesOrder' /\ ResultOrder' /\ LeftOrder' /\ ResultIsThere'
<1>1. stack' = Popped(stack)
  BY DEF Pop, Popped
<1>2. /\ StackOrder(heap, pos, FramePlaces, stack)
      /\ \A i \in DOMAIN Popped(stack) : AllUpTo(stack[i].kids, r - 1)
      /\ stack[Len(stack)].lo <= heap'[r].lo
  BY TypesHere, PoppedFrames DEF OrderInv, FramesOrder
<1>3. /\ StackOrder(heap', q, FramePlaces, stack')
      /\ stack' # <<>> => Returned(heap', q, FramePlaces, stack', r)
  BY <1>1, <1>2, TypesHere, ReturnOrder
<1>4. FramesOrder' /\ ResultOrder'
  BY <1>3, SamePlaces DEF FramesOrder, ResultOrder
<1>5. LeftOrder' /\ ResultIsThere'
  BY <1>1, CallersAwait DEF LeftOrder, At, AwaitsResult, ResultIsThere
<1> QED BY <1>4, <1>5

LEMMA NodeAgree ==
    ASSUME NEW h \in Heaps, NEW g \in Heaps, NEW m \in Nat, Agree(h, g, m), NEW w,
           NEW n \in DOMAIN h, n <= m + 1, NodeOrder(h, w, n),
           NEW k \in DOMAIN g, k = n, g[k].kids = h[n].kids, g[k].kind = h[n].kind,
           g[k].lo <= h[n].lo, h[n].hi <= g[k].hi
    PROVE  NodeOrder(g, w, k)
<1>1. /\ h[n].lo \in Nat /\ h[n].hi \in Nat /\ g[k].lo \in Nat /\ g[k].hi \in Nat
      /\ h[n].kids \in Seq(Nat) /\ n \in Nat
  BY NodeType
<1>2. /\ h[n].lo <= h[n].hi /\ AllUpTo(h[n].kids, n - 1)
      /\ InOrder(h, h[n].kids, h[n].lo, h[n].hi, Seam(h[n].kind = "Over", w))
  BY DEF NodeOrder
<1>3. AllUpTo(h[n].kids, m)
  BY <1>1, <1>2 DEF AllUpTo
<1>4. InOrder(g, h[n].kids, g[k].lo, g[k].hi, Seam(h[n].kind = "Over", w))
  BY <1>1, <1>2, <1>3, InOrderAgree
<1> QED BY <1>1, <1>2, <1>4 DEF NodeOrder

(* A new node at the end of the heap.                                      *)
LEMMA NodeAppended ==
    ASSUME IInv, OrderInv, stack # <<>>, heap' \in Heaps, input' = input,
           NEW node, heap' = Append(heap, node), node.lo = Top.lo,
           pos <= node.hi, Kept(node.kids), IsLoose(Top.pc) => node.kind = "Over"
    PROVE  /\ NodesOrder' /\ Agree(heap, heap', Len(heap))
           /\ Len(heap') = Len(heap) + 1 /\ Len(heap') \in DOMAIN heap'
           /\ heap'[Len(heap) + 1] = node
<1> DEFINE m == Len(heap)
           w == FramePlaces
<1>1. /\ m \in Nat /\ DOMAIN heap = 1..m /\ DOMAIN heap' = 1..(m + 1) /\ Len(heap') = m + 1
      /\ heap'[m + 1] = node
      /\ \A n \in DOMAIN heap : heap'[n] = heap[n] /\ n \in DOMAIN heap'
  BY TypesHere DEF Heaps
<1>2. Agree(heap, heap', m)
  BY <1>1 DEF Agree
<1>3. node.lo \in Nat /\ node.hi \in Nat
  <2>1. m + 1 \in DOMAIN heap'
    BY <1>1
  <2> QED BY <1>1, <2>1, NodeType
<1> HIDE DEF m
<1>4. ASSUME NEW n \in DOMAIN heap PROVE NodeOrder(heap', w, n)
  <2>1. /\ n \in Nat /\ n <= m + 1 /\ heap[n].lo \in Nat /\ heap[n].hi \in Nat
        /\ n \in DOMAIN heap' /\ heap'[n] = heap[n]
    BY <1>1, TypesHere, NodeType DEF m
  <2>2. heap[n].lo <= heap[n].lo /\ heap[n].hi <= heap[n].hi
    BY <2>1
  <2>3. NodeOrder(heap, w, n)
    BY DEF OrderInv, NodesOrder
  <2> QED BY <1>1, <1>2, <2>1, <2>2, <2>3, TypesHere, NodeAgree
<1>5. NodeOrder(heap', w, m + 1)
  <2>1. /\ Top.lo \in Nat /\ Top.lo <= pos /\ pos \in Nat
        /\ node.kids \in Seq(Nat) /\ AllUpTo(node.kids, m)
        /\ InOrder(heap, node.kids, Top.lo, pos, Seam(IsLoose(Top.pc), w))
    BY TypesHere, OrderHere, KeptOrder DEF m
  <2>2. Seam(IsLoose(Top.pc), w) \subseteq Seam(node.kind = "Over", w)
    BY DEF Seam
  <2>3. InOrder(heap', node.kids, Top.lo, node.hi, Seam(node.kind = "Over", w))
    BY <1>1, <1>2, <1>3, <2>1, <2>2, TypesHere, InOrderAgree
  <2>4. AllUpTo(node.kids, (m + 1) - 1) /\ Top.lo <= node.hi
    BY <1>1, <1>3, <2>1
  <2> QED BY <1>1, <2>3, <2>4 DEF NodeOrder
<1>6. NodesOrder'
  <2>1. \A n \in DOMAIN heap' : NodeOrder(heap', w, n)
    BY <1>1, <1>4, <1>5
  <2> QED BY <2>1, SamePlaces DEF NodesOrder
<1> QED BY <1>1, <1>2, <1>6 DEF m

LEMMA BuildOrder ==
    ASSUME IInv, IInv', OrderInv, stack # <<>>,
           NEW kind \in Kinds, NEW at \in Nat, NEW kids \in Seq(Nat),
           NEW hi \in Nat, NEW k \in Nat,
           BuildMove(kind, at, kids, hi, k)
    PROVE  OrderInv'
<1> DEFINE node == Node(kind, at, kids, hi)
           q    == pos + k
           r    == Len(heap) + 1
<1>1. /\ heap' = Append(heap, node) /\ ret' = r /\ pos' = q /\ Pop /\ input' = input
      /\ Kept(kids)
      /\ IsLoose(Top.pc) => kind = "Over"
  BY DEF BuildMove, BuildTo, Builds
<1>2. node.kids = kids /\ node.kind = kind /\ node.lo = Top.lo /\ node.hi = hi
  BY DEF Node
<1>3. q \in Nat /\ pos <= q /\ heap' \in Heaps /\ Len(heap) \in Nat
      /\ pos <= hi /\ hi <= q
  BY TypesHere DEF Heaps, IInv, MachineInv, MachineTypeOK, BuildMove
<1> HIDE DEF node, q
<1>4. /\ NodesOrder' /\ Agree(heap, heap', Len(heap))
      /\ Len(heap') = r /\ r \in DOMAIN heap' /\ heap'[r] = node
  BY <1>1, <1>2, <1>3, NodeAppended
<1>5. \A i \in 1..(Len(stack) - 1) : AllUpTo(stack[i].kids, Len(heap))
  BY TypesHere, PoppedFrames, KidsUpTo DEF OrderInv, FramesOrder
<1>6. r - 1 = Len(heap) /\ Top.lo <= heap'[r].lo /\ heap'[r].hi <= q
  BY <1>2, <1>3, <1>4, OrderHere
<1>7. FramesOrder' /\ ResultOrder' /\ LeftOrder' /\ ResultIsThere'
  BY <1>1, <1>3, <1>4, <1>5, <1>6, NodeReturned
<1> QED BY <1>4, <1>7 DEF OrderInv

(* The panic in a nested SELECT leaves a node behind.                      *)
LEMMA SelectOrder ==
    ASSUME IInv, IInv', OrderInv, stack # <<>>, SelectMove
    PROVE  OrderInv'
<1>1. PICK k \in Nat : SelectPanics(k)
  BY DEF SelectMove
<1> DEFINE node == Node("Select", Top.at, <<NIL>>, pos + k)
<1>2. /\ heap' = Append(heap, node) /\ input' = input
      /\ stack' = <<>> /\ ret' = Panicked
      /\ Top.pc = "parseSelectStatement"
  BY <1>1 DEF SelectMove, SelectPanics, At
<1>3. /\ node.kids = <<NIL>> /\ node.lo = Top.lo /\ node.hi = pos + k
      /\ pos <= pos + k /\ heap' \in Heaps
  BY TypesHere DEF Node, Heaps, IInv, MachineInv, MachineTypeOK
<1> HIDE DEF node
<1>4. Kept(node.kids) /\ ~ IsLoose(Top.pc)
  BY <1>2, <1>3 DEF Kept, IsLoose
<1>5. NodesOrder'
  BY <1>2, <1>3, <1>4, NodeAppended
<1> QED BY <1>2, <1>5 DEF OrderInv, FramesOrder, StackOrder, ResultOrder, LeftOrder,
                          At, ResultIsThere

LEMMA InfixOrder ==
    ASSUME IInv, OrderInv, InfixMove
    PROVE  OrderInv'
<1> DEFINE fn     == InfixFn(Peek)
           caller == Frame("parseExpression.Left", Top.prec, Top.at, Top.lo, <<>>)
           callee == Frame(fn, 0, pos + 1, Top.lo, <<ret>>)
           under  == [stack EXCEPT ![Len(stack)] = caller]
           w      == FramePlaces
           q      == pos + 1
<1>1. /\ stack # <<>> /\ Top.pc = "parseExpression.Left"
      /\ stack' = Append(under, callee) /\ pos' = q
      /\ UNCHANGED <<input, ret, heap, errors>>
  BY DEF InfixMove, CallFrame, Resume, At
<1>2. /\ caller.lo = Top.lo /\ caller.pc = "parseExpression.Left" /\ caller.kids = <<>>
      /\ callee.lo = Top.lo /\ callee.pc = fn /\ callee.kids = <<ret>>
  BY DEF Frame
<1>3. /\ ret \in Nat
      /\ ret # NIL => /\ ret \in DOMAIN heap /\ ret = Len(heap) /\ Alone(stack, ret)
                      /\ Placed(heap, ret, Top.lo, pos)
  BY <1>1, ResultHere DEF AwaitsResult
<1>4. fn \in Labels \ AwaitsResult
  BY InfixFnType DEF InfixMove
<1>5. /\ caller \in Frames(Labels) /\ callee \in Frames(Labels) /\ q \in Nat
      /\ pos \in Nat /\ Top.lo \in Nat /\ Top.lo <= pos /\ pos < q
  <2>1. "parseExpression.Left" \in Labels
    BY DEF Labels, AwaitsResult
  <2> QED BY <1>1, <1>3, <1>4, <2>1, TypesHere, OrderHere DEF Frame, Frames
<1>6. /\ under \in Stacks /\ Len(under) = Len(stack) /\ under # <<>>
      /\ under[Len(under)] = caller /\ stack' # <<>> /\ Top' = callee
      /\ Len(stack') = Len(stack) + 1
      /\ \A i \in 1..Len(stack) : stack'[i] = under[i]
      /\ \A i \in 1..Len(stack) : i \in DOMAIN stack /\ (under[i] = stack[i] \/ under[i] = caller)
  BY <1>1, <1>5, TypesHere DEF Stacks, Top
<1> HIDE DEF caller, callee, under, q, fn
<1>7. FrameOrder(heap, q, w, caller)
  BY <1>2, <1>5 DEF FrameOrder, InOrder, AllBefore
<1>8. FrameOrder(heap, q, w, callee)
  <2>1. ret # NIL => heap[ret].hi \in Nat /\ heap[ret].hi < q /\ Top.lo <= heap[ret].lo
    BY <1>3, <1>5, TypesHere, NodeType DEF Placed
  <2>2. InOrder(heap, <<ret>>, Top.lo, q, Seam(IsLoose(fn), w))
    BY <1>3, <1>5, <2>1 DEF InOrder, Placed, Before
  <2>3. AllBefore(heap, <<ret>>, q, {})
    BY <2>1 DEF AllBefore, Before
  <2> QED BY <1>2, <1>5, <2>2, <2>3 DEF FrameOrder
<1>9. Below(heap, w, caller, callee)
  BY <1>2, <1>5 DEF Below, AllBefore, AwaitsResult
<1>10. StackOrder(heap, q, w, stack')
  <2>1. StackOrder(heap, q, w, under)
    <3>1. StackOrder(heap, pos, w, stack) /\ pos <= q
      BY <1>5 DEF OrderInv, FramesOrder
    <3> QED BY <1>1, <1>2, <1>5, <1>7, <3>1, TypesHere, SameNodes, ReplaceOrder DEF under
  <2> QED BY <1>1, <1>5, <1>6, <1>8, <1>9, <2>1, TypesHere, PushOrder
<1>11. FramesOrder' /\ NodesOrder'
  BY <1>1, <1>10, SamePlaces DEF FramesOrder, NodesOrder, OrderInv
<1>12. LeftOrder'
  <2>1. ASSUME ret # NIL, NEW i \in 1..Len(stack) PROVE AllUpTo(stack'[i].kids, ret - 1)
    BY <1>2, <1>3, <1>6, <2>1 DEF Alone, AllUpTo
  <2>2. Len(Top'.kids) = 1 /\ Top'.kids[1] = ret
    <3>1. Top'.kids = <<ret>>
      BY <1>2, <1>6
    <3>2. Len(<<ret>>) = 1 /\ <<ret>>[1] = ret
      OBVIOUS
    <3> QED BY <3>1, <3>2
  <2>3. Len(stack') - 1 = Len(stack)
    BY <1>6, TypesHere DEF Stacks
  <2> QED BY <1>1, <1>3, <2>1, <2>2, <2>3 DEF LeftOrder
<1>13. ResultOrder' /\ ResultIsThere'
  BY <1>2, <1>4, <1>6 DEF ResultOrder, ResultIsThere, Finished
<1> QED BY <1>11, <1>12, <1>13 DEF OrderInv

(* Returning a node that is there already.                                 *)
LEMMA ReturnedAgain ==
    ASSUME IInv, OrderInv, stack # <<>>, NEW r \in DOMAIN heap, r = Len(heap), Return(r),
           Top.lo <= heap[r].lo, heap[r].hi <= pos,
           \A i \in 1..(Len(stack) - 1) : AllUpTo(stack[i].kids, r - 1)
    PROVE  OrderInv'
<1>1. /\ Pop /\ ret' = r /\ heap' = heap /\ pos' = pos /\ input' = input
      /\ heap \in Heaps /\ pos \in Nat /\ pos <= pos
  BY TypesHere DEF Return
<1>2. FramesOrder' /\ ResultOrder' /\ LeftOrder' /\ ResultIsThere'
  BY <1>1, SameNodes, NodeReturned
<1>3. NodesOrder'
  BY <1>1, SamePlaces DEF NodesOrder, OrderInv
<1> QED BY <1>2, <1>3 DEF OrderInv

LEMMA LeftMoveOrder ==
    ASSUME IInv, OrderInv, LeftMove
    PROVE  OrderInv'
<1>1. stack # <<>> /\ Top.pc \in AwaitsResult /\ Return(ret)
  BY DEF LeftMove, At, AwaitsResult
<1>2. CASE ret = NIL
  BY <1>1, <1>2, NilReturned, TypesHere DEF Return
<1>3. CASE ret # NIL
  <2>1. /\ ret \in DOMAIN heap /\ ret = Len(heap) /\ Alone(stack, ret)
        /\ Placed(heap, ret, Top.lo, pos)
    BY <1>1, <1>3, ResultHere
  <2>2. \A i \in 1..(Len(stack) - 1) : AllUpTo(stack[i].kids, ret - 1)
    BY <1>1, <2>1, TypesHere, PoppedFrames DEF Alone
  <2> QED BY <1>1, <1>3, <2>1, <2>2, ReturnedAgain DEF Placed
<1> QED BY <1>2, <1>3

LEMMA AtOrder ==
    ASSUME IInv, OrderInv, AtMove
    PROVE  OrderInv'
<1> DEFINE v == Top.kids[1]
<1>1. stack # <<>> /\ At("parseAtTimeZoneExpression") /\ Return(v)
  BY DEF AtMove, At
<1>2. /\ Len(Top.kids) = 1
      /\ v # NIL => /\ v = Len(heap)
                    /\ \A i \in 1..(Len(stack) - 1) : AllUpTo(stack[i].kids, v - 1)
  BY <1>1 DEF OrderInv, LeftOrder
<1>3. Placed(heap, v, Top.lo, pos)
  BY <1>1, <1>2, OrderHere DEF InOrder
<1> HIDE DEF v
<1>4. CASE v = NIL
  BY <1>1, <1>4, NilReturned, TypesHere DEF Return
<1>5. CASE v # NIL
  BY <1>1, <1>2, <1>3, <1>5, ReturnedAgain DEF Placed
<1> QED BY <1>4, <1>5

LEMMA NotOrder ==
    ASSUME IInv, OrderInv, NotMove
    PROVE  OrderInv'
<1> DEFINE fn == InfixFn(Peek)
           f  == Frame(fn, Top.prec, pos + 1, Top.lo, Top.kids)
           q  == pos + 1
<1>1. /\ stack # <<>> /\ stack' = [stack EXCEPT ![Len(stack)] = f] /\ pos' = q
      /\ Top.pc = "parseNotInfixExpression"
      /\ UNCHANGED <<input, ret, heap, errors>>
  BY DEF NotMove, TailCall, At
<1>2. f.lo = Top.lo /\ f.pc = fn /\ f.kids = Top.kids
  BY DEF Frame
<1>3. fn \in {"parseInExpression", "parseLikeExpression", "parseBetweenExpression"}
  BY DEF NotMove, InfixFn
<1>4. f \in Frames(Labels) /\ q \in Nat /\ pos <= q /\ pos \in Nat
  <2>1. Top \in Frames(Labels) /\ pos \in Nat
    BY <1>1, TypesHere, OrderHere
  <2>2. fn \in Labels
    BY <1>3 DEF Labels
  <2> QED BY <2>1, <2>2 DEF Frame, Frames
<1> HIDE DEF f, q, fn
<1>5. FrameOrder(heap, q, FramePlaces, f)
  <2>1. /\ Top.lo \in Nat /\ Top.lo <= q /\ pos \in Nat /\ pos <= q /\ Top.kids \in Seq(Nat)
        /\ InOrder(heap, Top.kids, Top.lo, pos, Seam(IsLoose(Top.pc), FramePlaces))
        /\ AllUpTo(Top.kids, Len(heap)) /\ Len(heap) \in Nat /\ heap \in Heaps
    BY <1>1, <1>4, TypesHere, OrderHere, InOrderBound DEF Heaps
  <2>2. Seam(IsLoose(Top.pc), FramePlaces) \subseteq Seam(IsLoose(fn), FramePlaces)
    BY <1>1 DEF Seam, IsLoose
  <2>3. InOrder(heap, Top.kids, Top.lo, q, Seam(IsLoose(fn), FramePlaces))
    BY <1>4, <2>1, <2>2, SameNodes, InOrderAgree
  <2> QED BY <1>2, <1>3, <2>1, <2>3 DEF FrameOrder
<1>6. FramesOrder' /\ ResultOrder' /\ LeftOrder' /\ ResultIsThere'
  <2>1. f.pc \notin AwaitsResult /\ f.pc # "parseAtTimeZoneExpression"
    BY <1>2, <1>3 DEF AwaitsResult
  <2> QED BY <1>1, <1>2, <1>4, <1>5, <2>1, TypesHere, SameNodes, TopReplaced
<1>7. NodesOrder'
  BY <1>1, SamePlaces DEF NodesOrder, OrderInv
<1> QED BY <1>6, <1>7 DEF OrderInv

LEMMA ParenOrder ==
    ASSUME IInv, IInv', OrderInv, ParenMove
    PROVE  OrderInv'
<1>1. stack # <<>> /\ Top.pc \in AwaitsResult /\ DropParentheses
  BY DEF ParenMove, At, AwaitsResult
<1>2. Pop /\ ret' = ret /\ pos' = pos + 1 /\ pos \in Nat /\ input' = input
  BY <1>1, TypesHere DEF DropParentheses
<1>3. CASE ret = NIL
  BY <1>1, <1>2, <1>3, NilReturned DEF DropParentheses
<1>4. CASE ret # NIL
  <2> DEFINE node == InParentheses(heap[ret])
  <2>1. /\ ret \in DOMAIN heap /\ ret = Len(heap) /\ Alone(stack, ret) /\ ret \in Nat
        /\ Top.lo <= heap[ret].lo /\ heap[ret].hi <= pos
    BY <1>1, <1>4, ResultHere DEF Placed
  <2>2. heap' = [heap EXCEPT ![ret] = node]
    BY <1>1, <1>4 DEF DropParentheses
  <2>3. /\ node.lo = Top.lo /\ node.hi = pos + 1
        /\ node.kids = heap[ret].kids /\ node.kind = heap[ret].kind
    BY DEF InParentheses
  <2> HIDE DEF node
  <2>4. /\ DOMAIN heap' = DOMAIN heap /\ Len(heap') = Len(heap) /\ heap'[ret] = node
        /\ \A n \in DOMAIN heap : n # ret => heap'[n] = heap[n]
    BY <2>1, <2>2, TypesHere DEF Heaps
  <2>5. heap' \in Heaps /\ heap \in Heaps /\ ret - 1 \in Nat
    BY <1>4, <2>1, TypesHere DEF Heaps, IInv, MachineInv, MachineTypeOK, NIL
  <2>6. Agree(heap, heap', ret - 1)
    BY <2>1, <2>4 DEF Agree
  <2>7. ASSUME NEW n \in DOMAIN heap PROVE NodeOrder(heap', FramePlaces, n)
    <3>1. n \in Nat /\ n <= (ret - 1) + 1 /\ heap[n].lo \in Nat /\ heap[n].hi \in Nat
      BY <2>1, <2>5, NodeType
    <3>2. heap'[n].lo <= heap[n].lo /\ heap[n].hi <= heap'[n].hi
      BY <1>2, <2>1, <2>3, <2>4, <3>1
    <3>3. heap'[n].kids = heap[n].kids /\ heap'[n].kind = heap[n].kind /\ n \in DOMAIN heap'
      BY <2>3, <2>4
    <3>4. NodeOrder(heap, FramePlaces, n)
      BY DEF OrderInv, NodesOrder
    <3> QED BY <2>5, <2>6, <3>1, <3>2, <3>3, <3>4, NodeAgree
  <2>8. NodesOrder'
    BY <1>2, <2>4, <2>7, SamePlaces DEF NodesOrder
  <2>9. \A i \in 1..(Len(stack) - 1) : AllUpTo(stack[i].kids, ret - 1)
    BY <1>1, <2>1, TypesHere, PoppedFrames DEF Alone
  <2>10. FramesOrder' /\ ResultOrder' /\ LeftOrder' /\ ResultIsThere'
    <3>1. /\ pos + 1 \in Nat /\ pos <= pos + 1 /\ ret \in DOMAIN heap' /\ ret = Len(heap')
          /\ Top.lo <= heap'[ret].lo /\ heap'[ret].hi <= pos + 1
      BY <1>1, <1>2, <2>1, <2>3, <2>4, OrderHere
    <3> QED BY <1>1, <1>2, <2>5, <2>6, <2>9, <3>1, NodeReturned
  <2> QED BY <2>8, <2>10 DEF OrderInv
<1> QED BY <1>3, <1>4

LEMMA NameOrder ==
    ASSUME IInv, IInv', OrderInv, NameMove
    PROVE  OrderInv'
<1> DEFINE node == Node("Identifier", pos, <<>>, pos)
           r    == Len(heap) + 1
           q    == pos + 1
           f    == Frame("parseCallExpression", Top.prec, q, Top.lo, <<r>>)
<1>1. /\ stack # <<>> /\ Top.pc = "parseFunctionLiteral"
      /\ heap' = Append(heap, node) /\ stack' = [stack EXCEPT ![Len(stack)] = f]
      /\ pos' = q /\ input' = input
  BY DEF NameMove, At
<1>2. /\ node.lo = Top.lo /\ node.hi = pos /\ node.kids = <<>>
      /\ f.lo = Top.lo /\ f.pc = "parseCallExpression" /\ f.kids = <<r>>
  BY DEF Node, Frame
<1>3. /\ heap' \in Heaps /\ heap \in Heaps /\ pos \in Nat /\ q \in Nat /\ pos < q /\ r \in Nat
      /\ Top.lo \in Nat /\ Top.lo <= pos
  BY <1>1, TypesHere, OrderHere DEF Heaps, IInv, MachineInv, MachineTypeOK
<1>4. f \in Frames(Labels)
  <2>1. "parseCallExpression" \in Labels
    BY DEF Labels
  <2> QED BY <1>1, <1>3, <2>1, OrderHere DEF Frame, Frames
<1> HIDE DEF node, f, q
<1>5. /\ NodesOrder' /\ Agree(heap, heap', Len(heap))
      /\ Len(heap') = r /\ r \in DOMAIN heap' /\ heap'[r] = node
  <2>1. Kept(node.kids) /\ pos <= node.hi /\ ~ IsLoose(Top.pc)
    BY <1>1, <1>2, <1>3 DEF Kept, IsLoose
  <2> QED BY <1>1, <1>2, <1>3, <2>1, NodeAppended
<1>6. FrameOrder(heap', q, FramePlaces, f)
  <2>1. heap'[r].lo = Top.lo /\ heap'[r].hi = pos
    BY <1>2, <1>5
  <2>2. InOrder(heap', <<r>>, Top.lo, q, Seam(IsLoose(f.pc), FramePlaces))
    BY <1>3, <1>5, <2>1 DEF InOrder, Placed, Before
  <2>3. AllBefore(heap', <<r>>, q, {})
    BY <1>3, <2>1 DEF AllBefore, Before
  <2> QED BY <1>2, <1>3, <2>2, <2>3 DEF FrameOrder
<1>7. FramesOrder' /\ ResultOrder' /\ LeftOrder' /\ ResultIsThere'
  <2>1. f.pc \notin AwaitsResult /\ f.pc # "parseAtTimeZoneExpression"
    BY <1>2 DEF AwaitsResult
  <2>2. pos' \in Nat /\ pos <= pos' /\ FrameOrder(heap', pos', FramePlaces, f)
    BY <1>1, <1>3, <1>6
  <2> QED BY <1>1, <1>2, <1>3, <1>4, <1>5, <2>1, <2>2, TopReplaced
<1> QED BY <1>5, <1>7 DEF OrderInv
-----------------------------------------------------------------------------
LEMMA InitOrder == Init => OrderInv
<1> SUFFICES ASSUME Init PROVE OrderInv
  OBVIOUS
<1>1. /\ heap = <<>> /\ pos = 1 /\ stack = <<Frame("parseExpression", LOWEST, 1, 1, <<>>)>>
  BY DEF Init, InitMachine
<1>2. NodesOrder
  BY <1>1 DEF NodesOrder
<1>3. FramesOrder
  BY <1>1 DEF FramesOrder, StackOrder, FrameOrder, InOrder, AllBefore, Frame
<1>4. ResultOrder /\ LeftOrder /\ ResultIsThere
  BY <1>1 DEF ResultOrder, LeftOrder, ResultIsThere, Finished, At, Top, Frame, AwaitsResult
<1> QED BY <1>2, <1>3, <1>4 DEF OrderInv

LEMMA NextOrder == IInv /\ IInv' /\ OrderInv /\ [Next]_vars => OrderInv'
<1> SUFFICES ASSUME IInv, IInv', OrderInv, [Next]_vars PROVE OrderInv'
  OBVIOUS
<1>1. CASE UNCHANGED vars
  BY <1>1 DEF vars, OrderInv, NodesOrder, FramesOrder, ResultOrder, LeftOrder,
              ResultIsThere, Finished, At, Top, FramePlaces, Tok
<1>2. CASE Move
  BY <1>2, CallOrder, GoOrder, BuildOrder, FailOrder, InfixOrder, LeftMoveOrder, ParenOrder,
     AtOrder, NotOrder, PanicOrder, SelectOrder, NameOrder DEF Move
<1> QED BY <1>1, <1>2, NextMoves

LEMMA InOrderSpans ==
    ASSUME IInv, OrderInv, NEW n \in DOMAIN heap,
           NEW i \in DOMAIN heap[n].kids
    PROVE  LET node == heap[n] IN
           /\ Span(node.kids[i]) \subseteq node.lo..node.hi
           /\ \A j \in 1..(i - 1) : \A a \in Span(node.kids[j]), b \in Span(node.kids[i]) :
                 a < b \/ ReadTwice(node, a, b)
<1> DEFINE node == heap[n]
           seam == Seam(node.kind = "Over", FramePlaces)
           v    == node.kids[i]
<1>1. InOrder(heap, node.kids, node.lo, node.hi, seam)
  BY DEF OrderInv, NodesOrder, NodeOrder
<1>2. node.kids \in Seq(Nat) /\ node.lo \in Nat /\ node.hi \in Nat
  BY TypesHere, NodeType
<1> HIDE DEF seam, node
<1>3. CASE v = NIL
  BY <1>3 DEF Span, node
<1>4. CASE v # NIL
  <2>1. Placed(heap, v, node.lo, node.hi) /\ v \in DOMAIN heap /\ Span(v) = heap[v].lo..heap[v].hi
    BY <1>1, <1>4 DEF InOrder, Placed, Span, node
  <2>2. heap[v].lo \in Nat /\ heap[v].hi \in Nat
    BY <2>1, TypesHere, NodeType
  <2>3. Span(v) \subseteq node.lo..node.hi
    BY <1>2, <1>4, <2>1, <2>2 DEF Placed
  <2>4. ASSUME NEW j \in 1..(i - 1), NEW a \in Span(node.kids[j]), NEW b \in Span(v)
        PROVE  a < b \/ ReadTwice(node, a, b)
    <3> DEFINE u == node.kids[j]
    <3>1. j \in DOMAIN node.kids
      BY <1>2 DEF node
    <3>2. u # NIL
      BY DEF Span
    <3>3. u \in DOMAIN heap /\ Span(u) = heap[u].lo..heap[u].hi
      BY <1>1, <3>1, <3>2 DEF InOrder, Placed, Span
    <3>4. heap[u].lo \in Nat /\ heap[u].hi \in Nat
      BY <3>3, TypesHere, NodeType
    <3>5. Before(heap, u, heap[v].lo, seam)
      BY <1>1, <1>4 DEF InOrder, node
    <3>6. a \in Nat /\ b \in Nat /\ a <= heap[u].hi /\ heap[v].lo <= b
      BY <2>1, <2>2, <3>3, <3>4
    <3>7. CASE heap[u].hi < heap[v].lo
      BY <2>2, <3>4, <3>6, <3>7
    <3>8. CASE heap[u].hi = heap[v].lo /\ heap[v].lo \in seam
      <4>1. node.kind = "Over" /\ Tok(heap[v].lo) \in FrameWords
        BY <3>8 DEF seam, Seam, FramePlaces
      <4>2. a < b \/ (a = b /\ a = heap[v].lo)
        BY <2>2, <3>4, <3>6, <3>8
      <4> QED BY <4>1, <4>2 DEF ReadTwice
    <3> QED BY <3>2, <3>5, <3>7, <3>8 DEF Before
  <2> QED BY <2>3, <2>4 DEF node
<1> QED BY <1>3, <1>4

(* A node's operands are parts of its text, one after the other: the parse *)
(* functions take the operands of a node, and the left side that the loop  *)
(* of parseExpression hands to an infix function, in the order of the      *)
(* source, whatever the input is.                                          *)
THEOREM OperandsInOrder == Spec => []SourceOrder
<1>1. IInv /\ OrderInv => SourceOrder
  BY InOrderSpans DEF SourceOrder
<1> QED BY <1>1, InitIInv, NextIInv, InitOrder, NextOrder, PTL DEF Spec
-----------------------------------------------------------------------------
(* A call at depth i has read enough tokens.                               *)
DepthInv == \A i \in DOMAIN stack : i <= 2 * pos + Slack(stack[i].pc)

LEMMA SlackBounds ==
    ASSUME NEW pc
    PROVE  Slack(pc) \in Int /\ -1 <= Slack(pc) /\ Slack(pc) <= 2
BY DEF Slack

LEMMA DepthPopped ==
    ASSUME IInv, DepthInv, stack # <<>>, Pop, pos' \in Nat, pos <= pos'
    PROVE  DepthInv'
<1> SUFFICES ASSUME NEW i \in DOMAIN stack' PROVE i <= 2 * pos' + Slack(stack'[i].pc)
  BY DEF DepthInv
<1>1. i \in DOMAIN stack /\ stack'[i] = stack[i] /\ i \in Nat /\ pos \in Nat
  BY TypesHere, PoppedFrames DEF Pop, Popped
<1>2. i <= 2 * pos + Slack(stack[i].pc)
  BY <1>1 DEF DepthInv
<1> QED BY <1>1, <1>2, SlackBounds

LEMMA DepthReplaced ==
    ASSUME IInv, DepthInv, stack # <<>>, NEW f,
           stack' = [stack EXCEPT ![Len(stack)] = f], pos' \in Nat, pos <= pos',
           2 * pos + Slack(Top.pc) <= 2 * pos' + Slack(f.pc)
    PROVE  DepthInv'
<1> SUFFICES ASSUME NEW i \in DOMAIN stack' PROVE i <= 2 * pos' + Slack(stack'[i].pc)
  BY DEF DepthInv
<1>1. /\ i \in DOMAIN stack /\ i \in Nat /\ pos \in Nat
      /\ stack'[i] = IF i = Len(stack) THEN f ELSE stack[i]
  BY TypesHere, PoppedFrames
<1>2. i <= 2 * pos + Slack(stack[i].pc)
  BY <1>1 DEF DepthInv
<1>3. Slack(f.pc) \in Int /\ Slack(Top.pc) \in Int /\ Slack(stack[i].pc) \in Int
  BY SlackBounds
<1>4. CASE i = Len(stack)
  BY <1>1, <1>2, <1>3, <1>4, TypesHere
<1>5. CASE i # Len(stack)
  BY <1>1, <1>2, <1>3, <1>5
<1> QED BY <1>4, <1>5

LEMMA DepthPushed ==
    ASSUME IInv, DepthInv, stack # <<>>, NEW k \in Nat, NEW pc, NEW kids, NEW callee,
           CallFrame(k, pc, kids, callee),
           Slack(Top.pc) <= Slack(pc) + 2 * k, Slack(Top.pc) + 1 <= Slack(callee.pc) + 2 * k
    PROVE  DepthInv'
<1> DEFINE caller == Frame(pc, Top.prec, Top.at, Top.lo, kids)
           n      == Len(stack)
<1>1. stack' = Append([stack EXCEPT ![n] = caller], callee) /\ pos' = pos + k
  BY DEF CallFrame, Resume
<1>2. caller.pc = pc
  BY DEF Frame
<1> HIDE DEF caller
<1> SUFFICES ASSUME NEW i \in DOMAIN stack' PROVE i <= 2 * pos' + Slack(stack'[i].pc)
  BY DEF DepthInv
<1>3. n \in DOMAIN stack /\ n \in Nat /\ DOMAIN stack = 1..n /\ pos \in Nat
  BY TypesHere, PoppedFrames
<1>4. /\ i \in 1..(n + 1)
      /\ i <= n => stack'[i] = IF i = n THEN caller ELSE stack[i]
      /\ i = n + 1 => stack'[i] = callee
  BY <1>1, <1>3, TypesHere DEF Stacks
<1>5. \A j \in 1..n : j <= 2 * pos + Slack(stack[j].pc)
  BY <1>3 DEF DepthInv
<1>6. n <= 2 * pos + Slack(Top.pc)
  BY <1>3, <1>5, TypesHere
<1>0. /\ Slack(pc) \in Int /\ Slack(Top.pc) \in Int /\ Slack(callee.pc) \in Int
      /\ \A j \in 1..n : Slack(stack[j].pc) \in Int
  BY SlackBounds
<1>7. CASE i < n
  <2>1. i \in 1..n /\ i \in Nat /\ stack'[i] = stack[i]
    BY <1>3, <1>4, <1>7
  <2>2. i <= 2 * pos + Slack(stack[i].pc) /\ Slack(stack[i].pc) \in Int
    BY <1>0, <1>5, <2>1
  <2> QED BY <1>1, <1>3, <2>1, <2>2
<1>8. CASE i = n
  <2>1. stack'[i].pc = pc
    BY <1>2, <1>4, <1>8, <1>3
  <2> QED BY <1>0, <1>1, <1>3, <1>6, <1>8, <2>1
<1>9. CASE i = n + 1
  <2>1. stack'[i].pc = callee.pc
    BY <1>4, <1>9, <1>3
  <2>2. n + 1 <= 2 * (pos + k) + Slack(callee.pc)
    BY <1>0, <1>3, <1>6
  <2> QED BY <1>1, <1>9, <2>1, <2>2
<1> QED BY <1>3, <1>4, <1>7, <1>8, <1>9

LEMMA NextDepth == IInv /\ DepthInv /\ [Next]_vars => DepthInv'
<1> SUFFICES ASSUME IInv, DepthInv, Move \/ UNCHANGED vars PROVE DepthInv'
  BY NextMoves
<1>1. CASE UNCHANGED vars
  BY <1>1 DEF vars, DepthInv
<1>2. ASSUME NEW k \in Nat, NEW pc \in Labels, NEW kids \in Seq(Nat), NEW fn \in Labels,
             NEW prec \in Nat, stack # <<>>, CallMove(k, pc, kids, fn, prec)
      PROVE  DepthInv'
  BY <1>2, DepthPushed DEF CallMove, Link, Frame
<1>3. ASSUME NEW k \in Nat, NEW pc \in Labels, NEW kids \in Seq(Nat), stack # <<>>,
             GoMove(k, pc, kids)
      PROVE  DepthInv'
  <2> DEFINE f == Frame(pc, Top.prec, Top.at, Top.lo, kids)
  <2>1. stack' = [stack EXCEPT ![Len(stack)] = f] /\ pos' = pos + k /\ f.pc = pc
    BY <1>3 DEF GoMove, Continue, Resume, Frame
  <2>2. Slack(Top.pc) <= Slack(pc) + 2 * k /\ Slack(Top.pc) \in Int /\ Slack(pc) \in Int
    BY <1>3, SlackBounds DEF GoMove, Way
  <2> HIDE DEF f
  <2>3. 2 * pos + Slack(Top.pc) <= 2 * pos' + Slack(f.pc) /\ pos' \in Nat /\ pos <= pos'
    BY <2>1, <2>2, TypesHere
  <2> QED BY <1>3, <2>1, <2>3, DepthReplaced
<1>4. ASSUME NEW kind \in Kinds, NEW at \in Nat, NEW kids \in Seq(Nat), NEW hi \in Nat,
             NEW k \in Nat, stack # <<>>, BuildMove(kind, at, kids, hi, k)
      PROVE  DepthInv'
  BY <1>4, DepthPopped, TypesHere DEF BuildMove, BuildTo
<1>5. ASSUME NEW e \in Nat, NEW k \in Nat, stack # <<>>, Fail(e, k) PROVE DepthInv'
  BY <1>5, DepthPopped, TypesHere DEF Fail
<1>6. CASE InfixMove
  <2>1. Top.pc = "parseExpression.Left" /\ stack # <<>> /\ Slack(Top.pc) = 0
    BY <1>6 DEF InfixMove, At, Slack
  <2> QED BY <1>6, <2>1, DepthPushed, SlackBounds DEF InfixMove, Frame
<1>7. CASE LeftMove
  BY <1>7, DepthPopped, TypesHere DEF LeftMove, Return, At
<1>8. CASE ParenMove
  BY <1>8, DepthPopped, TypesHere DEF ParenMove, DropParentheses, At
<1>9. CASE AtMove
  BY <1>9, DepthPopped, TypesHere DEF AtMove, Return, At
<1>10. CASE NotMove
  <2>1. Slack(Top.pc) = 1 /\ stack # <<>>
    BY <1>10 DEF NotMove, At, Slack
  <2> DEFINE f == Frame(InfixFn(Peek), Top.prec, pos + 1, Top.lo, Top.kids)
  <2>2. stack' = [stack EXCEPT ![Len(stack)] = f] /\ pos' = pos + 1
    BY <1>10 DEF NotMove, TailCall
  <2> HIDE DEF f
  <2>3. 2 * pos + Slack(Top.pc) <= 2 * pos' + Slack(f.pc) /\ pos' \in Nat /\ pos <= pos'
    BY <2>1, <2>2, TypesHere, SlackBounds
  <2> QED BY <2>1, <2>2, <2>3, DepthReplaced
<1>11. CASE PanicMove \/ SelectMove
  BY <1>11 DEF PanicMove, SelectMove, SelectPanics, Panic, DepthInv
<1>12. CASE NameMove
  <2>1. Slack(Top.pc) = 1 /\ stack # <<>> /\ Slack("parseCallExpression") = 0
    BY <1>12 DEF NameMove, At, Slack
  <2> DEFINE f == Frame("parseCallExpression", Top.prec, pos + 1, Top.lo, <<Len(heap) + 1>>)
  <2>2. stack' = [stack EXCEPT ![Len(stack)] = f] /\ pos' = pos + 1
        /\ f.pc = "parseCallExpression"
    BY <1>12 DEF NameMove, Frame
  <2> HIDE DEF f
  <2>3. 2 * pos + Slack(Top.pc) <= 2 * pos' + Slack(f.pc) /\ pos' \in Nat /\ pos <= pos'
    BY <2>1, <2>2, TypesHere
  <2> QED BY <2>1, <2>2, <2>3, DepthReplaced
<1> QED BY <1>1, <1>2, <1>3, <1>4, <1>5, <1>6, <1>7, <1>8, <1>9, <1>10, <1>11, <1>12 DEF Move

(* The recursion of the parse functions of expressions goes no deeper than *)
(* the tokens read allow: no chain of calls comes back to a function at    *)
(* the same token, whatever the input is.  (How deep a SELECT recurses     *)
(* while it is parsed is not counted: DepthBounded excepts that moment.)   *)
THEOREM DepthIsBounded == Spec => []DepthBounded
<1>1. Init => DepthInv
  BY DEF Init, InitMachine, DepthInv, Frame, Slack
<1>2. IInv /\ DepthInv => DepthBounded
  <2> SUFFICES ASSUME IInv, DepthInv PROVE Len(stack) <= 2 * pos + 2
    BY DEF DepthBounded
  <2>1. CASE stack = <<>>
    BY <2>1, TypesHere
  <2>2. CASE stack # <<>>
    <3>1. Len(stack) \in DOMAIN stack /\ Len(stack) \in Nat /\ pos \in Nat
      BY <2>2, TypesHere, PoppedFrames
    <3>2. Len(stack) <= 2 * pos + Slack(Top.pc)
      BY <3>1, TypesHere DEF DepthInv
    <3> QED BY <3>1, <3>2, SlackBounds
  <2> QED BY <2>1, <2>2
<1> QED BY <1>1, <1>2, InitIInv, NextIInv, NextDepth, PTL DEF Spec
-----------------------------------------------------------------------------
(* The parser reads forwards, and no error is forgotten.                   *)
LEMMA MoveForwards ==
    ASSUME IInv, Move
    PROVE  pos' >= pos /\ (errors # <<>> => errors' # <<>>)
<1>1. pos \in Nat /\ errors \in Seq(Nat)
  BY TypesHere
<1>2. \A x \in Nat : Append(errors, x) # <<>>
  BY <1>1
<1>3. ASSUME NEW k \in Nat, NEW pc, NEW kids, NEW callee, CallFrame(k, pc, kids, callee)
      PROVE  pos' >= pos /\ errors' = errors
  BY <1>1, <1>3 DEF CallFrame
<1>4. ASSUME NEW k \in Nat, NEW pc, NEW kids, NEW fn, NEW prec, CallMove(k, pc, kids, fn, prec)
      PROVE  pos' >= pos /\ errors' = errors
  BY <1>3, <1>4 DEF CallMove
<1>5. ASSUME NEW k \in Nat, NEW pc, NEW kids, GoMove(k, pc, kids)
      PROVE  pos' >= pos /\ errors' = errors
  BY <1>1, <1>5 DEF GoMove, Continue
<1>6. ASSUME NEW kind, NEW at, NEW kids, NEW hi, NEW k \in Nat, BuildMove(kind, at, kids, hi, k)
      PROVE  pos' >= pos /\ (errors # <<>> => errors' # <<>>)
  BY <1>1, <1>2, <1>6 DEF BuildMove, BuildTo
<1>7. ASSUME NEW e \in Nat, NEW k \in Nat, Fail(e, k)
      PROVE  pos' >= pos /\ errors' # <<>>
  BY <1>1, <1>2, <1>7 DEF Fail
<1>8. CASE InfixMove
  BY <1>3, <1>8 DEF InfixMove
<1>9. CASE LeftMove \/ ParenMove \/ AtMove \/ NotMove \/ PanicMove \/ NameMove
  BY <1>1, <1>9 DEF LeftMove, ParenMove, AtMove, NotMove, PanicMove, NameMove, Return,
                    DropParentheses, TailCall, Panic
<1>10. CASE SelectMove
  BY <1>1, <1>2, <1>10 DEF SelectMove, SelectPanics
<1> QED BY <1>4, <1>5, <1>6, <1>7, <1>8, <1>9, <1>10 DEF Move

(* A broken SELECT stays in the tree, and stays broken.                    *)
LEMMA BrokenStays ==
    ASSUME IInv, IInv', OrderInv, Move, SelectBroke
    PROVE  SelectBroke'
<1>1. heap \in Seq(Nodes(Kinds)) /\ heap' \in Seq(Nodes(Kinds))
  BY DEF IInv, MachineInv, MachineTypeOK
<1>2. CASE heap' = heap
  BY <1>2 DEF SelectBroke
<1>3. ASSUME NEW node, heap' = Append(heap, node) PROVE SelectBroke'
  <2>1. \A n \in DOMAIN heap : n \in DOMAIN heap' /\ heap'[n] = heap[n]
    BY <1>1, <1>3
  <2> QED BY <2>1 DEF SelectBroke
<1>4. CASE ParenMove
  <2>1. DropParentheses /\ stack # <<>> /\ Top.pc \in AwaitsResult
    BY <1>4 DEF ParenMove, At, AwaitsResult
  <2>2. CASE ret = NIL
    BY <1>2, <2>1, <2>2 DEF DropParentheses
  <2>3. CASE ret # NIL
    <3> DEFINE node == InParentheses(heap[ret])
    <3>1. ret \in DOMAIN heap /\ heap' = [heap EXCEPT ![ret] = node]
      BY <2>1, <2>3, ResultHere DEF DropParentheses
    <3>2. node.kind = heap[ret].kind /\ node.whole = heap[ret].whole
      BY DEF InParentheses
    <3> HIDE DEF node
    <3>3. \A n \in DOMAIN heap : /\ n \in DOMAIN heap'
                                 /\ heap'[n].kind = heap[n].kind /\ heap'[n].whole = heap[n].whole
      BY <1>1, <3>1, <3>2
    <3> QED BY <3>3 DEF SelectBroke
  <2> QED BY <2>2, <2>3
<1>5. ASSUME NEW kind, NEW at, NEW kids, NEW hi, NEW k, BuildMove(kind, at, kids, hi, k)
      PROVE  SelectBroke'
  BY <1>3, <1>5 DEF BuildMove, BuildTo
<1>6. CASE NameMove
  BY <1>3, <1>6 DEF NameMove
<1>7. CASE SelectMove
  BY <1>3, <1>7 DEF SelectMove, SelectPanics
<1>8. CASE \/ InfixMove \/ LeftMove \/ AtMove \/ NotMove \/ PanicMove
           \/ \E e, k \in Nat : Fail(e, k)
  BY <1>2, <1>8 DEF InfixMove, LeftMove, AtMove, NotMove, PanicMove, CallFrame, Return, TailCall,
                    Panic, Fail
<1>9. ASSUME NEW k, NEW pc, NEW kids, NEW fn, NEW prec,
             CallMove(k, pc, kids, fn, prec) \/ GoMove(k, pc, kids)
      PROVE  SelectBroke'
  BY <1>2, <1>9 DEF CallMove, GoMove, CallFrame, Continue
<1> QED BY <1>4, <1>5, <1>6, <1>7, <1>8, <1>9 DEF Move

OutcomeOK ==
    /\ Outcome \in Contract!Outcomes
    /\ Outcome = "running" <=> ~ Finished
    /\ Outcome = "nil" => errors # <<>>
    /\ Outcome \in {"broken tree", "panic"} => errors # <<>> \/ SelectBroke

LEMMA OutcomeType == IInv /\ OrderInv => OutcomeOK
<1> SUFFICES ASSUME IInv, OrderInv PROVE OutcomeOK
  OBVIOUS
<1> USE DEF OutcomeOK
<1>1. heap \in Seq(Nodes(Kinds))
  BY DEF IInv, MachineInv, MachineTypeOK
<1>2. \A n \in DOMAIN heap : heap[n].whole \in BOOLEAN /\ n \in Nat \ {0}
  <2>1. ASSUME NEW n \in DOMAIN heap PROVE heap[n] \in Nodes(Kinds) /\ n \in Nat \ {0}
    BY <1>1
  <2> QED BY <2>1 DEF Nodes
<1>3. CASE ~ Finished
  BY <1>3 DEF Outcome, Contract!Outcomes
<1>4. CASE Finished /\ ret = Panicked
  <2>1. Outcome = "panic"
    BY <1>2, <1>4 DEF Outcome, Panicked, NIL
  <2>2. errors # <<>> \/ SelectBroke
    BY <1>2, <1>4 DEF IInv, MachineInv, RetOK, Panicked, NoValue
  <2> QED BY <1>4, <2>1, <2>2 DEF Contract!Outcomes
<1>5. CASE Finished /\ ret = NIL
  <2>1. Outcome = "nil"
    BY <1>2, <1>5 DEF Outcome, Panicked, NIL
  <2>2. errors # <<>>
    BY <1>2, <1>5 DEF IInv, MachineInv, RetOK, NIL, NoValue, Panicked
  <2> QED BY <1>5, <2>1, <2>2 DEF Contract!Outcomes
<1>6. CASE Finished /\ ret \in DOMAIN heap
  <2>1. ret # Panicked /\ ret # NIL
    BY <1>2, <1>6 DEF Panicked, NIL
  <2>2. Outcome = IF heap[ret].whole THEN "tree" ELSE "broken tree"
    BY <1>6, <2>1 DEF Outcome
  <2>3. ~ heap[ret].whole => errors # <<>> \/ SelectBroke
    BY <1>6 DEF IInv, MachineInv, HeapOK
  <2> QED BY <1>6, <2>2, <2>3 DEF Contract!Outcomes
<1> QED BY <1>3, <1>4, <1>5, <1>6 DEF OrderInv, ResultIsThere

LEMMA NextOutcome == IInv' /\ OrderInv' => OutcomeOK'
BY OutcomeType, PTL

LEMMA MoveKeepsContract ==
    ASSUME IInv, IInv', OrderInv, OrderInv', Move
    PROVE  Contract!Step
<1>1. Outcome = "running"
  BY OutcomeType DEF Move, Finished, OutcomeOK
<1>2. /\ Outcome' \in Contract!Outcomes
      /\ Outcome' = "nil" => errors' # <<>>
      /\ Outcome' \in {"broken tree", "panic"} => errors' # <<>> \/ SelectBroke'
  BY NextOutcome DEF OutcomeOK
<1>3. pos' \in Nat
  BY DEF IInv, MachineInv, MachineTypeOK
<1>4. SelectBroke' \in BOOLEAN
  BY DEF SelectBroke
<1> QED BY <1>1, <1>2, <1>3, <1>4, MoveForwards, BrokenStays DEF Contract!Step

(* The parser of expressions keeps the promise of ParseContract: it reads  *)
(* forwards only, and it ends with a tree whose String() does not panic,   *)
(* has reported an error, or has a SELECT in the tree that broke without   *)
(* one; it never returns nil without an error.  (That it ends is a         *)
(* liveness property.)                                                     *)
THEOREM MeetsContract == Spec => ImplementsContract
<1>1. Init => Contract!Init
  BY DEF Init, InitMachine, Contract!Init, Outcome, Finished, SelectBroke
<1>2. IInv /\ IInv' /\ OrderInv /\ OrderInv' /\ [Next]_vars => [Contract!Step]_(Contract!vars)
  <2> SUFFICES ASSUME IInv, IInv', OrderInv, OrderInv', Move \/ UNCHANGED vars
               PROVE  Contract!Step \/ UNCHANGED Contract!vars
    BY NextMoves
  <2>1. CASE Move
    BY <2>1, MoveKeepsContract
  <2>2. CASE UNCHANGED vars
    BY <2>2 DEF vars, Contract!vars, Outcome, Finished, SelectBroke
  <2> QED BY <2>1, <2>2
<1> QED BY <1>1, <1>2, InitIInv, NextIInv, InitOrder, NextOrder, PTL
        DEF Spec, ImplementsContract, Contract!Spec
=============================================================================
