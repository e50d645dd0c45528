--------------------------- MODULE Statements_proof ---------------------------
(***************************************************************************)
(* Every parse function keeps the invariant of Program_proof, one lemma    *)
(* per function; and what follows from it of every program: StatementTypeOK *)
(* and BrokenOnlyWhereKnown.                                               *)
(***************************************************************************)
EXTENDS Program_proof

-----------------------------------------------------------------------------
(* Expressions.                                                            *)
LEMMA parseFloatLiteralKeeps ==
    ASSUME ProgramInv, parseFloatLiteral
    PROVE  ProgramInv'
BY AtPoint, FailKeeps, ExpressionsBegin DEF parseFloatLiteral

LEMMA parsePrefixExpressionKeeps ==
    ASSUME ProgramInv, parsePrefixExpression
    PROVE  ProgramInv'
BY AtPoint, NoneHeld, Found, Forward, CallExpressionKeeps, ReturnNewKeeps, ExpressionsBegin,
   ExpressionsPoints, ExpressionsKinds
   DEF parsePrefixExpression, PREFIX

LEMMA parseInfixExpressionKeeps ==
    ASSUME ProgramInv, parseInfixExpression
    PROVE  ProgramInv'
BY AtPoint, Kept, Found, Forward, CallExpressionKeeps, ReturnNewKeeps, PrecedenceType,
   ExpressionsBegin, ExpressionsPoints, ExpressionsKinds
   DEF parseInfixExpression

LEMMA parseCallExpressionKeeps ==
    ASSUME ProgramInv, parseCallExpression
    PROVE  ProgramInv'
<1>1. CASE At("parseCallExpression")
  BY <1>1, AtPoint, AtOne, Kept, Forward, CallKeeps, ExpressionsBegin, ExpressionsPoints
     DEF parseCallExpression
<1>2. CASE At("parseCallExpression.Arguments")
  BY SMTT(30), <1>2, AtPoint, AtOne, Found, Forward, CallKeeps, ContinueKeeps, FailKeeps,
     ExpressionsPoints, WindowsBegin, FirstMissingOK
     DEF parseCallExpression
<1>3. CASE At("parseCallExpression.WithinGroup")
  BY <1>3, AtPoint, AtOne, Found, Forward, ContinueKeeps, FailKeeps, ExpressionsPoints
     DEF parseCallExpression
<1>4. CASE At("parseCallExpression.Over")
  BY <1>4, AtPoint, AtOne, Kept, Forward, CallKeeps, ReturnNewKeeps, WindowsBegin,
     ExpressionsPoints, ExpressionsKinds
     DEF parseCallExpression
<1>5. CASE At("parseCallExpression.Clause")
  BY <1>5, AtPoint, AtOne, Found, ReturnNewKeeps, ExpressionsPoints, ExpressionsKinds
     DEF parseCallExpression
<1> QED BY <1>1, <1>2, <1>3, <1>4, <1>5 DEF parseCallExpression

LEMMA parseExpressionListKeeps ==
    ASSUME ProgramInv, parseExpressionList
    PROVE  ProgramInv'
BY AtPoint, NoneHeld, Found, Forward, CallExpressionKeeps, FailKeeps, ReturnNewKeeps,
   ExpressionsBegin, ExpressionsKinds, ExpressionsPoints
   DEF parseExpressionList, LOWEST

LEMMA parseCaseExpressionKeeps ==
    ASSUME ProgramInv, parseCaseExpression
    PROVE  ProgramInv'
BY AtPoint, NoneHeld, Kept, Found, Forward, CallExpressionKeeps, ContinueKeeps, FailKeeps,
   ReturnNewKeeps, ExpressionsBegin, ExpressionsPoints, ExpressionsKinds
   DEF parseCaseExpression, CaseEnd, LOWEST

LEMMA parseExistsExpressionKeeps ==
    ASSUME ProgramInv, parseExistsExpression
    PROVE  ProgramInv'
BY AtPoint, NoneHeld, Found, Forward, CallKeeps, FailKeeps, ReturnNewKeeps, SelectBegin,
   ExpressionsBegin, ExpressionsPoints, ExpressionsKinds
   DEF parseExistsExpression

LEMMA parseAllExpressionKeeps ==
    ASSUME ProgramInv, parseAllExpression
    PROVE  ProgramInv'
BY AtPoint, NoneHeld, Found, Forward, CallKeeps, FailKeeps, ReturnNewKeeps, SelectBegin,
   ExpressionsBegin, ExpressionsPoints, ExpressionsKinds
   DEF parseAllExpression

LEMMA parseSubqueryExpressionKeeps ==
    ASSUME ProgramInv, parseSubqueryExpression
    PROVE  ProgramInv'
BY AtPoint, NoneHeld, Found, Forward, CallKeeps, ReturnNewKeeps, SelectBegin, ExpressionsBegin,
   ExpressionsPoints, ExpressionsKinds
   DEF parseSubqueryExpression

LEMMA parseLikeExpressionKeeps ==
    ASSUME ProgramInv, parseLikeExpression
    PROVE  ProgramInv'
BY AtPoint, Kept, Found, Forward, CallExpressionKeeps, ReturnNewKeeps, ExpressionsBegin,
   ExpressionsPoints, ExpressionsKinds
   DEF parseLikeExpression, COMPARE, LOWEST

LEMMA parseCollateExpressionKeeps ==
    ASSUME ProgramInv, parseCollateExpression
    PROVE  ProgramInv'
BY AtPoint, Kept, ReturnNewKeeps, ExpressionsBegin, ExpressionsKinds DEF parseCollateExpression

LEMMA parseBetweenExpressionKeeps ==
    ASSUME ProgramInv, parseBetweenExpression
    PROVE  ProgramInv'
BY AtPoint, Kept, Found, Forward, CallExpressionKeeps, FailKeeps, ReturnNewKeeps,
   ExpressionsBegin, ExpressionsPoints, ExpressionsKinds
   DEF parseBetweenExpression, AND_PREC, BETWEEN_PREC

LEMMA parseIsNullExpressionKeeps ==
    ASSUME ProgramInv, parseIsNullExpression
    PROVE  ProgramInv'
BY AtPoint, Kept, FailKeeps, ReturnNewKeeps, ExpressionsBegin, ExpressionsKinds
   DEF parseIsNullExpression

LEMMA parseDistinctFromExpressionKeeps ==
    ASSUME ProgramInv, parseDistinctFromExpression
    PROVE  ProgramInv'
BY AtPoint, Kept, Found, Forward, CallExpressionKeeps, ReturnNewKeeps, ExpressionsBegin,
   ExpressionsPoints, ExpressionsKinds
   DEF parseDistinctFromExpression, COMPARE

(* Every function of the two tables begins where it should.                *)
LEMMA PrefixFnBegins == \A t : PrefixFn(t) = "nil" \/ Begins(PrefixFn(t))
BY LeavesBegin, ExpressionsBegin, ConversionsBegin DEF PrefixFn

LEMMA InfixFnBegins ==
    \A t : \/ InfixFn(t) = "nil" \/ Begins(InfixFn(t))
          \/ InfixFn(t) = "parseAtTimeZoneExpression"
BY ZenonT(60), ExpressionsBegin DEF InfixFn

LEMMA InfixFnCalled ==
    \A t : \/ InfixFn(t) = "nil"
          \/ /\ InfixFn(t) \in ProgramPoints /\ InfixFn(t) \notin TakesResult
             /\ InfixFn(t) \notin MayReturnNil
<1> TAKE t
<1>1. CASE Begins(InfixFn(t))
  BY <1>1 DEF Begins, Ordinary
<1>2. CASE InfixFn(t) = "parseAtTimeZoneExpression"
  BY <1>2, ExpressionsBegin
<1> QED BY <1>1, <1>2, InfixFnBegins

LEMMA parseExpressionKeeps ==
    ASSUME ProgramInv, parseExpression
    PROVE  ProgramInv'
<1>1. CASE At("parseExpression")
  <2> DEFINE fn == PrefixFn(Cur)
  <2>1. fn = "nil" \/ Begins(fn)
    BY PrefixFnBegins
  <2>2. (fn # "nil" /\ Call(0, "parseExpression.Left", <<>>, fn)) \/ Fail(0, 0)
    BY <1>1, AtOne DEF parseExpression
  <2> HIDE DEF fn
  <2> QED BY <1>1, <2>1, <2>2, AtPoint, NoneHeld, Forward, CallKeeps, FailKeeps,
             ExpressionsPoints
<1>2. CASE At("parseExpression.Left")
  <2> DEFINE fn == InfixFn(Peek)
  <2>1. /\ fn = "nil" \/ (/\ fn \in ProgramPoints /\ fn \notin TakesResult
                           /\ fn \notin MayReturnNil)
    BY InfixFnCalled
  <2>2. \/ /\ fn # "nil"
           /\ CallFrame(1, "parseExpression.Left", <<>>, Frame(fn, 0, pos + 1, Top.lo, <<ret>>))
        \/ Return(ret)
    BY <1>2, AtOne DEF parseExpression
  <2> HIDE DEF fn
  <2>3. /\ stack # <<>> /\ pos + 1 \in Nat /\ 0 \in Nat
        /\ Top.pc \in TakesResult /\ Top.pc \notin MayGetNil
        /\ Resumes("parseExpression.Left") /\ Holds("parseExpression.Left", <<>>)
    BY <1>2, AtPoint, NoneHeld, Forward, ExpressionsPoints DEF At, Takes
  <2>4. Top.lo \in Nat
    BY <2>3, AtTop
  <2>5. CASE CallFrame(1, "parseExpression.Left", <<>>, Frame(fn, 0, pos + 1, Top.lo, <<ret>>))
             /\ fn # "nil"
    BY <2>1, <2>3, <2>4, <2>5, CallWithKeeps
  <2>6. CASE Return(ret)
    BY <1>2, <2>6, PassOn, ExpressionsPoints
  <2> QED BY <2>2, <2>5, <2>6
<1> QED BY <1>1, <1>2 DEF parseExpression

LEMMA parseLeafKeeps ==
    ASSUME ProgramInv, parseLeaf
    PROVE  ProgramInv'
<1>1. \A fn \in DOMAIN LeafKind : LeafKind[fn] \in {"Identifier", "Literal", "Variable"}
  BY DEF LeafKind
<1>2. PICK kind \in {"Identifier", "Literal", "Variable"} :
         stack # <<>> /\ ReturnNew(kind, pos, <<>>, 0)
  BY <1>1 DEF parseLeaf, At
<1>3. kind \in ProgramKinds
  BY DEF ProgramKinds
<1>4. pos \in Nat /\ pos + 0 \in Nat
  BY <1>2, AtTop
<1> QED BY <1>2, <1>3, <1>4, NoneHeld, ReturnNewKeeps

LEMMA parseGroupedExpressionKeeps ==
    ASSUME ProgramInv, parseGroupedExpression
    PROVE  ProgramInv'
<1>1. CASE At("parseGroupedExpression")
  BY <1>1, AtPoint, AtOne, NoneHeld, Forward, CallExpressionKeeps, CallKeeps, ReturnNewKeeps,
     ExpressionsBegin, ExpressionsKinds, SelectBegin, ExpressionsPoints
     DEF parseGroupedExpression, DropParentheses, LOWEST
<1>2. CASE At("parseGroupedExpression.Subquery")
  BY <1>2, AtPoint, AtOne, Found, FailKeeps, ReturnNewKeeps, ExpressionsPoints,
     ExpressionsKinds
     DEF parseGroupedExpression, DropParentheses
<1>3. CASE At("parseGroupedExpression.Exp")
  <2>1. DropParentheses \/ Fail(1, 0)
    BY <1>3, AtOne DEF parseGroupedExpression
  <2>2. Top.pc \in TakesResult /\ Top.pc \notin MayGetNil
    BY <1>3, ExpressionsPoints DEF At, Takes
  <2> QED BY <1>3, <2>1, <2>2, AtPoint, DropParenthesesKeeps, FailKeeps
<1> QED BY <1>1, <1>2, <1>3 DEF parseGroupedExpression, DropParentheses

LEMMA parseDotExpressionKeeps ==
    ASSUME ProgramInv, parseDotExpression
    PROVE  ProgramInv'
<1>1. CASE At("parseDotExpression")
  <2>1. \/ Call(2, "parseDotExpression.Arguments", Top.kids, "parseExpressionList")
        \/ \E kids \in {Top.kids, <<>>} : ReturnNew("QualifiedIdentifier", pos + 1, kids, 1)
    <3> DEFINE kids == IF NodeIs(Top.kids[1], Names) THEN Top.kids ELSE <<>>
    <3>1. kids \in {Top.kids, <<>>}
      OBVIOUS
    <3>2. \/ Call(2, "parseDotExpression.Arguments", Top.kids, "parseExpressionList")
          \/ ReturnNew("QualifiedIdentifier", pos + 1, kids, 1)
      BY <1>1, AtOne DEF parseDotExpression
    <3> HIDE DEF kids
    <3> QED BY <3>1, <3>2
  <2>2. \A x, kids : kids \in {Top.kids, <<>>} => Holds(x, kids)
    BY <1>1, Kept, NoneHeld, ExpressionsBegin
  <2> QED BY <1>1, <2>1, <2>2, AtPoint, Forward, CallKeeps, ReturnNewKeeps, ExpressionsBegin,
             ExpressionsPoints, ExpressionsKinds
<1>2. CASE At("parseDotExpression.Arguments")
  BY <1>2, AtPoint, AtOne, Found, ReturnNewKeeps, ExpressionsPoints, ExpressionsKinds
     DEF parseDotExpression
<1> QED BY <1>1, <1>2 DEF parseDotExpression

LEMMA parseScopeExpressionKeeps ==
    ASSUME ProgramInv, parseScopeExpression
    PROVE  ProgramInv'
<1>1. CASE At("parseScopeExpression")
  <2>1. \A x : Holds(x, Top.kids)
    BY <1>1, Kept, ExpressionsBegin
  <2>2. CASE Panic /\ ~ Whole(Top.kids)
    <3>1. "parseScopeExpression" \notin NilHolders
      BY ExpressionsBegin DEF Begins, Ordinary
    <3> QED BY <1>1, <2>1, <2>2, <3>1, AtPoint, BrokenPanicKeeps
  <2>3. CASE \/ Call(2, "parseScopeExpression.Arguments", Top.kids, "parseExpressionList")
             \/ ReturnNew("StaticMethodCall", Top.at, Top.kids, 1)
    BY <1>1, <2>1, <2>3, AtPoint, Forward, CallKeeps, ReturnNewKeeps, ExpressionsBegin,
       ExpressionsPoints, ExpressionsKinds
  <2> QED BY <1>1, <2>2, <2>3, AtOne DEF parseScopeExpression
<1>2. CASE At("parseScopeExpression.Arguments")
  BY <1>2, AtPoint, AtOne, Found, ReturnNewKeeps, ExpressionsPoints, ExpressionsKinds
     DEF parseScopeExpression
<1> QED BY <1>1, <1>2 DEF parseScopeExpression

LEMMA parseFunctionLiteralKeeps ==
    ASSUME ProgramInv, parseFunctionLiteral
    PROVE  ProgramInv'
<1>1. /\ stack # <<>> /\ pos \in Nat /\ pos + 0 \in Nat /\ pos + 1 \in Nat
      /\ "Identifier" \in ProgramKinds /\ Holds("Identifier", <<>>)
  BY AtPoint, NoneHeld, ExpressionsKinds DEF parseFunctionLiteral
<1>2. /\ "parseCallExpression" \in ProgramPoints /\ "parseCallExpression" \notin TakesResult
      /\ "parseCallExpression" \notin NeedsOperand /\ "parseCallExpression" \notin MayReturnNil
  BY ExpressionsBegin DEF Begins, Ordinary
<1>3. CASE ReturnNew("Identifier", pos, <<>>, 0)
  BY <1>1, <1>3, ReturnNewKeeps
<1>4. CASE /\ heap' = Append(heap, Node("Identifier", pos, <<>>, pos))
           /\ stack' = [stack EXCEPT ![Len(stack)] =
                  Frame("parseCallExpression", Top.prec, pos + 1, Top.lo, <<Len(heap) + 1>>)]
           /\ pos' = pos + 1
           /\ UNCHANGED <<input, ret, errors>>
  BY <1>1, <1>2, <1>4, TakeOverKeeps
<1> QED BY <1>3, <1>4 DEF parseFunctionLiteral

LEMMA parseAtTimeZoneExpressionKeeps ==
    ASSUME ProgramInv, parseAtTimeZoneExpression
    PROVE  ProgramInv'
<1>1. CASE At("parseAtTimeZoneExpression")
  <2>1. /\ stack # <<>> /\ Top.pc = "parseAtTimeZoneExpression"
        /\ "parseAtTimeZoneExpression" \in NeedsOperand
        /\ "parseAtTimeZoneExpression" \notin NilHolders
    BY <1>1, ExpressionsBegin DEF At
  <2>2. /\ Holds("parseAtTimeZoneExpression", Top.kids) /\ Top.kids # <<>>
        /\ pos \in Nat /\ Top.kids \in Seq(Nat)
    BY <2>1, AtTop DEF Holds
  <2>3. \A x : Holds(x, Top.kids)
    BY <2>1, TopHeld
  <2>4. 1 \in DOMAIN Top.kids
    BY <2>2
  <2>5. /\ Top.kids[1] \in Nat /\ Top.kids[1] <= Len(heap)
        /\ errors = <<>> => Top.kids[1] # NIL
    BY <2>1, <2>2, <2>4 DEF Holds, Complete
  <2>6. \/ Return(Top.kids[1])
        \/ CallExpression(3, "parseAtTimeZoneExpression.TimeZone", Top.kids, CALL)
        \/ Fail(2, 1)
    BY <1>1, AtOne DEF parseAtTimeZoneExpression
  <2>7. CASE Return(Top.kids[1])
    BY <2>1, <2>5, <2>7, ReturnKeeps
  <2>8. CASE CallExpression(3, "parseAtTimeZoneExpression.TimeZone", Top.kids, CALL)
    <3>1. pos + 3 \in Nat /\ CALL \in Nat
      BY <2>2 DEF CALL
    <3> QED BY <2>1, <2>3, <2>8, <3>1, Forward, CallExpressionKeeps, ExpressionsBegin,
               ExpressionsPoints
  <2>9. CASE Fail(2, 1)
    BY <2>1, <2>2, <2>9, FailKeeps
  <2> QED BY <2>6, <2>7, <2>8, <2>9
<1>2. CASE At("parseAtTimeZoneExpression.TimeZone")
  BY <1>2, AtPoint, AtOne, Found, ReturnNewKeeps, ExpressionsPoints, ExpressionsKinds
     DEF parseAtTimeZoneExpression
<1> QED BY <1>1, <1>2 DEF parseAtTimeZoneExpression

LEMMA parseInExpressionKeeps ==
    ASSUME ProgramInv, parseInExpression
    PROVE  ProgramInv'
BY AtPoint, Kept, Found, Forward, CallExpressionKeeps, CallKeeps, FailKeeps, ReturnNewKeeps,
   ExpressionsBegin, SelectBegin, ExpressionsPoints, ExpressionsKinds
   DEF parseInExpression, LOWEST

LEMMA parseNotInfixExpressionKeeps ==
    ASSUME ProgramInv, parseNotInfixExpression
    PROVE  ProgramInv'
<1> DEFINE fn == InfixFn(Peek)
<1>1. /\ At("parseNotInfixExpression")
      /\ (Begins(fn) /\ TailCall(1, fn)) \/ Fail(1, 1)
  BY ExpressionsBegin DEF parseNotInfixExpression, InfixFn
<1> HIDE DEF fn
<1> QED BY <1>1, AtPoint, HandedOn, FailKeeps, TailCallKeeps, ExpressionsBegin

-----------------------------------------------------------------------------
(* Windows and ORDER BY.                                                   *)
LEMMA parseOrderByItemsKeeps ==
    ASSUME ProgramInv, parseOrderByItems
    PROVE  ProgramInv'
BY AtPoint, NoneHeld, Found, Forward, CallExpressionKeeps, ReturnNewKeeps, ExpressionsBegin,
   WindowsBegin, WindowsPoints, WindowsKinds
   DEF parseOrderByItems, LOWEST

LEMMA parseFrameBoundKeeps ==
    ASSUME ProgramInv, parseFrameBound
    PROVE  ProgramInv'
BY AtPoint, NoneHeld, Found, Forward, CallExpressionKeeps, ReturnNewKeeps, WindowsBegin,
   WindowsKinds, ExpressionsBegin, WindowsPoints
   DEF parseFrameBound, LOWEST

LEMMA parseWindowFrameKeeps ==
    ASSUME ProgramInv, parseWindowFrame
    PROVE  ProgramInv'
BY AtPoint, NoneHeld, Found, Forward, CallKeeps, ReturnFlawedKeeps, ReturnNewKeeps,
   WindowsBegin, WindowsPoints, WindowsKinds
   DEF parseWindowFrame

LEMMA OverCloseKeeps ==
    ASSUME ProgramInv, OverClose
    PROVE  ProgramInv'
<1>1. /\ At("parseOverClause.Close")
      /\ \/ ReturnPassing("Over", Top.at, Top.kids, 1)
         \/ ReturnPassing("Over", Top.at, Top.kids, 2)
         \/ Fail(1, 0)
  BY DEF OverClose
<1>2. 1 \in Nat \ {0} /\ 2 \in Nat \ {0}
  OBVIOUS
<1>3. stack # <<>> /\ Top.at \in Nat /\ Holds("Over", Top.kids) /\ "Over" \in ProgramKinds
  BY <1>1, AtPoint, Kept, WindowsPoints, WindowsBegin, WindowsKinds
<1>4. CASE Fail(1, 0)
  BY <1>1, <1>4, AtPoint, Found, Forward, FailKeeps, WindowsPoints
<1> QED BY <1>1, <1>2, <1>3, <1>4, ReturnPassingKeeps

LEMMA parseOverClauseKeeps ==
    ASSUME ProgramInv, parseOverClause
    PROVE  ProgramInv'
BY OverCloseKeeps, AtPoint, NoneHeld, Kept, Found, Forward, CallExpressionKeeps, CallKeeps, ContinueKeeps,
   FailKeeps, ReturnNewKeeps, WindowsBegin, WindowsKinds, ExpressionsBegin, WindowsPoints
   DEF parseOverClause, LOWEST

-----------------------------------------------------------------------------
(* Conversions and the functions with a syntax of their own.               *)
LEMMA parseDataTypeKeeps ==
    ASSUME ProgramInv, parseDataType
    PROVE  ProgramInv'
BY AtPoint, NoneHeld, ReturnExpectingKeeps, ReturnNewKeeps, ListEndAhead, ConversionsBegin,
   ConversionsKinds
   DEF parseDataType

LEMMA parseCastExpressionKeeps ==
    ASSUME ProgramInv, parseCastExpression
    PROVE  ProgramInv'
BY AtPoint, NoneHeld, Found, Forward, CallExpressionKeeps, CallKeeps, GiveUpKeeps,
   ReturnNewKeeps, ExpressionsBegin, ConversionsBegin, ConversionsPoints, WordsNumbered,
   ConversionsKinds
   DEF parseCastExpression, Require, LOWEST

LEMMA parseConvertExpressionKeeps ==
    ASSUME ProgramInv, parseConvertExpression
    PROVE  ProgramInv'
BY AtPoint, NoneHeld, Found, Forward, CallExpressionKeeps, CallKeeps, GiveUpKeeps,
   ReturnNewKeeps, ConversionsBegin, ConversionsPoints, WordsNumbered, ExpressionsBegin,
   ConversionsKinds
   DEF parseConvertExpression, Require, LOWEST

LEMMA parseParseExpressionKeeps ==
    ASSUME ProgramInv, parseParseExpression
    PROVE  ProgramInv'
BY AtPoint, NoneHeld, Found, Forward, CallExpressionKeeps, CallKeeps, GiveUpKeeps,
   ReturnNewKeeps, ExpressionsBegin, ConversionsBegin, ConversionsPoints, WordsNumbered,
   ConversionsKinds
   DEF parseParseExpression, Require, LOWEST

LEMMA parseTrimExpressionKeeps ==
    ASSUME ProgramInv, parseTrimExpression
    PROVE  ProgramInv'
BY AtPoint, NoneHeld, Found, Forward, CallExpressionKeeps, GiveUpKeeps, ReturnNewKeeps,
   ExpressionsBegin, ConversionsBegin, ConversionsPoints, WordsNumbered, ConversionsKinds
   DEF parseTrimExpression, Require, LOWEST

LEMMA parseCursorExpressionKeeps ==
    ASSUME ProgramInv, parseCursorExpression
    PROVE  ProgramInv'
BY AtPoint, NoneHeld, Found, Forward, CallKeeps, ReturnNewKeeps, CursorOptionsAhead,
   SelectBegin, ConversionsBegin, ConversionsPoints, ConversionsKinds
   DEF parseCursorExpression

LEMMA parseNextValueForKeeps ==
    ASSUME ProgramInv, parseNextValueFor
    PROVE  ProgramInv'
BY AtPoint, NoneHeld, GiveUpKeeps, ReturnNewKeeps, ListEndAhead, ConversionsBegin,
   ConversionsKinds, WordsNumbered
   DEF parseNextValueFor, Require

LEMMA parseNextValueForCompoundKeeps ==
    ASSUME ProgramInv, parseNextValueForCompound
    PROVE  ProgramInv'
BY AtPoint, NoneHeld, Found, Forward, CallKeeps, ReturnNewKeeps, ListEndAhead, WindowsBegin,
   ConversionsBegin, ConversionsPoints, ConversionsKinds
   DEF parseNextValueForCompound

(* The functions on full-text indexes differ in the name they begin with.   *)
LEMMA FullTextKeeps ==
    ASSUME ProgramInv, NEW fn, NEW term, Takes(term), NEW table \in BOOLEAN,
           FullText(fn, term, table)
    PROVE  ProgramInv'
<1>1. CASE At(fn) /\ Require(0, <<"LPAREN">>,
                             CallExpression(SearchTermAt(table) - pos, term, <<>>, LOWEST))
  <2>1. SearchTermAt(table) - pos \in Nat
    BY <1>1, AtPoint, SearchTermAhead
  <2> QED BY <1>1, <2>1, AtPoint, NoneHeld, Forward, CallExpressionKeeps, GiveUpKeeps,
             ExpressionsBegin, WordsNumbered
             DEF Require, LOWEST
<1>2. CASE At(term) /\ \E k \in 0..4 : ReturnNew("FullText", Top.at, GotIfAny, k)
  BY <1>2, AtPoint, Found, ReturnNewKeeps, ConversionsKinds
<1>3. ASSUME At(term), NEW language \in {0, 2, 3}, NEW close \in {0, 1},
             ReturnNew("FullText", Top.at, GotIfAny, language + close)
      PROVE  \E k \in 0..4 : ReturnNew("FullText", Top.at, GotIfAny, k)
  BY <1>3
<1> QED BY <1>1, <1>2, <1>3 DEF FullText

LEMMA parseContainsExpressionKeeps ==
    ASSUME ProgramInv, parseContainsExpression
    PROVE  ProgramInv'
<1>1. FullText("parseContainsExpression", "parseContainsExpression.SearchTerm", FALSE)
  BY DEF parseContainsExpression
<1>2. Takes("parseContainsExpression.SearchTerm") /\ FALSE \in BOOLEAN
  BY ConversionsPoints
<1> QED BY <1>1, <1>2, FullTextKeeps

LEMMA parseFreetextExpressionKeeps ==
    ASSUME ProgramInv, parseFreetextExpression
    PROVE  ProgramInv'
<1>1. FullText("parseFreetextExpression", "parseFreetextExpression.SearchTerm", FALSE)
  BY DEF parseFreetextExpression
<1>2. Takes("parseFreetextExpression.SearchTerm") /\ FALSE \in BOOLEAN
  BY ConversionsPoints
<1> QED BY <1>1, <1>2, FullTextKeeps

LEMMA parseContainsTableExpressionKeeps ==
    ASSUME ProgramInv, parseContainsTableExpression
    PROVE  ProgramInv'
<1>1. FullText("parseContainsTableExpression", "parseContainsTableExpression.SearchTerm", TRUE)
  BY DEF parseContainsTableExpression
<1>2. Takes("parseContainsTableExpression.SearchTerm") /\ TRUE \in BOOLEAN
  BY ConversionsPoints
<1> QED BY <1>1, <1>2, FullTextKeeps

LEMMA parseFreetextTableExpressionKeeps ==
    ASSUME ProgramInv, parseFreetextTableExpression
    PROVE  ProgramInv'
<1>1. FullText("parseFreetextTableExpression", "parseFreetextTableExpression.SearchTerm", TRUE)
  BY DEF parseFreetextTableExpression
<1>2. Takes("parseFreetextTableExpression.SearchTerm") /\ TRUE \in BOOLEAN
  BY ConversionsPoints
<1> QED BY <1>1, <1>2, FullTextKeeps

-----------------------------------------------------------------------------
(* SELECT and its clauses.                                                 *)
LEMMA parseTopClauseKeeps ==
    ASSUME ProgramInv, parseTopClause
    PROVE  ProgramInv'
BY AtPoint, NoneHeld, Kept, Found, Forward, CallExpressionKeeps, CallKeeps, ContinueKeeps,
   ExpectKeeps, ReturnExpectingKeeps, ReturnNewKeeps, ExpressionsBegin, SelectBegin,
   SelectPoints, LeavesBegin, SelectKinds
   DEF parseTopClause, LOWEST, CALL

LEMMA parseSelectColumnsKeeps ==
    ASSUME ProgramInv, parseSelectColumns
    PROVE  ProgramInv'
BY AtPoint, NoneHeld, Found, Forward, CallKeeps, ReturnFlawedKeeps, ReturnNewKeeps,
   SelectBegin, SelectPoints, SelectKinds
   DEF parseSelectColumns

LEMMA parseSelectColumnKeeps ==
    ASSUME ProgramInv, parseSelectColumn
    PROVE  ProgramInv'
BY AtPoint, NoneHeld, Found, Forward, CallExpressionKeeps, ReturnNewKeeps, SelectBegin,
   SelectKinds, ExpressionsBegin, SelectPoints
   DEF parseSelectColumn, LOWEST

LEMMA parseGroupingSetsKeeps ==
    ASSUME ProgramInv, parseGroupingSets
    PROVE  ProgramInv'
BY AtPoint, NoneHeld, Kept, Found, Left, Forward, CallKeeps, ContinueKeeps, ReturnNewKeeps,
   ReturnNilKeeps, SelectBegin, SelectPoints, SelectKinds
   DEF parseGroupingSets, ReturnList

LEMMA parseCubeKeeps ==
    ASSUME ProgramInv, parseCube
    PROVE  ProgramInv'
BY AtPoint, NoneHeld, Kept, Found, Forward, CallExpressionKeeps, ContinueKeeps, GiveUpKeeps,
   ReturnNewKeeps, SelectBegin, SelectPoints, WordsNumbered, SelectKinds, ExpressionsBegin
   DEF parseCube, Grouping, ReturnList, Require, LOWEST

LEMMA parseRollupKeeps ==
    ASSUME ProgramInv, parseRollup
    PROVE  ProgramInv'
BY AtPoint, NoneHeld, Kept, Found, Forward, CallExpressionKeeps, ContinueKeeps, GiveUpKeeps,
   ReturnNewKeeps, SelectBegin, SelectPoints, WordsNumbered, SelectKinds, ExpressionsBegin
   DEF parseRollup, Grouping, ReturnList, Require, LOWEST

LEMMA parseWindowDefinitionsKeeps ==
    ASSUME ProgramInv, parseWindowDefinitions
    PROVE  ProgramInv'
BY AtPoint, NoneHeld, Forward, CallExpressionKeeps, CallKeeps, ContinueKeeps,
   ReturnFlawedKeeps, ReturnNewKeeps, SkipKeeps, SelectBegin, SelectKinds, ExpressionsBegin,
   SelectPoints, WindowsBegin, FirstInAhead
   DEF parseWindowDefinitions, LOWEST

LEMMA parseOptionClauseKeeps ==
    ASSUME ProgramInv, parseOptionClause
    PROVE  ProgramInv'
BY AtPoint, NoneHeld, NilAppended, Lacking, KeptMore, FoundMore, Forward, ForwardMore,
   CallExpressionKeeps, ComplainKeeps, ContinueKeeps, ExpectKeeps, GiveUpKeeps,
   ReturnExpectingKeeps, ReturnNewKeeps, SelectBegin, SelectPoints, WordsNumbered, HintsEndOK,
   ExpressionsBegin, SelectKinds
   DEF parseOptionClause, UseHint, UsePlan, OptimizeFor, NamedHint, Binding, Require, LOWEST

LEMMA parseUnionClauseKeeps ==
    ASSUME ProgramInv, parseUnionClause
    PROVE  ProgramInv'
BY AtPoint, NoneHeld, Found, Forward, CallKeeps, GiveUpKeeps, ReturnNewKeeps, SelectBegin,
   SelectPoints, WordsNumbered, SelectKinds
   DEF parseUnionClause, Require

LEMMA parseSelectStatementKeeps ==
    ASSUME ProgramInv, parseSelectStatement
    PROVE  ProgramInv'
<1>1. CASE At("parseSelectStatement")
  BY <1>1, AtPoint, AtOne, NoneHeld, Forward, CallKeeps, SelectBegin, SelectPoints
     DEF parseSelectStatement, SelectList, Clause, ByClause, Paging
<1>2. CASE At("parseSelectStatement.Columns")
  BY <1>2, AtPoint, AtOne, Found, Forward, CallKeeps, SelectBegin, SelectPoints
     DEF parseSelectStatement, SelectList, Clause, ByClause, Paging
<1>3. CASE At("parseSelectStatement.From")
  BY <1>3, AtPoint, AtOne, Found, Forward, CallKeeps, SkipKeeps, IntoEndOK, TablesBegin,
     SelectPoints
     DEF parseSelectStatement, SelectList, Clause, ByClause, Paging
<1>4. CASE At("parseSelectStatement.Where")
  BY <1>4, AtPoint, AtOne, FoundAny, Forward, CallIfKeeps, ExpressionsBegin, SelectPoints
     DEF parseSelectStatement, SelectList, Clause, ByClause, Paging
<1>5. CASE At("parseSelectStatement.Group")
  BY <1>5, AtPoint, AtOne, FoundAny, Forward, CallKeeps, GiveUpKeeps, SkipKeeps, SelectBegin,
     SelectPoints, WordsNumbered
     DEF parseSelectStatement, SelectList, Clause, ByClause, Paging, Require
<1>6. CASE At("parseSelectStatement.Having")
  BY <1>6, AtPoint, AtOne, FoundAny, Forward, CallIfKeeps, ExpressionsBegin, SelectPoints
     DEF parseSelectStatement, SelectList, Clause, ByClause, Paging
<1>7. CASE At("parseSelectStatement.Window")
  BY <1>7, AtPoint, AtOne, FoundAny, Forward, CallIfKeeps, SelectBegin, SelectPoints
     DEF parseSelectStatement, SelectList, Clause, ByClause, Paging
<1>8. CASE At("parseSelectStatement.Order")
  BY <1>8, AtPoint, AtOne, FoundAny, Forward, CallKeeps, GiveUpKeeps, SkipKeeps, WindowsBegin,
     SelectPoints, WordsNumbered
     DEF parseSelectStatement, SelectList, Clause, ByClause, Paging, Require
<1>9. CASE At("parseSelectStatement.Offset")
  BY <1>9, AtPoint, AtOne, FoundAny, Forward, CallExpressionKeeps, ContinueKeeps,
     ExpressionsBegin, SelectPoints
     DEF parseSelectStatement, SelectList, Clause, ByClause, Paging, LOWEST
<1>10. CASE At("parseSelectStatement.Rows")
  BY <1>10, AtPoint, AtOne, Found, Forward, ContinueKeeps, SmallStepsOK, SelectPoints
     DEF parseSelectStatement, SelectList, Clause, ByClause, Paging
<1>11. CASE At("parseSelectStatement.Fetch")
  BY <1>11, AtPoint, AtOne, Kept, Forward, CallExpressionKeeps, ContinueKeeps,
     ExpressionsBegin, SelectPoints
     DEF parseSelectStatement, SelectList, Clause, ByClause, Paging, LOWEST
<1>12. CASE At("parseSelectStatement.Only")
  BY <1>12, AtPoint, AtOne, Found, Forward, ContinueKeeps, SmallStepsOK, SelectPoints
     DEF parseSelectStatement, SelectList, Clause, ByClause, Paging
<1>13. CASE At("parseSelectStatement.For")
  BY <1>13, AtPoint, AtOne, Kept, Forward, CallKeeps, SkipKeeps, SelectBegin, SelectPoints
     DEF parseSelectStatement, SelectList, Clause, ByClause, Paging
<1>14. CASE At("parseSelectStatement.Option")
  BY <1>14, AtPoint, AtOne, FoundAny, Forward, CallIfKeeps, SelectBegin, SelectPoints
     DEF parseSelectStatement, SelectList, Clause, ByClause, Paging
<1>15. CASE At("parseSelectStatement.Union")
  BY <1>15, AtPoint, AtOne, FoundAny, Forward, CallIfKeeps, SelectBegin, SelectPoints
     DEF parseSelectStatement, SelectList, Clause, ByClause, Paging
<1>16. CASE At("parseSelectStatement.End")
  BY <1>16, AtPoint, AtOne, FoundAny, ReturnNewKeeps, SelectPoints, SelectKinds
     DEF parseSelectStatement, SelectList, Clause, ByClause, Paging
<1> QED BY <1>1, <1>2, <1>3, <1>4, <1>5, <1>6, <1>7, <1>8, <1>9, <1>10, <1>11, <1>12, <1>13,
           <1>14, <1>15, <1>16
           DEF parseSelectStatement, SelectList, Clause, ByClause, Paging

LEMMA CallItemKeeps ==
    ASSUME ProgramInv, stack # <<>>, NEW k \in Nat, NEW kids, Holds("parseGroupByItems.Item", kids),
           CallItem(k, kids)
    PROVE  ProgramInv'
<1> DEFINE fn == parseGroupByItem(pos + k)
<1>1. pos + k \in Nat /\ LOWEST \in Nat
  BY AtTop DEF LOWEST
<1>2. Begins(fn) \/ Leaves(fn)
  BY SelectBegin, ExpressionsBegin DEF parseGroupByItem
<1>3. CallFrame(k, "parseGroupByItems.Item", kids, Frame(fn, LOWEST, pos + k, pos + k, <<>>))
  BY DEF CallItem
<1> HIDE DEF fn
<1>4. /\ Resumes("parseGroupByItems.Item")
      /\ Calls("parseGroupByItems.Item", fn)
  BY <1>2, Forward, ForwardMore, SelectPoints
<1> QED BY <1>1, <1>3, <1>4, CallAtKeeps

LEMMA parseGroupByItemsKeeps ==
    ASSUME ProgramInv, parseGroupByItems
    PROVE  ProgramInv'
<1>1. CASE At("parseGroupByItems")
  BY <1>1, AtPoint, AtOne, NoneHeld, CallItemKeeps, SelectPoints DEF parseGroupByItems
<1>2. CASE At("parseGroupByItems.Item")
  <2>1. /\ stack # <<>> /\ pos + 0 \in Nat /\ Top.at \in Nat /\ 2 \in Nat
    BY <1>2, AtPoint
  <2>2. Holds("parseGroupByItems.Item", Got) /\ Holds("GroupBy", Got)
    BY <1>2, FoundMore, ForwardMore, Lacking, SelectPoints
  <2> QED BY <1>2, <2>1, <2>2, AtOne, CallItemKeeps, ReturnNewKeeps, SelectKinds
       DEF parseGroupByItems
<1> QED BY <1>1, <1>2 DEF parseGroupByItems

LEMMA parseGroupingSetKeeps ==
    ASSUME ProgramInv, parseGroupingSet
    PROVE  ProgramInv'
<1>1. CASE At("parseGroupingSet")
  BY <1>1, AtPoint, AtOne, NoneHeld, Forward, CallExpressionKeeps, ReturnNewKeeps, SelectBegin,
     SelectKinds, ExpressionsBegin, SelectPoints
     DEF parseGroupingSet, ReturnList, LOWEST
<1>2. CASE At("parseGroupingSet.Element")
  BY <1>2, AtPoint, AtOne, Found, Forward, CallExpressionKeeps, ReturnNewKeeps,
     ExpressionsBegin, SelectPoints, SelectKinds
     DEF parseGroupingSet, ReturnList, LOWEST
<1>3. CASE At("parseGroupingSet.Single")
  BY <1>3, AtOne, PassOn, SelectPoints DEF parseGroupingSet
<1> QED BY <1>1, <1>2, <1>3 DEF parseGroupingSet, ReturnList

LEMMA parseForClauseKeeps ==
    ASSUME ProgramInv, parseForClause
    PROVE  ProgramInv'
BY AtPoint, NoneHeld, Forward, ContinueKeeps, FailKeeps, GiveUpKeeps, ReturnNewKeeps,
   SelectBegin,
   SelectKinds, SelectPoints, WordsNumbered
   DEF parseForClause, Require

-----------------------------------------------------------------------------
(* FROM and the table references.                                          *)
LEMMA parseTableHintsKeeps ==
    ASSUME ProgramInv, parseTableHints
    PROVE  ProgramInv'
BY AtPoint, NoneHeld, Forward, ContinueKeeps, ExpectKeeps, ReturnExpectingKeeps, TablesBegin,
   TablesPoints, ListEndAhead, TablesKinds
   DEF parseTableHints

LEMMA parseTemporalClauseKeeps ==
    ASSUME ProgramInv, parseTemporalClause
    PROVE  ProgramInv'
BY AtPoint, NoneHeld, NilHeld, NilAppended, Lacking, Found, Forward, CallExpressionKeeps,
   ReturnExpectingKeeps, ReturnFlawedKeeps, ReturnNewKeeps, ExpressionsBegin, TablesBegin,
   TablesPoints, TablesKinds
   DEF parseTemporalClause, LOWEST, AND_PREC

LEMMA parseValuesRowsKeeps ==
    ASSUME ProgramInv, parseValuesRows
    PROVE  ProgramInv'
BY AtPoint, Kept, Found, Forward, CallExpressionKeeps, ContinueKeeps, FailKeeps, GiveUpKeeps,
   ReturnNewKeeps, ExpressionsBegin, TablesBegin, TablesPoints, WordsNumbered, TablesKinds
   DEF parseValuesRows, Require, LOWEST

LEMMA parseOpenJsonColumnsKeeps ==
    ASSUME ProgramInv, parseOpenJsonColumns
    PROVE  ProgramInv'
BY AtPoint, NoneHeld, Kept, Found, Forward, CallKeeps, ContinueKeeps, ReturnExpectingKeeps,
   TablesBegin, TablesPoints, TablesKinds, ConversionsBegin
   DEF parseOpenJsonColumns

LEMMA parseTableSampleKeeps ==
    ASSUME ProgramInv, parseTableSample
    PROVE  ProgramInv'
BY AtPoint, NoneHeld, Found, Forward, CallExpressionKeeps, FailKeeps, GiveUpKeeps,
   ReturnExpectingKeeps, ReturnFlawedKeeps, ReturnNewKeeps, ExpressionsBegin, TablesBegin,
   TablesPoints, WordsNumbered, TablesKinds
   DEF parseTableSample, Require, LOWEST

LEMMA PivotEndKeeps ==
    ASSUME ProgramInv, stack # <<>>, NEW kind \in ProgramKinds, NEW kids, Holds(kind, kids),
           NEW m, pos + m \in Nat, PivotEnd(kind, kids, m), m \in Int
    PROVE  ProgramInv'
<1>1. pos \in Nat /\ Top.at \in Nat
  BY AtTop
<1>2. PICK alias \in Nat : ReturnNew(kind, Top.at, kids, m + alias)
  BY DEF PivotEnd
<1>3. pos + (m + alias) \in Nat
  BY <1>1
<1> QED BY <1>1, <1>2, <1>3, ReturnNewKeeps

LEMMA PivotValuesKeeps ==
    ASSUME ProgramInv, stack # <<>>, NEW kind \in ProgramKinds, NEW kids, Holds(kind, kids),
           NEW k \in Nat, PivotValues(kind, kids, k)
    PROVE  ProgramInv'
<1> DEFINE last == ListEnd(pos + k + 2, "COMMA") - pos
<1>1. pos \in Nat /\ Reading
  BY AtTop DEF Reading
<1>2. last \in Int /\ pos + last \in Nat /\ pos + (last + 2) \in Nat
  BY <1>1, ListEndAhead
<1>3. Require(last, <<"RPAREN", "RPAREN">>, PivotEnd(kind, kids, last + 2))
  BY DEF PivotValues
<1> HIDE DEF last
<1>4. CASE Mismatches(last, <<"RPAREN", "RPAREN">>) = {}
  BY <1>2, <1>3, <1>4, PivotEndKeeps DEF Require
<1>5. CASE Mismatches(last, <<"RPAREN", "RPAREN">>) # {}
  BY <1>2, <1>3, <1>5, GiveUpKeeps, WordsNumbered DEF Require
<1> QED BY <1>4, <1>5

LEMMA parsePivotTableKeeps ==
    ASSUME ProgramInv, parsePivotTable
    PROVE  ProgramInv'
<1>1. CASE At("parsePivotTable")
  BY <1>1, AtPoint, AtOne, Kept, Forward, CallExpressionKeeps, GiveUpKeeps, ExpressionsBegin,
     TablesPoints, WordsNumbered
     DEF parsePivotTable, Require, LOWEST
<1>2. CASE At("parsePivotTable.Column")
  <2> DEFINE words == <<"RPAREN", "FOR", "any", "IN", "LPAREN">>
  <2>1. Require(0, words, PivotValues("Pivot", Got, 4))
    BY <1>2, AtOne DEF parsePivotTable
  <2>2. DOMAIN words \subseteq Nat \ {0}
    BY WordsNumbered
  <2> HIDE DEF words
  <2>3. CASE Mismatches(0, words) = {}
    <3>1. PivotValues("Pivot", Got, 4)
      BY <2>1, <2>3 DEF Require
    <3> QED BY <3>1, <1>2, AtPoint, Found, PivotValuesKeeps, TablesPoints, TablesKinds
  <2>4. CASE Mismatches(0, words) # {}
    <3>1. GiveUp(0, words)
      BY <2>1, <2>4 DEF Require
    <3> QED BY <3>1, <2>2, <2>4, <1>2, AtPoint, GiveUpKeeps
  <2> QED BY <2>3, <2>4
<1> QED BY <1>1, <1>2 DEF parsePivotTable

LEMMA parseUnpivotTableKeeps ==
    ASSUME ProgramInv, parseUnpivotTable
    PROVE  ProgramInv'
<1> DEFINE words == <<"LPAREN", "any", "FOR", "any", "IN", "LPAREN">>
<1>1. At("parseUnpivotTable") /\ Require(0, words, PivotValues("Unpivot", Top.kids, 5))
  BY DEF parseUnpivotTable
<1>2. DOMAIN words \subseteq Nat \ {0}
  BY WordsNumbered
<1> HIDE DEF words
<1>3. CASE Mismatches(0, words) = {}
  <2>1. PivotValues("Unpivot", Top.kids, 5)
    BY <1>1, <1>3 DEF Require
  <2>2. Holds("Unpivot", Top.kids)
    BY <1>1, Kept, TablesPoints
  <2> QED BY <2>1, <2>2, <1>1, AtPoint, PivotValuesKeeps, TablesKinds
<1>4. CASE Mismatches(0, words) # {}
  <2>1. GiveUp(0, words)
    BY <1>1, <1>4 DEF Require
  <2> QED BY <2>1, <1>1, <1>2, <1>4, AtPoint, GiveUpKeeps
<1> QED BY <1>3, <1>4

LEMMA parseJoinClauseKeeps ==
    ASSUME ProgramInv, parseJoinClause
    PROVE  ProgramInv'
<1>1. CASE At("parseJoinClause")
  <2> DEFINE join == JoinAt + 1
  <2>1. join \in Nat
    BY SmallStepsOK
  <2>2. \/ Call(2, "parseJoinClause.Apply", Top.kids, "parseTableReference")
        \/ Call(join, "parseJoinClause.Right", Top.kids, "parseTableReference")
    BY <1>1, AtOne DEF parseJoinClause
  <2> HIDE DEF join
  <2>3. pos + 2 \in Nat /\ pos + join \in Nat
    BY <1>1, <2>1, AtPoint
  <2> QED BY <1>1, <2>2, <2>3, AtPoint, Kept, Forward, CallKeeps, TablesBegin, TablesPoints
<1>2. CASE At("parseJoinClause.Apply")
  BY <1>2, AtPoint, AtOne, Found, ReturnNewKeeps, TablesPoints, TablesKinds DEF parseJoinClause
<1>3. CASE At("parseJoinClause.Right")
  BY <1>3, AtPoint, AtOne, Found, Forward, CallExpressionKeeps, ReturnNewKeeps,
     ExpressionsBegin, TablesPoints, TablesKinds
     DEF parseJoinClause, LOWEST
<1>4. CASE At("parseJoinClause.Condition")
  BY <1>4, AtPoint, AtOne, Found, ReturnNewKeeps, TablesPoints, TablesKinds DEF parseJoinClause
<1> QED BY <1>1, <1>2, <1>3, <1>4 DEF parseJoinClause

LEMMA parseTableReferenceKeeps ==
    ASSUME ProgramInv, parseTableReference
    PROVE  ProgramInv'
<1>1. CASE At("parseTableReference")
  <2> DEFINE name == ListEnd(pos, "DOT") - pos
             fns  == {"parseSelectStatement", "parseValuesRows", "parseTableReference",
                      "parseDeleteStatement", "parseUpdateStatement", "parseMergeStatement"}
             next == {"parseTableReference.Derived", "parseTableReference.Rows",
                      "parseTableReference.Group"}
  <2>1. \A word \in DOMAIN DmlFn : DmlFn[word] \in fns
    BY DEF DmlFn
  <2>2. name \in Nat
    BY <1>1, AtPoint, ListEndAhead
  <2>3. \/ \E q \in next : \E fn \in fns : Call(1, q, <<>>, fn)
        \/ Continue(name + 1, "parseTableReference.Function", <<>>)
        \/ Continue(name, "parseTableReference.Name", <<>>)
    <3> HIDE DEF name
    <3>1. (\E fn \in fns : Call(1, "parseTableReference.Derived", <<>>, fn))
            \/ Call(1, "parseTableReference.Rows", <<>>, "parseValuesRows")
            \/ Call(1, "parseTableReference.Group", <<>>, "parseTableReference")
            \/ Continue(name + 1, "parseTableReference.Function", <<>>)
            \/ Continue(name, "parseTableReference.Name", <<>>)
      BY <1>1, <2>1, AtOne DEF parseTableReference, TableName, TableFunction, name
    <3> QED BY <3>1
  <2>4. \A q \in next : Takes(q)
    BY TablesPoints
  <2>6. \A fn \in fns : Begins(fn)
    BY SelectBegin, TablesBegin, DmlBegin
  <2> HIDE DEF name, fns, next
  <2>7. pos + 1 \in Nat /\ pos + name \in Nat /\ pos + (name + 1) \in Nat
    BY <1>1, <2>2, AtPoint
  <2>8. CASE \E q \in next : \E fn \in fns : Call(1, q, <<>>, fn)
    BY <1>1, <2>4, <2>6, <2>7, <2>8, AtPoint, NoneHeld, Forward, CallKeeps
  <2>9. CASE \/ Continue(name + 1, "parseTableReference.Function", <<>>)
             \/ Continue(name, "parseTableReference.Name", <<>>)
    BY <1>1, <2>7, <2>9, AtPoint, NoneHeld, Forward, ContinueKeeps, TablesPoints
  <2> QED BY <2>3, <2>8, <2>9
<1>2. CASE At("parseTableReference.Group")
  <2>1. \/ CallJoin("parseTableReference.Group")
        \/ ReturnTable("ParenthesizedTable", Got, 1)
        \/ Fail(1, 0)
    BY <1>2, AtOne DEF parseTableReference, TableName, TableFunction
  <2>2. Top.pc \in TakesResult /\ Top.pc \notin MayGetNil
    BY <1>2, TablesPoints DEF At, Takes
  <2>3. Resumes("parseTableReference.Group")
    BY Forward, TablesPoints
  <2>4. "ParenthesizedTable" \in ProgramKinds /\ Holds("ParenthesizedTable", Got)
    BY <1>2, Found, TablesPoints, TablesKinds
  <2>5. pos + 1 \in Nat /\ pos + 0 \in Nat /\ stack # <<>> /\ 1 \in Nat
    BY <1>2, AtPoint
  <2> QED BY <2>1, <2>2, <2>3, <2>4, <2>5, CallJoinKeeps, ReturnTableKeeps, FailKeeps,
             TablesBegin, TablesPoints
<1>3. CASE At("parseTableReference.Derived")
  BY <1>3, AtPoint, AtOne, Found, Forward, ExpectKeeps, TablesPoints
     DEF parseTableReference, TableName, TableHints, TableFunction
<1>4. CASE At("parseTableReference.Rows")
  BY <1>4, AtPoint, AtOne, Found, Forward, ExpectKeeps, TablesPoints
     DEF parseTableReference, TableName, TableHints, TableFunction
<1>5. CASE At("parseTableReference.Alias")
  BY <1>5, AtPoint, AtOne, Kept, Found, Forward, ContinueKeeps, ExpectKeeps, ListEndAhead,
     SmallStepsOK, TablesPoints
     DEF parseTableReference, TableName, TableHints, TableFunction,
         AliasWords
<1>6. CASE At("parseTableReference.Derive")
  <2> DEFINE kind == DerivedKind
  <2>1. kind \in ProgramKinds
    BY TablesKinds DEF DerivedKind
  <2>2. ReturnTable(kind, Top.kids, 0)
    BY <1>6, AtOne DEF parseTableReference, TableName, TableFunction
  <2> HIDE DEF kind
  <2>3. Holds(kind, Top.kids) /\ 0 \in Nat /\ stack # <<>>
    BY <1>6, AtPoint, Kept, TablesPoints
  <2> QED BY <2>1, <2>2, <2>3, ReturnTableKeeps, TablesPoints
<1>7. CASE At("parseTableReference.Name")
  BY <1>7, AtPoint, AtOne, NoneHeld, Forward, CallIfKeeps, TablesBegin, TablesPoints
     DEF parseTableReference, TableName, TableHints, TableFunction
<1>8. CASE At("parseTableReference.Sampled")
  BY <1>8, AtPoint, AtOne, FoundAny, Forward, ContinueKeeps, TablesPoints
     DEF parseTableReference, TableName, TableHints, TableFunction
<1>9. CASE At("parseTableReference.Hints")
  BY <1>9, AtPoint, AtOne, Kept, Forward, CallKeeps, ComplainKeeps, ContinueKeeps, TablesBegin,
     TablesPoints
     DEF parseTableReference, TableName, TableHints, TableFunction
<1>10. CASE At("parseTableReference.Hinted")
  BY <1>10, AtPoint, AtOne, Found, Forward, ContinueKeeps, TablesPoints
     DEF parseTableReference, TableName, TableHints, TableFunction
<1>11. CASE At("parseTableReference.Time")
  BY <1>11, AtPoint, AtOne, Kept, Forward, CallIfKeeps, TablesBegin, TablesPoints
     DEF parseTableReference, TableName, TableHints, TableFunction
<1>12. CASE At("parseTableReference.Timed")
  BY <1>12, AtPoint, AtOne, FoundAny, Forward, ContinueKeeps, SmallStepsOK, TablesPoints
     DEF parseTableReference, TableName, TableHints, TableFunction,
         AliasWords
<1>13. CASE At("parseTableReference.HintsAgain")
  BY <1>13, AtPoint, AtOne, Kept, Forward, CallKeeps, ComplainKeeps, ContinueKeeps,
     TablesBegin, TablesPoints
     DEF parseTableReference, TableName, TableHints, TableFunction
<1>14. CASE At("parseTableReference.HintedAgain")
  BY <1>14, AtPoint, AtOne, Found, Forward, ContinueKeeps, TablesPoints
     DEF parseTableReference, TableName, TableHints, TableFunction
<1>15. CASE At("parseTableReference.Table")
  <2>1. ReturnTable("TableName", Top.kids, 0)
    BY <1>15, AtOne DEF parseTableReference, TableName, TableFunction
  <2>2. "TableName" \in ProgramKinds /\ Holds("TableName", Top.kids) /\ 0 \in Nat /\ stack # <<>>
    BY <1>15, AtPoint, Kept, TablesPoints, TablesKinds
  <2> QED BY <2>1, <2>2, ReturnTableKeeps, TablesPoints
<1>16. CASE At("parseTableReference.Function")
  BY <1>16, AtPoint, AtOne, NoneHeld, Found, Forward, CallExpressionKeeps, ContinueKeeps,
     TablesPoints, ExpressionsBegin
     DEF parseTableReference, TableName, TableHints, TableFunction,
         LOWEST
<1>17. CASE At("parseTableReference.Option")
  BY <1>17, AtPoint, AtOne, Kept, Forward, CallExpressionKeeps, ContinueKeeps,
     ExpectKeeps, ExpressionsBegin, TablesPoints
     DEF parseTableReference, TableName, TableHints, TableFunction,
         LOWEST
<1>18. CASE At("parseTableReference.Value")
  BY <1>18, AtPoint, AtOne, Found, Forward, ContinueKeeps, TablesPoints
     DEF parseTableReference, TableName, TableHints, TableFunction
<1>19. CASE At("parseTableReference.Argument")
  BY <1>19, AtPoint, AtOne, Found, Forward, CallExpressionKeeps, ExpectKeeps, ExpressionsBegin,
     TablesPoints
     DEF parseTableReference, TableName, TableHints, TableFunction,
         LOWEST
<1>20. CASE At("parseTableReference.With")
  BY <1>20, AtPoint, AtOne, Kept, Found, Forward, CallKeeps, ComplainKeeps, ContinueKeeps,
     TablesBegin, TablesPoints
     DEF parseTableReference, TableName, TableHints, TableFunction
<1>21. CASE At("parseTableReference.Columns")
  BY <1>21, AtPoint, AtOne, Found, Forward, ContinueKeeps, TablesPoints
     DEF parseTableReference, TableName, TableHints, TableFunction
<1> QED BY <1>1, <1>2, <1>3, <1>4, <1>5, <1>6, <1>7, <1>8, <1>9, <1>10, <1>11, <1>12, <1>13,
           <1>14, <1>15, <1>16, <1>17, <1>18, <1>19, <1>20, <1>21
           DEF parseTableReference, TableName, TableHints, TableFunction

LEMMA parseFromClauseKeeps ==
    ASSUME ProgramInv, parseFromClause
    PROVE  ProgramInv'
<1>1. CASE At("parseFromClause")
  BY <1>1, AtPoint, AtOne, NoneHeld, Forward, CallKeeps, TablesBegin, TablesPoints
     DEF parseFromClause
<1>2. CASE At("parseFromClause.Table")
  <2>1. \/ CallJoin("parseFromClause.Table")
        \/ Call(2, "parseFromClause.Table", Got, "parseTableReference")
        \/ ReturnNew("From", Top.at, Got, 0)
    BY <1>2, AtOne DEF parseFromClause
  <2>2. Top.pc \in TakesResult /\ Top.pc \notin MayGetNil
    BY <1>2, TablesPoints DEF At, Takes
  <2>3. Resumes("parseFromClause.Table")
    BY Forward, TablesPoints
  <2>4. stack # <<>> /\ pos + 2 \in Nat /\ pos + 0 \in Nat /\ Top.at \in Nat
    BY <1>2, AtPoint
  <2>5. CASE CallJoin("parseFromClause.Table")
    BY <2>2, <2>3, <2>4, <2>5, CallJoinKeeps, TablesBegin
  <2>6. CASE \/ Call(2, "parseFromClause.Table", Got, "parseTableReference")
             \/ ReturnNew("From", Top.at, Got, 0)
    BY <1>2, <2>3, <2>4, <2>6, Found, Forward, CallKeeps, ReturnNewKeeps, TablesBegin,
       TablesPoints, TablesKinds
  <2> QED BY <2>1, <2>5, <2>6
<1> QED BY <1>1, <1>2 DEF parseFromClause

-----------------------------------------------------------------------------
(* INSERT, UPDATE, DELETE, MERGE, WITH.                                    *)
LEMMA parseOutputClauseKeeps ==
    ASSUME ProgramInv, parseOutputClause
    PROVE  ProgramInv'
BY AtPoint, NoneHeld, Found, Forward, CallKeeps, ReturnExpectingKeeps, ReturnNewKeeps,
   DmlBegin, DmlPoints, ListEndAhead, DmlKinds
   DEF parseOutputClause, parseOutputColumns

LEMMA parseValuesListKeeps ==
    ASSUME ProgramInv, parseValuesList
    PROVE  ProgramInv'
BY AtPoint, NoneHeld, Found, Forward, CallKeeps, GiveUpKeeps, ReturnNewKeeps, ExpressionsBegin,
   DmlBegin, DmlPoints, WordsNumbered, DmlKinds
   DEF parseValuesList, Require

LEMMA parseInsertStatementKeeps ==
    ASSUME ProgramInv, parseInsertStatement
    PROVE  ProgramInv'
BY AtPoint, NoneHeld, Kept, Found, FoundAny, Forward, CallExpressionKeeps, CallIfKeeps,
   CallKeeps, ContinueKeeps, ExpectKeeps, ReturnNewKeeps, SkipComplainingKeeps, SkipKeeps,
   DmlBegin, DmlPoints, ExpressionsBegin, ListEndAhead, TablesBegin, SelectBegin, DmlKinds
   DEF parseInsertStatement, HintsClause, parseIdentifierList, LOWEST

LEMMA parseSetClauseKeeps ==
    ASSUME ProgramInv, parseSetClause
    PROVE  ProgramInv'
<1>1. CASE At("parseSetClause")
  BY SMTT(30), <1>1, AtPoint, AtOne, NoneHeld, NilHeld, Lacking, Forward,
     CallExpressionKeeps, FailKeeps,
     GiveUpKeeps, ReturnNewKeeps, ListEndAhead, ExpressionsBegin, DmlBegin, DmlPoints,
     DmlKinds, WordsNumbered
     DEF parseSetClause, LOWEST, Require
<1>2. CASE At("parseSetClause.Argument")
  BY <1>2, AtPoint, AtOne, NilAppended, Lacking, Found, Forward, CallExpressionKeeps,
     GiveUpKeeps, ReturnNewKeeps, ExpressionsBegin, DmlPoints, DmlKinds, WordsNumbered
     DEF parseSetClause, LOWEST, Require
<1>3. CASE At("parseSetClause.Value")
  BY <1>3, AtPoint, AtOne, Found, ReturnNewKeeps, DmlPoints, DmlKinds DEF parseSetClause
<1> QED BY <1>1, <1>2, <1>3 DEF parseSetClause

LEMMA parseDeleteStatementKeeps ==
    ASSUME ProgramInv, parseDeleteStatement
    PROVE  ProgramInv'
BY AtPoint, NoneHeld, FoundAny, Forward, CallIfKeeps, CallKeeps, ReturnNewKeeps,
   SkipComplainingKeeps, SkipKeeps, SelectBegin, DmlBegin, DmlPoints, ExpressionsBegin,
   ListEndAhead, TablesBegin, DmlKinds
   DEF parseDeleteStatement, Clause, HintsClause, WhereClause

LEMMA parseCTEDefKeeps ==
    ASSUME ProgramInv, parseCTEDef
    PROVE  ProgramInv'
BY AtPoint, NoneHeld, Found, Forward, CallKeeps, ContinueKeeps, ExpectKeeps, GiveUpKeeps,
   ReturnExpectingKeeps, ListEndAhead, DmlBegin, DmlPoints, SelectBegin, WordsNumbered,
   DmlKinds
   DEF parseCTEDef, parseIdentifierList, Require

LEMMA parseWithStatementKeeps ==
    ASSUME ProgramInv, parseWithStatement
    PROVE  ProgramInv'
BY AtPoint, NoneHeld, Lacking, Found, FoundAny, FoundLacking, Forward, CallKeeps,
   ReturnNewKeeps, DmlBegin, DmlPoints, StatementsBegin, DmlKinds
   DEF parseWithStatement

LEMMA parseWithXmlnamespacesStatementKeeps ==
    ASSUME ProgramInv, parseWithXmlnamespacesStatement
    PROVE  ProgramInv'
BY AtPoint, NoneHeld, FoundAny, Forward, CallKeeps, ContinueKeeps, GiveUpKeeps, ReturnNewKeeps,
   DmlBegin, DmlPoints, WordsNumbered, StatementsBegin, DmlKinds
   DEF parseWithXmlnamespacesStatement, Require

LEMMA parseOutputColumnKeeps ==
    ASSUME ProgramInv, parseOutputColumn
    PROVE  ProgramInv'
<1>1. CASE At("parseOutputColumn") /\ CallExpression(0, "parseOutputColumn.Expression", <<>>, LOWEST)
  BY <1>1, AtPoint, NoneHeld, Forward, CallExpressionKeeps, ExpressionsBegin, DmlPoints
     DEF LOWEST
<1>2. CASE /\ At("parseOutputColumn.Expression")
           /\ \E kind \in {"Column", "AliasedColumn"}, k \in Nat : ReturnNew(kind, Top.at, Got, k)
  BY <1>2, AtPoint, Found, ReturnNewKeeps, DmlPoints, DmlKinds
<1>3. AliasOf({"IDENT"}) \in Nat
  BY SmallStepsOK
<1> QED BY <1>1, <1>2, <1>3 DEF parseOutputColumn

LEMMA parseSetClausesKeeps ==
    ASSUME ProgramInv, parseSetClauses
    PROVE  ProgramInv'
<1>1. CASE At("parseSetClauses.Clause") /\ ret = NIL /\ Return(NIL)
  <2>1. Return(ret)
    BY <1>1
  <2> QED BY <1>1, <2>1, PassOn, DmlPoints
<1>2. CASE ~ (At("parseSetClauses.Clause") /\ ret = NIL /\ Return(NIL))
  BY <1>2, AtPoint, NoneHeld, Found, Forward, CallKeeps, ReturnNewKeeps, DmlPoints, DmlBegin,
     DmlKinds
     DEF parseSetClauses
<1> QED BY <1>1, <1>2

LEMMA parseUpdateStatementKeeps ==
    ASSUME ProgramInv, parseUpdateStatement
    PROVE  ProgramInv'
<1>1. CASE At("parseUpdateStatement")
  BY <1>1, AtPoint, AtOne, NoneHeld, Forward, CallIfKeeps, SelectBegin, DmlBegin, DmlPoints
     DEF parseUpdateStatement, HintsClause, Clause, WhereClause
<1>2. CASE At("parseUpdateStatement.Target")
  BY <1>2, AtPoint, AtOne, FoundAny, Forward, CallKeeps, SkipKeeps, ExpressionsBegin,
     DmlPoints, ListEndAhead
     DEF parseUpdateStatement, HintsClause, Clause, WhereClause
<1>3. CASE At("parseUpdateStatement.Hints")
  BY <1>3, AtPoint, AtOne, FoundAny, Forward, CallKeeps, SkipComplainingKeeps, SkipKeeps,
     DmlPoints, TablesBegin
     DEF parseUpdateStatement, HintsClause, Clause, WhereClause
<1>4. CASE At("parseUpdateStatement.Set")
  BY <1>4, AtPoint, AtOne, FoundAny, Forward, CallKeeps, GiveUpKeeps, SmallStepsOK, DmlBegin,
     DmlPoints, WordsNumbered
     DEF parseUpdateStatement, HintsClause, Clause, WhereClause, Require
<1>5. CASE At("parseUpdateStatement.Output")
  BY <1>5, AtPoint, AtOne, FoundAny, Forward, CallIfKeeps, DmlBegin, DmlPoints
     DEF parseUpdateStatement, HintsClause, Clause, WhereClause
<1>6. CASE At("parseUpdateStatement.From")
  BY <1>6, AtPoint, AtOne, FoundAny, Forward, CallIfKeeps, TablesBegin, DmlPoints
     DEF parseUpdateStatement, HintsClause, Clause, WhereClause
<1>7. CASE At("parseUpdateStatement.Where")
  BY <1>7, AtPoint, AtOne, FoundAny, Forward, CallIfKeeps, SkipKeeps, DmlPoints,
     ExpressionsBegin
     DEF parseUpdateStatement, HintsClause, Clause, WhereClause
<1>8. CASE At("parseUpdateStatement.End")
  BY <1>8, AtPoint, AtOne, FoundAny, ReturnNewKeeps, DmlPoints, DmlKinds
     DEF parseUpdateStatement, HintsClause, Clause, WhereClause
<1> QED BY <1>1, <1>2, <1>3, <1>4, <1>5, <1>6, <1>7, <1>8
           DEF parseUpdateStatement, HintsClause, Clause, WhereClause

LEMMA parseMergeStatementKeeps ==
    ASSUME ProgramInv, parseMergeStatement
    PROVE  ProgramInv'
<1>1. CASE At("parseMergeStatement")
  BY SMTT(30), <1>1, AtPoint, AtOne, NoneHeld, Forward, CallKeeps, ContinueKeeps, ListEndAhead,
     MergeIntoOK, DmlBegin, DmlPoints, TablesBegin
     DEF parseMergeStatement, MergeSource, parseIdentifierList
<1>2. CASE At("parseMergeStatement.Using")
  BY <1>2, AtPoint, AtOne, NoneHeld, Forward, ContinueKeeps, GiveUpKeeps, SmallStepsOK,
     DmlPoints, WordsNumbered
     DEF parseMergeStatement, MergeSource, parseIdentifierList, Require
<1>3. CASE At("parseMergeStatement.Source")
  BY <1>3, AtPoint, AtOne, NoneHeld, NilHeld, Lacking, Forward, ForwardMore, CallKeeps,
     ContinueKeeps, SelectBegin, DmlPoints, TablesBegin, SourceEndOK, ListEndAhead
     DEF parseMergeStatement, MergeSource, parseIdentifierList
<1>4. CASE At("parseMergeStatement.Derived")
  BY <1>4, AtPoint, AtOne, Found, Forward, ForwardMore, ContinueKeeps, GiveUpKeeps, DmlPoints,
     WordsNumbered
     DEF parseMergeStatement, MergeSource, parseIdentifierList, Require
<1>5. CASE At("parseMergeStatement.Rows")
  BY <1>5, AtPoint, AtOne, Found, Forward, ForwardMore, ContinueKeeps, GiveUpKeeps, DmlPoints,
     WordsNumbered
     DEF parseMergeStatement, MergeSource, parseIdentifierList, Require
<1>6. CASE At("parseMergeStatement.Alias")
  BY <1>6, AtPoint, AtOne, KeptMore, Forward, ForwardMore, ContinueKeeps, ExpectKeeps,
     ListEndAhead, SmallStepsOK, DmlPoints
     DEF parseMergeStatement, MergeSource, parseIdentifierList
<1>7. CASE At("parseMergeStatement.On")
  BY <1>7, AtPoint, AtOne, KeptMore, Forward, ForwardMore, CallExpressionKeeps, GiveUpKeeps,
     ExpressionsBegin, DmlPoints, WordsNumbered
     DEF parseMergeStatement, MergeSource, parseIdentifierList, Require, LOWEST
<1>8. CASE At("parseMergeStatement.Condition")
  BY <1>8, AtPoint, AtOne, FoundMore, Forward, ForwardMore, ContinueKeeps, DmlPoints
     DEF parseMergeStatement, MergeSource, parseIdentifierList
<1>9. CASE At("parseMergeStatement.When")
  BY <1>9, AtPoint, AtOne, KeptMore, Forward, ForwardMore, CallIfKeeps, CallKeeps, DmlBegin,
     DmlPoints
     DEF parseMergeStatement, MergeSource, parseIdentifierList
<1>10. CASE At("parseMergeStatement.Clause")
  BY <1>10, AtPoint, AtOne, FoundMore, Forward, ForwardMore, ContinueKeeps, DmlPoints
     DEF parseMergeStatement, MergeSource, parseIdentifierList
<1>11. CASE At("parseMergeStatement.End")
  BY <1>11, AtPoint, AtOne, Lacking, FoundMore, ForwardMore, ReturnNewKeeps, DmlPoints,
     DmlKinds
     DEF parseMergeStatement, MergeSource, parseIdentifierList
<1> QED BY <1>1, <1>2, <1>3, <1>4, <1>5, <1>6, <1>7, <1>8, <1>9, <1>10, <1>11
           DEF parseMergeStatement, MergeSource, parseIdentifierList

LEMMA parseMergeWhenClauseKeeps ==
    ASSUME ProgramInv, parseMergeWhenClause
    PROVE  ProgramInv'
<1>1. CASE At("parseMergeWhenClause")
  <2>1. CASE Return(NIL)
    <3>1. NIL \in Nat /\ NIL <= Len(heap)
      BY DEF NIL, ProgramInv, MachineTypeOK
    <3> QED BY <1>1, <2>1, <3>1, AtPoint, Left, ReturnKeeps, DmlBegin
  <2>2. CASE ~ Return(NIL)
    BY <1>1, <2>2, AtPoint, AtOne, NoneHeld, Forward, ContinueKeeps, GiveUpKeeps, DmlBegin,
       DmlPoints, WordsNumbered
       DEF parseMergeWhenClause, parseIdentifierList, Require
  <2> QED BY <2>1, <2>2
<1>2. CASE At("parseMergeWhenClause.And")
  BY <1>2, AtPoint, AtOne, NoneHeld, Forward, CallIfKeeps, ExpressionsBegin, DmlPoints
     DEF parseMergeWhenClause, parseIdentifierList
<1>3. CASE At("parseMergeWhenClause.Then")
  BY <1>3, AtPoint, AtOne, FoundAny, Forward, ContinueKeeps, GiveUpKeeps, DmlPoints,
     WordsNumbered
     DEF parseMergeWhenClause, parseIdentifierList, Require
<1>4. CASE At("parseMergeWhenClause.Action")
  BY <1>4, AtPoint, AtOne, Kept, Forward, CallKeeps, ContinueKeeps, ExpectKeeps, GiveUpKeeps,
     ReturnNewKeeps, DmlBegin, DmlPoints, WordsNumbered, ListEndAhead, DmlKinds
     DEF parseMergeWhenClause, parseIdentifierList, Require
<1>5. CASE At("parseMergeWhenClause.Values")
  BY <1>5, AtPoint, AtOne, Kept, Forward, CallKeeps, GiveUpKeeps, ExpressionsBegin, DmlPoints,
     WordsNumbered
     DEF parseMergeWhenClause, parseIdentifierList, Require
<1>6. CASE At("parseMergeWhenClause.End")
  BY <1>6, AtPoint, AtOne, FoundAny, ReturnNewKeeps, DmlPoints, DmlKinds
     DEF parseMergeWhenClause, parseIdentifierList
<1> QED BY <1>1, <1>2, <1>3, <1>4, <1>5, <1>6 DEF parseMergeWhenClause, parseIdentifierList

-----------------------------------------------------------------------------
(* DECLARE, SET, EXEC and cursors.                                         *)
LEMMA parseVariableDefKeeps ==
    ASSUME ProgramInv, parseVariableDef
    PROVE  ProgramInv'
BY AtPoint, NoneHeld, Found, Forward, CallExpressionKeeps, CallKeeps, ReturnNewKeeps,
   TableDefinitionsBegin, DeclarationsBegin, DeclarationsPoints, ConversionsBegin,
   DeclarationsKinds, ExpressionsBegin
   DEF parseVariableDef, LOWEST

LEMMA parseDeclareStatementKeeps ==
    ASSUME ProgramInv, parseDeclareStatement
    PROVE  ProgramInv'
BY AtPoint, NoneHeld, Found, HandedOn, Forward, CallKeeps, ReturnNewKeeps, TailCallKeeps,
   DeclarationsBegin, DeclarationsPoints, DeclarationsKinds
   DEF parseDeclareStatement

LEMMA ResultSetKeeps ==
    ASSUME ProgramInv, ResultSet
    PROVE  ProgramInv'
BY AtPoint, NoneHeld, Found, Forward, CallKeeps, GiveUpKeeps, ReturnNewKeeps, ConversionsBegin,
   DeclarationsBegin, DeclarationsPoints, WordsNumbered, DeclarationsKinds
   DEF ResultSet, Require

LEMMA parseResultSetsKeeps ==
    ASSUME ProgramInv, parseResultSets
    PROVE  ProgramInv'
BY AtPoint, NoneHeld, Found, Forward, CallKeeps, GiveUpKeeps, ReturnExpectingKeeps,
   DeclarationsBegin, DeclarationsPoints, WordsNumbered, DeclarationsKinds
   DEF parseResultSets, Require

LEMMA parseExecParameterKeeps ==
    ASSUME ProgramInv, parseExecParameter
    PROVE  ProgramInv'
BY AtPoint, NoneHeld, Found, Forward, CallExpressionKeeps, ReturnNewKeeps, ExpressionsBegin,
   DeclarationsBegin, DeclarationsPoints, DeclarationsKinds
   DEF parseExecParameter, LOWEST

LEMMA parseExecStatementKeeps ==
    ASSUME ProgramInv, parseExecStatement
    PROVE  ProgramInv'
BY AtPoint, NoneHeld, Kept, Found, FoundAny, HandedOn, Forward, CallExpressionKeeps, CallKeeps,
   ContinueKeeps, ExpectKeeps, ReturnNewKeeps, SkipKeeps, TailCallKeeps, DeclarationsBegin,
   ExpressionsBegin, DeclarationsPoints, ListEndAhead, DeclarationsKinds
   DEF parseExecStatement, ReturnExec, ExecWith, LOWEST

LEMMA parseExecuteAsStatementKeeps ==
    ASSUME ProgramInv, parseExecuteAsStatement
    PROVE  ProgramInv'
BY AtPoint, NoneHeld, ReturnNewKeeps, DeclarationsBegin, DeclarationsKinds
   DEF parseExecuteAsStatement

LEMMA parseRevertStatementKeeps ==
    ASSUME ProgramInv, parseRevertStatement
    PROVE  ProgramInv'
BY AtPoint, NoneHeld, Found, Forward, CallExpressionKeeps, ReturnNewKeeps, ExpressionsBegin,
   DeclarationsBegin, DeclarationsPoints, DeclarationsKinds
   DEF parseRevertStatement, LOWEST

LEMMA parseReconfigureStatementKeeps ==
    ASSUME ProgramInv, parseReconfigureStatement
    PROVE  ProgramInv'
BY AtPoint, NoneHeld, ReturnNewKeeps, DeclarationsBegin, DeclarationsKinds
   DEF parseReconfigureStatement

LEMMA parseOpenSymmetricKeyStatementKeeps ==
    ASSUME ProgramInv, parseOpenSymmetricKeyStatement
    PROVE  ProgramInv'
BY AtPoint, Kept, ReturnNewKeeps, ProtectionPastOK, Row1, Row3, StepsTake, DeclarationsBegin,
   DeclarationsKinds
   DEF parseOpenSymmetricKeyStatement, ReturnAt

LEMMA parseOpenCursorStatementKeeps ==
    ASSUME ProgramInv, parseOpenCursorStatement
    PROVE  ProgramInv'
BY AtPoint, NoneHeld, HandedOn, Forward, HandOnKeeps, ReturnNewKeeps, DeclarationsBegin,
   DeclarationsKinds
   DEF parseOpenCursorStatement

LEMMA parseCloseCursorStatementKeeps ==
    ASSUME ProgramInv, parseCloseCursorStatement
    PROVE  ProgramInv'
BY AtPoint, NoneHeld, Kept, ReturnNewKeeps, DeclarationsBegin, DeclarationsKinds, Row2,
   StepsTake
   DEF parseCloseCursorStatement, ReturnAt, Texts

(* SET with an option the parser knows: what is taken lies ahead.          *)
LEMMA SetOptionKeeps ==
    ASSUME ProgramInv, At("parseSetStatement"), NEW k, SetOption(k), pos + k \in Nat
    PROVE  ProgramInv'
BY AtPoint, NoneHeld, ReturnNewKeeps, DeclarationsKinds DEF SetOption

LEMMA SetTransactionKeeps ==
    ASSUME ProgramInv, At("parseSetStatement"), parseSetTransactionIsolation
    PROVE  ProgramInv'
<1>1. CASE Mismatches(1, <<"ISOLATION", "LEVEL">>) = {}
  <2>1. \E k \in IF Tok(pos + 4) \in Texts THEN {4, 5} ELSE {4} : SetOption(k)
    BY <1>1 DEF parseSetTransactionIsolation, Require
  <2>2. PICK k : k \in {4, 5} /\ SetOption(k)
    BY <2>1
  <2> QED BY <2>2, AtPoint, SetOptionKeeps
<1>2. CASE Mismatches(1, <<"ISOLATION", "LEVEL">>) # {}
  <2>1. GiveUp(1, <<"ISOLATION", "LEVEL">>)
    BY <1>2 DEF parseSetTransactionIsolation, Require
  <2> QED BY <2>1, <1>2, AtPoint, GiveUpKeeps, WordsNumbered
<1> QED BY <1>1, <1>2

LEMMA SetsOptionKeeps ==
    ASSUME ProgramInv, At("parseSetStatement"), SetsOption
    PROVE  ProgramInv'
<1>1. CASE Peek = "OFFSETS" /\ \E j \in (pos + 2)..(pos + Len(input) + 3) : OffsetsEnd(j) /\ SetOption(j - pos)
  <2>1. PICK j : j \in (pos + 2)..(pos + Len(input) + 3) /\ SetOption(j - pos)
    BY <1>1
  <2>2. pos + (j - pos) \in Nat
    BY <2>1, AtPoint
  <2> QED BY <2>1, <2>2, SetOptionKeeps
<1>2. CASE SetOption(ListEnd(pos + 1, "COMMA") + 1 - pos)
  BY <1>2, AtPoint, SetOptionKeeps, ListEndAhead
<1>3. CASE SetOption(2) \/ SetOption(3)
  BY <1>3, AtPoint, SetOptionKeeps
<1>4. CASE parseSetTransactionIsolation
  BY <1>4, SetTransactionKeeps
<1> QED BY <1>1, <1>2, <1>3, <1>4 DEF SetsOption

LEMMA NamedOptionKeeps ==
    ASSUME ProgramInv, At("parseSetStatement"), NamedOption
    PROVE  ProgramInv'
BY AtPoint, NoneHeld, Forward, CallExpressionKeeps, SetOptionKeeps, ListEndAhead,
   ExpressionsBegin, DeclarationsPoints
   DEF NamedOption, LOWEST

LEMMA parseSetStatementKeeps ==
    ASSUME ProgramInv, parseSetStatement
    PROVE  ProgramInv'
<1>1. CASE At("parseSetStatement") /\ (SetsOption \/ NamedOption)
  BY <1>1, SetsOptionKeeps, NamedOptionKeeps
<1>2. CASE ~ (At("parseSetStatement") /\ (SetsOption \/ NamedOption))
  BY <1>2, AtPoint, NoneHeld, Kept, Found, Forward, CallExpressionKeeps, CallKeeps,
     ContinueKeeps, FailKeeps, ReturnNewKeeps, DeclarationsKinds, ExpressionsBegin,
     DeclarationsPoints, LeavesBegin
     DEF parseSetStatement, LOWEST, CALL
<1> QED BY <1>1, <1>2

LEMMA parseDeclareCursorStatementKeeps ==
    ASSUME ProgramInv, parseDeclareCursorStatement
    PROVE  ProgramInv'
<1>1. CASE At("parseDeclareCursorStatement")
  <2>1. parseCursorOptions(pos + 2) \in Nat /\ pos + parseCursorOptions(pos + 2) \in Nat
    BY <1>1, AtPoint, CursorOptionsAhead
  <2> QED
  BY <1>1, <2>1, AtPoint, AtOne, NoneHeld, Forward, CallKeeps, SkipKeeps,
     SelectBegin, DeclarationsBegin, DeclarationsPoints
     DEF parseDeclareCursorStatement
<1>2. CASE At("parseDeclareCursorStatement.ForSelect")
  BY <1>2, AtPoint, AtOne, FoundAny, ReturnNewKeeps, ForUpdateEndOK, DeclarationsPoints,
     DeclarationsKinds
     DEF parseDeclareCursorStatement
<1> QED BY <1>1, <1>2 DEF parseDeclareCursorStatement

-----------------------------------------------------------------------------
(* The statements that hold no others.                                     *)
LEMMA parseBeginTransactionStatementKeeps ==
    ASSUME ProgramInv, parseBeginTransactionStatement
    PROVE  ProgramInv'
BY AtPoint, NoneHeld, ReturnNewKeeps, SimpleStatementsBegin, SimpleStatementsKinds
   DEF parseBeginTransactionStatement

LEMMA parseCommitStatementKeeps ==
    ASSUME ProgramInv, parseCommitStatement
    PROVE  ProgramInv'
BY AtPoint, NoneHeld, ReturnNewKeeps, SimpleStatementsBegin, SimpleStatementsKinds
   DEF parseCommitStatement, Transaction

LEMMA parseRollbackStatementKeeps ==
    ASSUME ProgramInv, parseRollbackStatement
    PROVE  ProgramInv'
BY AtPoint, NoneHeld, ReturnNewKeeps, SimpleStatementsBegin, SimpleStatementsKinds
   DEF parseRollbackStatement, Transaction

LEMMA parseSaveTransactionStatementKeeps ==
    ASSUME ProgramInv, parseSaveTransactionStatement
    PROVE  ProgramInv'
BY AtPoint, NoneHeld, ReturnNewKeeps, SimpleStatementsBegin, SimpleStatementsKinds
   DEF parseSaveTransactionStatement, Transaction

LEMMA parseThrowStatementKeeps ==
    ASSUME ProgramInv, parseThrowStatement
    PROVE  ProgramInv'
BY AtPoint, NoneHeld, Lacking, Kept, Found, Forward, CallExpressionKeeps, FailKeeps,
   ReturnNewKeeps, SimpleStatementsBegin, SimpleStatementsKinds, ExpressionsBegin,
   SimpleStatementsPoints
   DEF parseThrowStatement, LOWEST

LEMMA parseRaiserrorStatementKeeps ==
    ASSUME ProgramInv, parseRaiserrorStatement
    PROVE  ProgramInv'
BY AtPoint, NoneHeld, Kept, Found, Forward, CallExpressionKeeps, ComplainKeeps, ContinueKeeps,
   FailKeeps, ReturnNewKeeps, ExpressionsBegin, SimpleStatementsBegin, SimpleStatementsPoints,
   SimpleStatementsKinds
   DEF parseRaiserrorStatement, LOWEST

LEMMA parseReturnStatementKeeps ==
    ASSUME ProgramInv, parseReturnStatement
    PROVE  ProgramInv'
BY AtPoint, NoneHeld, Found, Forward, CallExpressionKeeps, ReturnNewKeeps,
   SimpleStatementsBegin, SimpleStatementsKinds, ExpressionsBegin, SimpleStatementsPoints
   DEF parseReturnStatement, LOWEST

LEMMA parseBreakStatementKeeps ==
    ASSUME ProgramInv, parseBreakStatement
    PROVE  ProgramInv'
BY AtPoint, NoneHeld, ReturnNewKeeps, SimpleStatementsBegin, SimpleStatementsKinds
   DEF parseBreakStatement

LEMMA parseContinueStatementKeeps ==
    ASSUME ProgramInv, parseContinueStatement
    PROVE  ProgramInv'
BY AtPoint, NoneHeld, ReturnNewKeeps, SimpleStatementsBegin, SimpleStatementsKinds
   DEF parseContinueStatement

LEMMA parsePrintStatementKeeps ==
    ASSUME ProgramInv, parsePrintStatement
    PROVE  ProgramInv'
BY AtPoint, NoneHeld, Found, Forward, CallExpressionKeeps, ReturnNewKeeps, ExpressionsBegin,
   SimpleStatementsBegin, SimpleStatementsPoints, SimpleStatementsKinds
   DEF parsePrintStatement, LOWEST

LEMMA parseWaitforStatementKeeps ==
    ASSUME ProgramInv, parseWaitforStatement
    PROVE  ProgramInv'
BY AtPoint, NoneHeld, Found, Forward, CallExpressionKeeps, ReturnNewKeeps, ExpressionsBegin,
   SimpleStatementsBegin, SimpleStatementsPoints, SimpleStatementsKinds
   DEF parseWaitforStatement, LOWEST

LEMMA parseUseStatementKeeps ==
    ASSUME ProgramInv, parseUseStatement
    PROVE  ProgramInv'
BY AtPoint, NoneHeld, ReturnNewKeeps, SimpleStatementsBegin, SimpleStatementsKinds
   DEF parseUseStatement

LEMMA parseGotoStatementKeeps ==
    ASSUME ProgramInv, parseGotoStatement
    PROVE  ProgramInv'
BY AtPoint, NoneHeld, ReturnNewKeeps, SimpleStatementsBegin, SimpleStatementsKinds
   DEF parseGotoStatement

LEMMA parseDeallocateCursorStatementKeeps ==
    ASSUME ProgramInv, parseDeallocateCursorStatement
    PROVE  ProgramInv'
BY AtPoint, NoneHeld, ReturnNewKeeps, SimpleStatementsBegin, SimpleStatementsKinds
   DEF parseDeallocateCursorStatement

LEMMA parseLabelStatementKeeps ==
    ASSUME ProgramInv, parseLabelStatement
    PROVE  ProgramInv'
BY AtPoint, NoneHeld, ReturnNewKeeps, SimpleStatementsBegin, SimpleStatementsKinds
   DEF parseLabelStatement

LEMMA parseExpressionStatementKeeps ==
    ASSUME ProgramInv, parseExpressionStatement
    PROVE  ProgramInv'
BY AtPoint, NoneHeld, Found, Forward, CallExpressionKeeps, ReturnNewKeeps, ExpressionsBegin,
   SimpleStatementsBegin, SimpleStatementsPoints, SimpleStatementsKinds
   DEF parseExpressionStatement, LOWEST

LEMMA parseFetchStatementKeeps ==
    ASSUME ProgramInv, parseFetchStatement
    PROVE  ProgramInv'
BY AtPoint, NoneHeld, Kept, Found, Forward, CallExpressionKeeps, ContinueKeeps, ReturnNewKeeps,
   SimpleStatementsBegin, SimpleStatementsPoints, ExpressionsBegin, SimpleStatementsKinds
   DEF parseFetchStatement, LOWEST

-----------------------------------------------------------------------------
(* The dispatch and the statements that hold others.                       *)
LEMMA ParseProgramKeeps ==
    ASSUME ProgramInv, ParseProgram
    PROVE  ProgramInv'
BY AtPoint, Kept, FoundAny, Forward, CallKeeps, ContinueKeeps, ReturnNewKeeps,
   StatementsPoints, StatementsKinds, StatementsBegin
   DEF ParseProgram

LEMMA parseIfStatementKeeps ==
    ASSUME ProgramInv, parseIfStatement
    PROVE  ProgramInv'
BY AtPoint, NoneHeld, Lacking, Found, FoundAny, FoundLacking, FoundMore, Forward, ForwardMore,
   CallExpressionKeeps, CallKeeps, ReturnNewKeeps, ExpressionsBegin, StatementsBegin,
   StatementsPoints, SemicolonsOK, StatementsKinds
   DEF parseIfStatement, LOWEST

LEMMA parseWhileStatementKeeps ==
    ASSUME ProgramInv, parseWhileStatement
    PROVE  ProgramInv'
BY AtPoint, NoneHeld, Lacking, Found, FoundAny, FoundLacking, Forward, CallExpressionKeeps,
   CallKeeps, ReturnNewKeeps, ExpressionsBegin, StatementsBegin, StatementsPoints,
   StatementsKinds
   DEF parseWhileStatement, LOWEST

LEMMA parseBeginStatementKeeps ==
    ASSUME ProgramInv, parseBeginStatement
    PROVE  ProgramInv'
BY AtPoint, HandedOn, Forward, TailCallKeeps, StatementsBegin, ConversationsBegin,
   SimpleStatementsBegin
   DEF parseBeginStatement

LEMMA parseBeginEndBlockKeeps ==
    ASSUME ProgramInv, parseBeginEndBlock
    PROVE  ProgramInv'
BY AtPoint, NoneHeld, Kept, FoundAny, Forward, CallKeeps, ContinueKeeps, ReturnNewKeeps,
   StatementsBegin, StatementsPoints, SemicolonsOK, StatementsKinds
   DEF parseBeginEndBlock

LEMMA StatementFnBegins ==
    \A t : StatementFn(t) = "nil" \/ Begins(StatementFn(t)) \/ Leaves(StatementFn(t))
<1> TAKE t
<1>1. CASE t \in {"IF", "INSERT", "UPDATE", "DELETE", "MERGE", "WITH", "WITH_XMLNAMESPACES",
                  "WHILE", "BEGIN", "RETURN", "BREAK", "CONTINUE", "PRINT", "THROW",
                  "RAISERROR", "COMMIT", "ROLLBACK", "USE", "WAITFOR", "SAVE"}
  BY <1>1, StatementsBegin, DmlBegin, SimpleStatementsBegin DEF StatementFn
<1>2. CASE t \in {"GOTO", "FETCH_KW", "DEALLOCATE", "LPAREN", "DECLARE", "SET", "EXEC",
                  "EXECUTE", "CREATE", "CREATE_RULE", "ALTER", "DROP", "TRUNCATE",
                  "TRUNCATE_TABLE", "ENABLE", "DISABLE"}
  BY <1>2, SimpleStatementsBegin, StatementsBegin, DeclarationsBegin, DefinitionsBegin,
     TableDefinitionsBegin, RoutinesBegin DEF StatementFn
<1>3. CASE t \in {"OPEN", "CLOSE", "BULK", "REVERT", "RECONFIGURE", "DBCC", "BACKUP",
                  "RESTORE", "SEND", "RECEIVE", "MOVE", "END_CONVERSATION", "GET"}
  BY <1>3, DeclarationsBegin, AdministrationBegin, ConversationsBegin, DefinitionsBegin,
     StorageBegin DEF StatementFn
<1> QED BY <1>1, <1>2, <1>3 DEF StatementFn

LEMMA parseStatementKeeps ==
    ASSUME ProgramInv, parseStatement
    PROVE  ProgramInv'
<1>1. CASE At("parseStatement")
  <2> DEFINE fn == StatementFn(Cur)
             k  == Semicolons(pos)
             far == Skipped(pos)
  <2>1. /\ stack # <<>> /\ pos \in Nat /\ k \in Nat /\ far \in Nat
        /\ Leaves("parseStatement") /\ Top.pc \in MayReturnNil
    BY <1>1, AtPoint, SemicolonsOK, SkippedOK, StatementsBegin, Left
  <2>2. Resumes("parseStatement") /\ Passes("parseStatement")
    BY <2>1 DEF Leaves, Ordinary, Resumes, Passes
  <2>3. fn = "nil" \/ Begins(fn) \/ Leaves(fn)
    BY StatementFnBegins
  <2>4. \/ Continue(k, "parseStatement", <<>>)
        \/ fn # "nil" /\ (TailCall(1, "parseUpdateStatisticsStatement") \/ TailCall(0, fn))
        \/ Call(0, "parseStatement.Select", <<>>, "parseSelectStatement")
        \/ Return(NIL)
        \/ ReturnNil(far)
        \/ TailCall(0, "parseLabelStatement") \/ TailCall(0, "parseExpressionStatement")
    <3>1. ~ At("parseStatement.Select")
      BY <1>1, AtOne
    <3> HIDE DEF fn, k, far
    <3>2. fn = StatementFn(Cur) /\ k = Semicolons(pos) /\ far = Skipped(pos)
      BY DEF fn, k, far
    <3> QED BY <3>1, <3>2 DEF parseStatement
  <2> HIDE DEF fn, k, far
  <2>5. /\ Begins("parseUpdateStatisticsStatement") /\ Begins("parseLabelStatement")
        /\ Begins("parseExpressionStatement")
    BY SimpleStatementsBegin, AdministrationBegin, DefinitionsBegin, DmlBegin
  <2>6. NIL \in Nat /\ NIL <= Len(heap) /\ pos + k \in Nat /\ pos + far \in Nat /\ pos + 0 \in Nat
        /\ pos + 1 \in Nat
    BY <2>1, AtTop DEF NIL
  <2>7. \A g : Begins(g) \/ Leaves(g) => Hands(g)
    BY <1>1, <2>1, HandedOn
  <2> QED BY <2>1, <2>2, <2>3, <2>4, <2>5, <2>6, <2>7, NoneHeld, Forward, CallKeeps,
             ContinueKeeps, ReturnKeeps, ReturnNilKeeps, TailCallKeeps, SelectBegin,
             StatementsPoints
<1>2. CASE At("parseStatement.Select")
  <2>1. /\ stack # <<>> /\ pos \in Nat /\ Top.at \in Nat /\ Top.pc = "parseStatement.Select"
        /\ Takes("parseStatement.Select")
    BY <1>2, AtPoint, StatementsPoints DEF At
  <2>2. CASE ret = NIL
    <3>1. errors # <<>>
      BY <2>1, <2>2, ResultFound DEF Takes
    <3>2. <<0>> \in Seq(Nat) /\ DOMAIN <<0>> = {1} /\ Len(heap) \in Nat
      BY <2>1, AtTop
    <3>3. Holds("NilSelect", <<NIL>>)
      BY <3>1, <3>2 DEF Holds, NIL
    <3>4. ReturnNew("NilSelect", Top.at, <<NIL>>, 0)
      BY <1>2, <2>2, AtOne DEF parseStatement
    <3> QED BY <2>1, <3>3, <3>4, ReturnNewKeeps, StatementsKinds
  <2>3. CASE ret # NIL
    <3>1. Return(ret)
      BY <1>2, <2>3, AtOne DEF parseStatement
    <3> QED BY <1>2, <2>1, <3>1, PassOn
  <2> QED BY <2>2, <2>3
<1> QED BY <1>1, <1>2 DEF parseStatement

(* A statement of a TRY or a CATCH block is kept if it is any.             *)
LEMMA SectionKeeps ==
    ASSUME ProgramInv, NEW loop, NEW statement, NEW word, NEW next,
           Section(loop, statement, word, next),
           loop \in ProgramPoints, loop \notin TakesResult, loop \notin NeedsOperand,
           loop \notin NilHolders,
           Ordinary(statement), statement \in TakesResult, statement \in MayGetNil,
           Ordinary(next), next \notin TakesResult,
           statement \in MayReturnNil => loop \in MayReturnNil,
           loop \in MayReturnNil => statement \in MayReturnNil,
           next \in MayReturnNil => loop \in MayReturnNil
    PROVE  ProgramInv'
<1>1. CASE At(loop)
  <2> DEFINE k == Semicolons(pos)
  <2>1. stack # <<>> /\ pos \in Nat /\ k \in Nat /\ Top.pc = loop
    BY <1>1, AtPoint, SemicolonsOK DEF At
  <2>2. pos + 0 \in Nat /\ pos + k \in Nat /\ pos + (k + 2) \in Nat
    BY <2>1
  <2>3. \A x : Holds(x, Top.kids)
    BY <2>1, TopHeld
  <2>4. \/ Continue(0, next, Top.kids) \/ Continue(k + 2, next, Top.kids)
        \/ Call(k, statement, Top.kids, "parseStatement")
    BY <1>1, AtOne DEF Section
  <2> HIDE DEF k
  <2>5. Resumes(next) /\ Passes(next) /\ Resumes(statement)
    BY <2>1 DEF Ordinary, Resumes, Passes
  <2>6. Calls(statement, "parseStatement")
    BY StatementsBegin DEF Leaves, Ordinary, Calls
  <2> QED BY <2>1, <2>2, <2>3, <2>4, <2>5, <2>6, ContinueKeeps, CallKeeps
<1>2. CASE At(statement)
  <2> DEFINE k == IF EndOf(word, pos) THEN 0 ELSE 1 + Semicolons(pos + 1)
  <2>1. stack # <<>> /\ pos \in Nat /\ Semicolons(pos + 1) \in Nat /\ Top.pc = statement
    BY <1>2, AtPoint, SemicolonsOK DEF At
  <2>2. pos + k \in Nat
    BY <2>1
  <2>3. Continue(k, loop, GotIfAny)
    BY <1>2, AtOne DEF Section, Ordinary
  <2> HIDE DEF k
  <2>4. Holds(loop, GotIfAny)
    BY <2>1, GotHeld DEF Ordinary
  <2>5. Resumes(loop) /\ Passes(loop)
    BY <2>1 DEF Ordinary, Resumes, Passes
  <2> QED BY <2>1, <2>2, <2>3, <2>4, <2>5, ContinueKeeps
<1> QED BY <1>1, <1>2 DEF Section

LEMMA parseTryCatchStatementKeeps ==
    ASSUME ProgramInv, parseTryCatchStatement
    PROVE  ProgramInv'
<1>1. CASE /\ At("parseTryCatchStatement")
           /\ Continue(2, "parseTryCatchStatement.Try", <<>>)
  <2>1. /\ Leaves("parseTryCatchStatement") /\ Leaves("parseTryCatchStatement.Try")
        /\ Top.pc \in MayReturnNil /\ stack # <<>> /\ pos + 2 \in Nat
    BY <1>1, AtPoint, Left, StatementsBegin, StatementsPoints
  <2>2. Resumes("parseTryCatchStatement.Try") /\ Passes("parseTryCatchStatement.Try")
    BY <2>1 DEF Leaves, Ordinary, Resumes, Passes
  <2> QED BY <1>1, <2>1, <2>2, NoneHeld, ContinueKeeps
<1>2. CASE Section("parseTryCatchStatement.Try", "parseTryCatchStatement.Tried", "TRY",
                   "parseTryCatchStatement.Between")
  <2>1. /\ Leaves("parseTryCatchStatement.Try") /\ Leaves("parseTryCatchStatement.Between")
        /\ Ordinary("parseTryCatchStatement.Tried")
        /\ "parseTryCatchStatement.Tried" \in TakesResult
        /\ "parseTryCatchStatement.Tried" \in MayGetNil
        /\ "parseTryCatchStatement.Tried" \in MayReturnNil
    BY StatementsPoints DEF Ordinary
  <2> QED BY <1>2, <2>1, SectionKeeps DEF Leaves, Ordinary
<1>3. CASE /\ At("parseTryCatchStatement.Between")
           /\ \/ Continue(2, "parseTryCatchStatement.Catch", Top.kids)
              \/ Return(NIL)
  <2>1. /\ Leaves("parseTryCatchStatement.Between") /\ Begins("parseTryCatchStatement.Catch")
        /\ Top.pc \in MayReturnNil /\ stack # <<>> /\ pos + 2 \in Nat
    BY <1>3, AtPoint, Left, StatementsPoints
  <2>2. Holds("parseTryCatchStatement.Catch", Top.kids)
    BY <1>3, <2>1, Kept
  <2>3. NIL \in Nat /\ NIL <= Len(heap)
    BY <2>1, AtTop DEF NIL
  <2> QED BY <1>3, <2>1, <2>2, <2>3, Forward, ContinueKeeps, ReturnKeeps
<1>4. CASE Section("parseTryCatchStatement.Catch", "parseTryCatchStatement.Caught", "CATCH",
                   "parseTryCatchStatement.Close")
  <2>1. /\ Begins("parseTryCatchStatement.Catch") /\ Begins("parseTryCatchStatement.Close")
        /\ Gets("parseTryCatchStatement.Caught")
    BY StatementsPoints
  <2> QED BY <1>4, <2>1, SectionKeeps DEF Begins, Gets, Ordinary
<1>5. CASE /\ At("parseTryCatchStatement.Close")
           /\ \E k \in {Semicolons(pos), Semicolons(pos) + 1} :
                 ReturnNew("TryCatch", Top.at, Top.kids, k)
  <2>1. Semicolons(pos) \in Nat /\ pos \in Nat /\ stack # <<>> /\ Top.at \in Nat
    BY <1>5, AtPoint, SemicolonsOK
  <2>2. Holds("TryCatch", Top.kids)
    BY <1>5, Kept, StatementsPoints
  <2> QED BY <1>5, <2>1, <2>2, ReturnNewKeeps, StatementsKinds
<1> QED BY <1>1, <1>2, <1>3, <1>4, <1>5 DEF parseTryCatchStatement

LEMMA parseParenthesizedSelectStatementKeeps ==
    ASSUME ProgramInv, parseParenthesizedSelectStatement
    PROVE  ProgramInv'
<1> DEFINE inner == "parseParenthesizedSelectStatement.Inner"
           set   == "parseParenthesizedSelectStatement.Set"
           right == "parseParenthesizedSelectStatement.Right"
<1>1. CASE At("parseParenthesizedSelectStatement")
  BY <1>1, AtPoint, AtOne, NoneHeld, HandedOn, Forward, CallKeeps, TailCallKeeps, SelectBegin,
     StatementsBegin, StatementsPoints, SimpleStatementsBegin
     DEF parseParenthesizedSelectStatement
<1>2. CASE At("parseParenthesizedSelectStatement.Inner")
  <2>1. stack # <<>> /\ pos \in Nat /\ Top.pc = inner /\ Takes(inner)
    BY <1>2, AtPoint, StatementsPoints DEF At
  <2>2. Continue(1, set, Got) \/ Fail(1, 0)
    BY <1>2, AtOne DEF parseParenthesizedSelectStatement
  <2>3. CASE Continue(1, set, Got)
    <3>1. Got # <<>> /\ Holds(set, Got) /\ set \in ProgramPoints /\ set \notin TakesResult
          /\ set \notin MayReturnNil
      BY <1>2, <2>1, GotHeld, Found, StatementsPoints DEF Takes
    <3>2. /\ stack' = [stack EXCEPT ![Len(stack)] = Frame(set, Top.prec, Top.at, Top.lo, Got)]
          /\ pos' = pos + 1 /\ UNCHANGED <<input, ret, heap, errors>>
      BY <2>3 DEF Continue, Resume
    <3>3. pos' \in Nat /\ Top.at \in Nat /\ Passes(set)
      BY <2>1, <3>1, <3>2, AtTop DEF Passes
    <3> QED BY <2>1, <3>1, <3>2, <3>3, MoveKeeps
  <2>4. CASE Fail(1, 0)
    BY <2>1, <2>4, FailKeeps
  <2> QED BY <2>2, <2>3, <2>4
<1>3. CASE At("parseParenthesizedSelectStatement.Set")
  <2>1. /\ stack # <<>> /\ pos \in Nat /\ Top.at \in Nat /\ Top.pc = set
        /\ set \in NeedsOperand /\ set \notin NilHolders
    BY <1>3, AtPoint, StatementsPoints DEF At
  <2>2. Top.kids # <<>> /\ \A x : Holds(x, Top.kids)
    BY <2>1, AtTop, TopHeld
  <2>3. \E k \in {0, 2, 3} :
           \/ \E kind \in {"NilSelect", "Select"} : ReturnNew(kind, Top.at, Top.kids, k)
           \/ Call(k, right, Top.kids, "parseSelectStatement")
           \/ Call(k, right, Top.kids, "parseParenthesizedSelectStatement")
    BY <1>3, AtOne DEF parseParenthesizedSelectStatement
  <2>4. PICK k \in {0, 2, 3} :
           \/ \E kind \in {"NilSelect", "Select"} : ReturnNew(kind, Top.at, Top.kids, k)
           \/ Call(k, right, Top.kids, "parseSelectStatement")
           \/ Call(k, right, Top.kids, "parseParenthesizedSelectStatement")
    BY <2>3
  <2>5. pos + k \in Nat
    BY <2>1
  <2>6. CASE \E kind \in {"NilSelect", "Select"} : ReturnNew(kind, Top.at, Top.kids, k)
    BY <2>1, <2>2, <2>5, <2>6, ReturnNewKeeps, StatementsKinds
  <2>7. ASSUME NEW fn, Begins(fn), Call(k, right, Top.kids, fn)
        PROVE  ProgramInv'
    <3> DEFINE callee == Frame(fn, 0, pos + k, pos + k, <<>>)
    <3>1. Calls(right, fn)
      BY <2>7, Forward
    <3>2. /\ callee \in Frames(ProgramPoints) /\ callee.pc \notin TakesResult
          /\ callee.pc \notin NeedsOperand
          /\ callee.pc \in MayReturnNil => right \in MayGetNil
          /\ Holds(callee.pc, callee.kids)
      BY <2>5, <3>1, NewCall
    <3>3. CallFrame(k, right, Top.kids, callee)
      BY <2>7 DEF Call
    <3>4. right \in ProgramPoints /\ right \notin MayReturnNil
      BY StatementsPoints
    <3> HIDE DEF callee
    <3> QED BY <2>1, <2>2, <2>5, <3>2, <3>3, <3>4, CallHoldingKeeps
  <2> QED BY <2>4, <2>6, <2>7, SelectBegin, StatementsBegin
<1>4. CASE At("parseParenthesizedSelectStatement.Right")
  <2>1. /\ stack # <<>> /\ pos \in Nat /\ Top.at \in Nat /\ Top.pc = right
        /\ right \in NeedsOperand /\ right \notin NilHolders /\ right \in TakesResult
        /\ right \notin MayGetNil
    BY <1>4, AtPoint, StatementsPoints DEF At
  <2>2. /\ Top.kids # <<>> /\ \A x : Holds(x, Top.kids) /\ Holds(x, Got)
    BY <2>1, AtTop, TopHeld, GotHeld
  <2>3. \/ Top.kids[1] = NIL /\ Panic
        \/ \E kids \in {Got, Top.kids} : ReturnNew("Select", Top.at, kids, 0)
    BY <1>4, AtOne DEF parseParenthesizedSelectStatement
  <2>4. CASE Top.kids[1] = NIL /\ Panic
    <3>1. Top.kids \in Seq(Nat) /\ (errors = <<>> => Complete(Top.kids))
      BY <2>1, AtTop DEF Holds
    <3>2. 1 \in DOMAIN Top.kids
      BY <2>2, <3>1
    <3> QED BY <2>1, <2>4, <3>1, <3>2, PanicKeeps DEF Complete
  <2>5. CASE \E kids \in {Got, Top.kids} : ReturnNew("Select", Top.at, kids, 0)
    BY <2>1, <2>2, <2>5, ReturnNewKeeps, StatementsKinds
  <2> QED BY <2>3, <2>4, <2>5
<1> QED BY <1>1, <1>2, <1>3, <1>4 DEF parseParenthesizedSelectStatement

-----------------------------------------------------------------------------
(* CREATE and ALTER, indexes, sequences, statistics.                       *)
LEMMA parseCreateXmlIndexStatementKeeps ==
    ASSUME ProgramInv, parseCreateXmlIndexStatement
    PROVE  ProgramInv'
<1>1. CASE At("parseCreateXmlIndexStatement")
  BY SMTT(30), <1>1, AtPoint, AtOne, NoneHeld, Forward, ExpectKeeps, FailKeeps, GiveUpKeeps,
     DefinitionsBegin, ListEndAhead, DefinitionsPoints, WordsNumbered
     DEF parseCreateXmlIndexStatement, Require
<1>2. CASE At("parseCreateXmlIndexStatement.Using")
  BY <1>2, AtPoint, AtOne, NoneHeld, ReturnNewKeeps, RestOfStatementOK, DefinitionsPoints,
     DefinitionsKinds
     DEF parseCreateXmlIndexStatement
<1> QED BY <1>1, <1>2 DEF parseCreateXmlIndexStatement

LEMMA parseCreateDefaultStatementKeeps ==
    ASSUME ProgramInv, parseCreateDefaultStatement
    PROVE  ProgramInv'
BY AtPoint, NoneHeld, Found, Forward, CallExpressionKeeps, GiveUpKeeps, ReturnNewKeeps,
   ListEndAhead, ExpressionsBegin, DefinitionsBegin, DefinitionsPoints, WordsNumbered,
   DefinitionsKinds
   DEF parseCreateDefaultStatement, NamedExpression, Require, LOWEST

LEMMA parseCreateRuleStatementKeeps ==
    ASSUME ProgramInv, parseCreateRuleStatement
    PROVE  ProgramInv'
BY AtPoint, NoneHeld, Found, Forward, CallExpressionKeeps, GiveUpKeeps, ReturnNewKeeps,
   ListEndAhead, ExpressionsBegin, DefinitionsBegin, DefinitionsPoints, WordsNumbered,
   DefinitionsKinds
   DEF parseCreateRuleStatement, NamedExpression, Require, LOWEST

LEMMA parseCreateTypeStatementKeeps ==
    ASSUME ProgramInv, parseCreateTypeStatement
    PROVE  ProgramInv'
<1>1. CASE At("parseCreateTypeStatement")
  BY <1>1, AtPoint, AtOne, NoneHeld, NilHeld, Lacking, Forward, CallKeeps, ReturnNewKeeps,
     ListEndAhead, TableDefinitionsBegin, DefinitionsBegin, DefinitionsPoints,
     DefinitionsKinds, ConversionsBegin
     DEF parseCreateTypeStatement
<1>2. CASE At("parseCreateTypeStatement.Table")
  BY <1>2, AtPoint, AtOne, NoneHeld, Lacking, ReturnNewKeeps, WithOptionsOK, DefinitionsPoints,
     DefinitionsKinds
     DEF parseCreateTypeStatement
<1>3. CASE At("parseCreateTypeStatement.BaseType")
  BY <1>3, AtPoint, AtOne, Lacking, Found, ReturnNewKeeps, DefinitionsPoints, DefinitionsKinds
     DEF parseCreateTypeStatement
<1> QED BY <1>1, <1>2, <1>3 DEF parseCreateTypeStatement

LEMMA parseCreateSynonymStatementKeeps ==
    ASSUME ProgramInv, parseCreateSynonymStatement
    PROVE  ProgramInv'
BY AtPoint, NoneHeld, NilHeld, Lacking, ReturnNewKeeps, ListEndAhead, DefinitionsBegin,
   DefinitionsKinds
   DEF parseCreateSynonymStatement

LEMMA parseCreateSchemaStatementKeeps ==
    ASSUME ProgramInv, parseCreateSchemaStatement
    PROVE  ProgramInv'
BY AtPoint, NoneHeld, ReturnNewKeeps, DefinitionsBegin, DefinitionsKinds
   DEF parseCreateSchemaStatement

LEMMA parseAlterDatabaseStatementKeeps ==
    ASSUME ProgramInv, parseAlterDatabaseStatement
    PROVE  ProgramInv'
BY AtPoint, NoneHeld, ReturnNewKeeps, FirstInAhead, DefinitionsBegin, DefinitionsKinds
   DEF parseAlterDatabaseStatement

LEMMA parseCreateSequenceStatementKeeps ==
    ASSUME ProgramInv, parseCreateSequenceStatement
    PROVE  ProgramInv'
BY AtPoint, NoneHeld, Kept, Found, Forward, CallExpressionKeeps, CallKeeps, ContinueKeeps,
   ReturnNewKeeps, ListEndAhead, DefinitionsBegin, DefinitionsPoints, DefinitionsKinds,
   ExpressionsBegin, ConversionsBegin
   DEF parseCreateSequenceStatement, SequenceOption, Takes, StartNumber, LOWEST

LEMMA parseAlterSequenceStatementKeeps ==
    ASSUME ProgramInv, parseAlterSequenceStatement
    PROVE  ProgramInv'
BY AtPoint, NoneHeld, Kept, Found, Forward, CallExpressionKeeps, ContinueKeeps, ReturnNewKeeps,
   ListEndAhead, DefinitionsBegin, DefinitionsPoints, DefinitionsKinds, ExpressionsBegin
   DEF parseAlterSequenceStatement, SequenceOption, Takes, StartNumber, LOWEST

LEMMA parseUpdateStatisticsStatementKeeps ==
    ASSUME ProgramInv, parseUpdateStatisticsStatement
    PROVE  ProgramInv'
BY AtPoint, NoneHeld, Forward, ContinueKeeps, ReturnNewKeeps, ListEndAhead, DefinitionsBegin,
   DefinitionsPoints, DefinitionsKinds
   DEF parseUpdateStatisticsStatement

LEMMA parseStatisticsWithOptionsKeeps ==
    ASSUME ProgramInv, parseStatisticsWithOptions
    PROVE  ProgramInv'
BY AtPoint, NoneHeld, Forward, ContinueKeeps, ReturnNewKeeps, DefinitionsPoints,
   DefinitionsKinds
   DEF parseStatisticsWithOptions

LEMMA parseCreateIndexStatementKeeps ==
    ASSUME ProgramInv, parseCreateIndexStatement
    PROVE  ProgramInv'
<1>1. CASE At("parseCreateIndexStatement") \/ At("parseCreateIndexStatement.Include")
  BY <1>1, AtPoint, AtOne, NoneHeld, Forward, ContinueKeeps, GiveUpKeeps, ListEndAhead,
     NamesInParenthesesOK, DefinitionsBegin, DefinitionsPoints, WordsNumbered
     DEF parseCreateIndexStatement, Require
<1>2. CASE At("parseCreateIndexStatement.Options")
  <2>1. WithOptions(pos) - pos \in Nat
    BY <1>2, AtPoint, WithOptionsOK
  <2> QED
    BY <1>2, <2>1, AtPoint, AtOne, NoneHeld, Forward, CallExpressionKeeps, SkipKeeps,
       ExpressionsBegin, DefinitionsPoints
       DEF parseCreateIndexStatement, LOWEST
<1>3. CASE At("parseCreateIndexStatement.Column")
  BY <1>3, AtPoint, AtOne, NoneHeld, Forward, ContinueKeeps, DefinitionsPoints
     DEF parseCreateIndexStatement
<1>4. CASE At("parseCreateIndexStatement.Where")
  BY <1>4, AtPoint, AtOne, FoundAny, ReturnNewKeeps, IndexTailOK, DefinitionsPoints,
     DefinitionsKinds
     DEF parseCreateIndexStatement
<1> QED BY <1>1, <1>2, <1>3, <1>4 DEF parseCreateIndexStatement

LEMMA parseAlterIndexStatementKeeps ==
    ASSUME ProgramInv, parseAlterIndexStatement
    PROVE  ProgramInv'
<1>1. CASE At("parseAlterIndexStatement")
  <2> DEFINE action == ListEnd(pos + 3, "DOT") + 1 - pos
  <2>1. action \in Nat
    BY <1>1, AtPoint, ListEndAhead
  <2>2. \/ \E k \in {action, action + 2, action + 3} :
              \/ Continue(k, "parseAlterIndexStatement.Set", <<>>)
              \/ Continue(k, "parseAlterIndexStatement.With", <<>>)
              \/ ReturnNew("AlterIndex", Top.at, <<>>, k)
        \/ Fail(2, 1)
        \/ ReturnFlawed("AlterIndex", Top.at, <<>>, action + 1, action + 2)
    BY <1>1, AtOne DEF parseAlterIndexStatement, OptionList
  <2> HIDE DEF action
  <2> QED BY SMTT(30), <1>1, <2>1, <2>2, AtPoint, NoneHeld, Forward, ContinueKeeps, FailKeeps,
             ReturnFlawedKeeps, ReturnNewKeeps, DefinitionsPoints, DefinitionsKinds
<1>2. CASE OptionList("parseAlterIndexStatement.Set", {"COMMA", "EQ"}, "AlterIndex")
  BY <1>2, AtPoint, NoneHeld, Forward, ContinueKeeps, ReturnNewKeeps, DefinitionsPoints,
     DefinitionsKinds
     DEF OptionList
<1>3. CASE OptionList("parseAlterIndexStatement.With", {"COMMA"}, "AlterIndex")
  BY <1>3, AtPoint, NoneHeld, Forward, ContinueKeeps, ReturnNewKeeps, DefinitionsPoints,
     DefinitionsKinds
     DEF OptionList
<1> QED BY <1>1, <1>2, <1>3 DEF parseAlterIndexStatement

LEMMA parseCreateXmlSchemaCollectionStatementKeeps ==
    ASSUME ProgramInv, parseCreateXmlSchemaCollectionStatement
    PROVE  ProgramInv'
<1>1. CASE At("parseCreateXmlSchemaCollectionStatement")
  BY <1>1, AtPoint, AtOne, NoneHeld, Forward, CallExpressionKeeps, GiveUpKeeps, ReturnNewKeeps,
     ListEndAhead, DefinitionsBegin, DefinitionsKinds, ExpressionsBegin, DefinitionsPoints,
     WordsNumbered
     DEF parseCreateXmlSchemaCollectionStatement, Require, LOWEST
<1>2. CASE At("parseCreateXmlSchemaCollectionStatement.Text")
  <2>1. \/ ReturnNew("CreateXmlSchema", Top.at, GotIfAny, 0)
        \/ ~ Whole(Got) /\ Panic
    BY <1>2, AtOne DEF parseCreateXmlSchemaCollectionStatement
  <2>2. "CreateXmlSchema" \notin NilHolders
    BY DEF NilHolders, MayHoldNil, MayLack
  <2> QED BY <1>2, <2>1, <2>2, AtPoint, Found, BrokenPanicKeeps, ReturnNewKeeps,
             DefinitionsPoints, DefinitionsKinds
<1> QED BY <1>1, <1>2 DEF parseCreateXmlSchemaCollectionStatement

LEMMA parseCreateStatisticsStatementKeeps ==
    ASSUME ProgramInv, parseCreateStatisticsStatement
    PROVE  ProgramInv'
<1>1. CASE At("parseCreateStatisticsStatement")
  <2> DEFINE table   == IF Tok(pos + 2) = "ON" THEN ListEnd(pos + 3, "DOT") ELSE pos + 2
             Ends(j) == Tok(j) \in {"RPAREN", "EOF"} \/ Tok(j + 1) # "COMMA"
             names   == {j \in (table + 2)..(table + Len(input) + 3) : (j - table) % 2 = 0 /\ Ends(j)}
  <2>1. table \in Nat /\ pos <= table
    BY <1>1, AtPoint, ListEndAhead
  <2>2. First(names) \in Nat /\ table <= First(names)
    BY <1>1, <2>1, AtPoint, StatisticsEndOK
  <2>3. \/ Expect("RPAREN", First(names) - pos, "parseCreateStatisticsStatement.With", <<>>)
        \/ Continue(table - pos, "parseCreateStatisticsStatement.With", <<>>)
    BY <1>1, AtOne DEF parseCreateStatisticsStatement
  <2> HIDE DEF table, names
  <2> QED BY <1>1, <2>1, <2>2, <2>3, AtPoint, NoneHeld, Forward, ContinueKeeps, ExpectKeeps,
             DefinitionsPoints
<1>2. CASE At("parseCreateStatisticsStatement.With")
  BY <1>2, AtPoint, AtOne, NoneHeld, Forward, ContinueKeeps, ReturnNewKeeps, DefinitionsPoints,
     DefinitionsKinds, DefinitionsBegin
     DEF parseCreateStatisticsStatement
<1> QED BY <1>1, <1>2 DEF parseCreateStatisticsStatement

LEMMA parseBulkInsertStatementKeeps ==
    ASSUME ProgramInv, parseBulkInsertStatement
    PROVE  ProgramInv'
<1>1. CASE At("parseBulkInsertStatement")
  <2> DEFINE file == ListEnd(pos + 2, "DOT") + 2 - pos
  <2>1. file \in Nat /\ file - 2 \in Nat
    BY <1>1, AtPoint, ListEndAhead
  <2>2. CASE Fail(1, 0)
    BY <1>1, <2>2, AtPoint, FailKeeps
  <2>3. CASE ~ Fail(1, 0)
    <3>1. \/ Mismatches(file - 2, <<"FROM">>) # {} /\ GiveUp(file - 2, <<"FROM">>)
          \/ ReturnFlawed("BulkInsert", Top.at, <<>>, file + 1, file + 2)
          \/ Continue(file + 3, "parseBulkInsertStatement.Option", <<>>)
          \/ ReturnNew("BulkInsert", Top.at, <<>>, file)
      BY <1>1, <2>3, AtOne DEF parseBulkInsertStatement, Require
    <3> HIDE DEF file
    <3> QED BY SMTT(30), <1>1, <2>1, <3>1, AtPoint, NoneHeld, Forward, ContinueKeeps,
               GiveUpKeeps,
               ReturnFlawedKeeps, ReturnNewKeeps, DefinitionsKinds, WordsNumbered,
               DefinitionsPoints
  <2> QED BY <2>2, <2>3
<1>2. CASE At("parseBulkInsertStatement.Option")
  BY <1>2, AtPoint, AtOne, NoneHeld, Forward, ContinueKeeps, ReturnNewKeeps, DefinitionsPoints,
     DefinitionsKinds, ClosingOK
     DEF parseBulkInsertStatement
<1> QED BY <1>1, <1>2 DEF parseBulkInsertStatement

(* What CREATE and ALTER call begins like any other function.              *)
LEMMA CreateFnBegins ==
    \A object \in DOMAIN CreateFn : Begins(CreateFn[object]) \/ Leaves(CreateFn[object])
<1> DEFINE objects ==
               {"VIEW", "INDEX", "FUNCTION", "DEFAULT_KW", "XML_SCHEMA_COLLECTION", "TRIGGER",
                "TYPE_WARNING", "SYNONYM", "SEQUENCE", "STATISTICS", "LOGIN", "USER", "ROLE",
                "MASTER", "CERTIFICATE", "SYMMETRIC", "ASYMMETRIC", "ASSEMBLY", "PARTITION",
                "FULLTEXT", "RESOURCE", "WORKLOAD", "AVAILABILITY", "MESSAGE", "CONTRACT",
                "QUEUE", "SERVICE", "SCHEMA", "DATABASE"}
           fns ==
               {"parseCreateViewStatement", "parseCreateIndexStatement",
                "parseCreateFunctionStatement", "parseCreateDefaultStatement",
                "parseCreateXmlSchemaCollectionStatement", "parseCreateTriggerStatement",
                "parseCreateTypeStatement", "parseCreateSynonymStatement",
                "parseCreateSequenceStatement", "parseCreateStatisticsStatement",
                "parseCreateLoginStatement", "parseCreateUserStatement",
                "parseCreateRoleStatement", "parseCreateMasterKeyStatement",
                "parseCreateCertificateStatement", "parseCreateSymmetricKeyStatement",
                "parseCreateAsymmetricKeyStatement", "parseCreateAssemblyStatement",
                "parseCreatePartitionStatement", "parseCreateFulltextStatement",
                "parseCreateResourcePoolStatement", "parseCreateWorkloadGroupStatement",
                "parseCreateAvailabilityGroupStatement", "parseCreateMessageTypeStatement",
                "parseCreateContractStatement", "parseCreateQueueStatement",
                "parseCreateServiceStatement", "parseCreateSchemaStatement",
                "parseCreateDatabaseOrScopedCredential"}
<1>1. DOMAIN CreateFn = objects
  BY DEF CreateFn
<1>2. \A object \in objects : CreateFn[object] \in fns
  BY DEF CreateFn
<1>3. \A fn \in fns : Begins(fn) \/ Leaves(fn)
  BY DefinitionsBegin, RoutinesBegin, AdministrationBegin, StorageBegin, SecurityBegin,
     ConversationsBegin
<1> HIDE DEF objects, fns
<1> QED BY <1>1, <1>2, <1>3

LEMMA AlterFnBegins ==
    \A object \in DOMAIN AlterFn : Begins(AlterFn[object]) \/ Leaves(AlterFn[object])
<1> DEFINE objects ==
               {"VIEW", "FUNCTION", "TRIGGER", "PROCEDURE", "PROC", "INDEX", "SEQUENCE",
                "LOGIN", "USER", "ROLE", "ASSEMBLY", "PARTITION", "FULLTEXT", "RESOURCE",
                "WORKLOAD", "AVAILABILITY", "QUEUE", "DATABASE"}
           fns ==
               {"parseAlterViewStatement", "parseAlterFunctionStatement",
                "parseAlterTriggerStatement", "parseAlterProcedureStatement",
                "parseAlterIndexStatement", "parseAlterSequenceStatement",
                "parseAlterLoginStatement", "parseAlterUserStatement",
                "parseAlterRoleStatement", "parseAlterAssemblyStatement",
                "parseAlterPartitionStatement", "parseAlterFulltextStatement",
                "parseAlterResourceStatement", "parseAlterWorkloadGroupStatement",
                "parseAlterAvailabilityGroupStatement", "parseAlterQueueStatement",
                "parseAlterDatabaseStatement"}
<1>1. DOMAIN AlterFn = objects
  BY DEF AlterFn
<1>2. \A object \in objects : AlterFn[object] \in fns
  BY DEF AlterFn
<1>3. \A fn \in fns : Begins(fn) \/ Leaves(fn)
  BY DefinitionsBegin, RoutinesBegin, AdministrationBegin, StorageBegin, SecurityBegin,
     ConversationsBegin
<1> HIDE DEF objects, fns
<1> QED BY <1>1, <1>2, <1>3

LEMMA CreateLeaves ==
    ASSUME ProgramInv, At("parseCreateStatement") \/ At("parseAlterStatement"), NEW k, ReturnNil(k),
           pos + k \in Nat
    PROVE  ProgramInv'
BY AtPoint, Left, ReturnNilKeeps, DefinitionsBegin

LEMMA CreateGoesOn ==
    ASSUME ProgramInv, At("parseCreateStatement") \/ At("parseAlterStatement"), NEW k, NEW fn,
           HandOn(k, fn) \/ TailCall(k, fn), pos + k \in Nat, Begins(fn) \/ Leaves(fn)
    PROVE  ProgramInv'
BY AtPoint, HandedOn, HandOnKeeps, TailCallKeeps, DefinitionsBegin

LEMMA CreateIndexKeeps ==
    ASSUME ProgramInv, At("parseCreateStatement"), NEW k \in Nat, CreateIndex(k)
    PROVE  ProgramInv'
<1>1. PICK j \in Nat : IndexAt(j) \/ ReturnNil(j)
  <2>1. Clustered(pos + k) + 1 - pos \in Nat
    BY AtPoint, SmallEndsOK
  <2> QED BY <2>1 DEF CreateIndex
<1>2. ReturnNil(j) \/ HandOn(j, "parseCreateIndexStatement")
  BY <1>1 DEF IndexAt
<1> QED BY <1>2, AtPoint, CreateLeaves, CreateGoesOn, DefinitionsBegin

LEMMA parseCreateStatementKeeps ==
    ASSUME ProgramInv, parseCreateStatement
    PROVE  ProgramInv'
<1>1. At("parseCreateStatement")
  BY DEF parseCreateStatement
<1>2. PICK k \in {1, 3} :
         \/ ReturnNil(k)
         \/ TailCall(k, "parseCreateTableStatement") \/ TailCall(k, "parseCreateProcedureStatement")
         \/ HandOn(k + 1, "parseCreateServerRoleStatement")
         \/ \E object \in DOMAIN CreateFn : HandOn(k, CreateFn[object])
         \/ CreateIndex(k)
         \/ CreateXmlIndex(k)
         \/ CreateNamed(k)
  BY DEF parseCreateStatement
<1>7. k \in Nat /\ pos + k \in Nat /\ pos + (k + 1) \in Nat
  BY <1>1, AtPoint
<1>3. CASE CreateIndex(k)
  BY <1>1, <1>3, CreateIndexKeeps
<1>4. CASE CreateXmlIndex(k)
  <2>1. PICK j \in Nat : HandOn(j, "parseCreateXmlIndexStatement") \/ ReturnNil(j)
    BY <1>4 DEF CreateXmlIndex
  <2> QED BY <1>1, <2>1, AtPoint, CreateLeaves, CreateGoesOn, DefinitionsBegin
<1>5. CASE CreateNamed(k)
  <2>1. \/ HandOn(k + 1, "parseCreateApplicationRoleStatement")
        \/ HandOn(k, "parseCreateCredentialStatement")
        \/ ReturnNil(k)
    BY <1>5 DEF CreateNamed
  <2> QED BY <1>1, <2>1, <1>7, AtPoint, CreateLeaves, CreateGoesOn, SecurityBegin
<1>6. CASE \E object \in DOMAIN CreateFn : HandOn(k, CreateFn[object])
  BY <1>1, <1>6, <1>7, CreateGoesOn, CreateFnBegins
<1> QED BY <1>1, <1>2, <1>3, <1>4, <1>5, <1>6, <1>7, CreateLeaves, CreateGoesOn,
           TableDefinitionsBegin,
           RoutinesBegin, SecurityBegin

LEMMA parseAlterStatementKeeps ==
    ASSUME ProgramInv, parseAlterStatement
    PROVE  ProgramInv'
<1>1. At("parseAlterStatement")
  BY DEF parseAlterStatement
<1>2. \/ ReturnNil(1)
      \/ TailCall(1, "parseAlterTableStatement")
      \/ HandOn(2, "parseAlterServerRoleStatement") \/ HandOn(2, "parseAlterApplicationRoleStatement")
      \/ \E object \in DOMAIN AlterFn : HandOn(1, AlterFn[object])
  BY DEF parseAlterStatement
<1>3. pos + 1 \in Nat /\ pos + 2 \in Nat
  BY <1>1, AtPoint
<1> QED BY <1>1, <1>2, <1>3, CreateLeaves, CreateGoesOn, AlterFnBegins,
           TableDefinitionsBegin, SecurityBegin

-----------------------------------------------------------------------------
(* Procedures, functions, triggers and views.                              *)
LEMMA parseParameterDefKeeps ==
    ASSUME ProgramInv, parseParameterDef
    PROVE  ProgramInv'
BY AtPoint, NoneHeld, Found, FoundAny, Forward, CallExpressionKeeps, CallKeeps, ReturnNewKeeps,
   SkipKeeps, ConversionsBegin, RoutinesBegin, RoutinesPoints, ExpressionsBegin, RoutinesKinds
   DEF parseParameterDef, LOWEST

LEMMA parseParameterDefsKeeps ==
    ASSUME ProgramInv, parseParameterDefs
    PROVE  ProgramInv'
BY AtPoint, NoneHeld, Found, Forward, CallKeeps, ReturnNewKeeps, RoutinesBegin, RoutinesPoints,
   RoutinesKinds
   DEF parseParameterDefs

LEMMA parseAlterFunctionStatementKeeps ==
    ASSUME ProgramInv, parseAlterFunctionStatement
    PROVE  ProgramInv'
BY AtPoint, NoneHeld, FoundAny, Forward, CallKeeps, ContinueKeeps, GiveUpKeeps, ReturnNewKeeps,
   SkipKeeps, ListEndAhead, RoutinesBegin, RoutinesPoints, WordsNumbered, ConversionsBegin,
   FirstInAhead, StatementsBegin, RoutinesKinds
   DEF parseAlterFunctionStatement, FunctionHead, Require

LEMMA parseEnableDisableTriggerStatementKeeps ==
    ASSUME ProgramInv, parseEnableDisableTriggerStatement
    PROVE  ProgramInv'
BY AtPoint, NoneHeld, GiveUpKeeps, ReturnNewKeeps, RoutinesBegin, RoutinesKinds, TriggerEndsOK,
   WordsNumbered
   DEF parseEnableDisableTriggerStatement, Require

LEMMA parseBeginAtomicBlockKeeps ==
    ASSUME ProgramInv, parseBeginAtomicBlock
    PROVE  ProgramInv'
BY AtPoint, NoneHeld, Forward, ContinueKeeps, ClosingOK, RoutinesBegin, RoutinesPoints
   DEF parseBeginAtomicBlock

(* A view goes on to its body behind AS.                                   *)
LEMMA ViewHeadKeeps ==
    ASSUME ProgramInv, NEW p, At(p), Leaves(p), NEW q, Leaves(q), NEW options \in Nat,
           pos <= options,
           Require(options - pos, <<"AS">>, Continue(options + 2 - pos, q, <<>>))
    PROVE  ProgramInv'
<1> DEFINE k == options - pos
<1>1. stack # <<>> /\ pos \in Nat
  BY AtPoint
<1>2. k \in Int /\ pos + k \in Nat /\ options + 2 - pos = k + 2 /\ pos + (k + 2) \in Nat
  BY <1>1
<1>3. Require(k, <<"AS">>, Continue(k + 2, q, <<>>))
  BY <1>2
<1>4. Resumes(q) /\ Passes(q)
  BY Left DEF Leaves, Ordinary, Resumes, Passes
<1> HIDE DEF k
<1> QED BY <1>1, <1>2, <1>3, <1>4, NoneHeld, ContinueKeeps, GiveUpKeeps, WordsNumbered
           DEF Require

LEMMA parseCreateViewStatementKeeps ==
    ASSUME ProgramInv, parseCreateViewStatement
    PROVE  ProgramInv'
<1>1. CASE At("parseCreateViewStatement")
  <2> DEFINE columns == NamesInParentheses(ListEnd(pos + 1, "DOT"))
             options == IF Tok(columns + 1) = "WITH" THEN ListEnd(columns + 2, "COMMA")
                        ELSE columns
  <2>1. columns \in Nat /\ pos <= columns
    BY <1>1, AtPoint, ListEndAhead, NamesInParenthesesOK
  <2>2. options \in Nat /\ pos <= options
    <3> HIDE DEF columns
    <3> QED BY <1>1, <2>1, AtPoint, ListEndAhead
  <2>3. Require(options - pos, <<"AS">>,
                Continue(options + 2 - pos, "parseCreateViewStatement.Body", <<>>))
    BY <1>1, AtOne, RoutinesPoints DEF parseCreateViewStatement, ViewBody
  <2> HIDE DEF options
  <2> QED BY <1>1, <2>2, <2>3, ViewHeadKeeps, RoutinesBegin, RoutinesPoints
<1>2. CASE At("parseCreateViewStatement.Body")
  BY <1>2, AtPoint, AtOne, NoneHeld, Left, Forward, CallKeeps, ReturnNilKeeps, SelectBegin,
     RoutinesPoints, DmlBegin
     DEF parseCreateViewStatement, ViewBody
<1>3. CASE At("parseCreateViewStatement.Check")
  <2> DEFINE check == <<"WITH", "CHECK", "OPTION">>
             Agrees(k) == \A j \in 1..k : Tok(pos + j) = check[j]
             Longest(k) == Agrees(k) /\ \A j \in (k + 1)..3 : ~ Agrees(j)
             last == CHOOSE n \in 0..3 : Longest(n)
  <2>1. last \in 0..3
    <3>1. Agrees(0)
      OBVIOUS
    <3> HIDE DEF Agrees
    <3>2. \E n \in 0..3 : Longest(n)
      <4>1. CASE Agrees(3)
        BY <4>1
      <4>2. CASE ~ Agrees(3) /\ Agrees(2)
        BY <4>2
      <4>3. CASE ~ Agrees(3) /\ ~ Agrees(2) /\ Agrees(1)
        BY <4>3
      <4>4. CASE ~ Agrees(3) /\ ~ Agrees(2) /\ ~ Agrees(1)
        BY <3>1, <4>4
      <4> QED BY <4>1, <4>2, <4>3, <4>4
    <3> HIDE DEF Longest
    <3> QED BY <3>2
  <2>2. ReturnNew("CreateView", Top.at, Got, last)
    BY <1>3, AtOne DEF parseCreateViewStatement, ViewBody
  <2> HIDE DEF last
  <2>3. pos + last \in Nat
    BY <1>3, <2>1, AtPoint
  <2> QED BY <1>3, <2>2, <2>3, AtPoint, Found, ReturnNewKeeps, RoutinesPoints, RoutinesKinds
<1> QED BY <1>1, <1>2, <1>3 DEF parseCreateViewStatement, ViewBody

LEMMA parseAlterViewStatementKeeps ==
    ASSUME ProgramInv, parseAlterViewStatement
    PROVE  ProgramInv'
<1>1. CASE At("parseAlterViewStatement")
  <2> DEFINE columns == NamesInParentheses(ListEnd(pos + 1, "DOT"))
             options == IF Tok(columns + 1) = "WITH" THEN FirstIn(columns + 2, {"AS"}) - 1
                        ELSE columns
  <2>1. columns \in Nat /\ pos <= columns
    BY <1>1, AtPoint, ListEndAhead, NamesInParenthesesOK
  <2>2. options \in Nat /\ pos <= options
    <3> HIDE DEF columns
    <3> QED BY <1>1, <2>1, AtPoint, FirstInAhead
  <2>3. Require(options - pos, <<"AS">>,
                Continue(options + 2 - pos, "parseAlterViewStatement.Body", <<>>))
    BY <1>1, AtOne, RoutinesPoints DEF parseAlterViewStatement, ViewBody
  <2> HIDE DEF options
  <2> QED BY <1>1, <2>2, <2>3, ViewHeadKeeps, RoutinesBegin, RoutinesPoints
<1>2. CASE At("parseAlterViewStatement.Body")
  BY <1>2, AtPoint, AtOne, NoneHeld, Left, Forward, CallKeeps, ReturnNilKeeps, SelectBegin,
     RoutinesPoints, DmlBegin
     DEF parseAlterViewStatement, ViewBody
<1>3. CASE At("parseAlterViewStatement.End")
  BY <1>3, AtPoint, AtOne, Found, ReturnNewKeeps, RoutinesPoints, RoutinesKinds
     DEF parseAlterViewStatement, ViewBody
<1> QED BY <1>1, <1>2, <1>3 DEF parseAlterViewStatement, ViewBody

LEMMA parseCreateFunctionStatementKeeps ==
    ASSUME ProgramInv, parseCreateFunctionStatement
    PROVE  ProgramInv'
<1>1. CASE At("parseCreateFunctionStatement")
  BY SMTT(30), <1>1, AtPoint, AtOne, NoneHeld, Forward, CallKeeps, GiveUpKeeps, SkipKeeps,
     ListEndAhead,
     RoutinesBegin, RoutinesPoints, WordsNumbered
     DEF parseCreateFunctionStatement, FunctionHead, ReturnedType, BodyBlock, Require
<1>2. CASE At("parseCreateFunctionStatement.Parameters")
  BY <1>2, AtPoint, AtOne, FoundAny, Forward, ContinueKeeps, GiveUpKeeps, RoutinesPoints,
     WordsNumbered
     DEF parseCreateFunctionStatement, FunctionHead, ReturnedType, BodyBlock, Require
<1>3. CASE At("parseCreateFunctionStatement.Returns")
  <2> DEFINE options == FunctionOptionsEnd(pos) - pos
             query   == options + (IF Tok(pos + options + 3) = "LPAREN" THEN 4 ELSE 3)
  <2>1. stack # <<>> /\ pos \in Nat /\ options \in Nat
    BY <1>3, AtPoint, FunctionOptionsEndOK
  <2>2. query \in Nat
    BY <2>1
  <2>3. \A x : Holds(x, Top.kids)
    BY <1>3, Kept, RoutinesPoints
  <2>4. CASE Cur = "TABLE"
    <3>1. \/ Continue(options, "parseCreateFunctionStatement.Tail", Top.kids)
          \/ GiveUp(options + 1, <<"RETURN">>) /\ Mismatches(options + 1, <<"RETURN">>) # {}
          \/ Call(query, "parseCreateFunctionStatement.Close", Top.kids, "parseSelectStatement")
          \/ Call(query, "parseCreateFunctionStatement.Returned", Top.kids, "parseSelectStatement")
          \/ Continue(query, "parseCreateFunctionStatement.Tail", Top.kids)
          \/ Continue(query + 1, "parseCreateFunctionStatement.Tail", Top.kids)
      <4>1. \/ Continue(options, "parseCreateFunctionStatement.Tail", Top.kids)
            \/ Require(options + 1, <<"RETURN">>,
                       IF Tok(pos + query) = "SELECT"
                       THEN Call(query, IF query = options + 4 THEN "parseCreateFunctionStatement.Close"
                                                               ELSE "parseCreateFunctionStatement.Returned",
                                 Top.kids, "parseSelectStatement")
                       ELSE Continue(IF query = options + 4 /\ Tok(pos + query + 1) = "RPAREN"
                                     THEN query + 1 ELSE query,
                                     "parseCreateFunctionStatement.Tail", Top.kids))
        BY <1>3, <2>4, AtOne DEF parseCreateFunctionStatement, FunctionHead, ReturnedType
      <4> HIDE DEF options, query
      <4> QED BY <4>1 DEF Require
    <3> HIDE DEF options, query
    <3>2. /\ pos + options \in Nat /\ pos + (options + 1) \in Nat /\ options + 1 \in Int
          /\ pos + query \in Nat /\ pos + (query + 1) \in Nat
      BY <2>1, <2>2
    <3> QED BY <2>1, <2>3, <3>1, <3>2, Forward, CallKeeps, ContinueKeeps, GiveUpKeeps,
               RoutinesPoints, SelectBegin, WordsNumbered
  <2>5. CASE Cur # "TABLE"
    BY <1>3, <2>1, <2>3, <2>5, AtOne, Forward, CallKeeps, ContinueKeeps, RoutinesPoints,
       TableDefinitionsBegin, ConversionsBegin
       DEF parseCreateFunctionStatement, FunctionHead, ReturnedType
  <2> QED BY <2>4, <2>5
<1>4. CASE At("parseCreateFunctionStatement.Close")
  BY <1>4, AtPoint, AtOne, Kept, Forward, ContinueKeeps, RoutinesPoints
     DEF parseCreateFunctionStatement, FunctionHead, ReturnedType, BodyBlock
<1>5. CASE At("parseCreateFunctionStatement.Returned")
  BY <1>5, AtPoint, AtOne, Kept, Forward, ContinueKeeps, RoutinesPoints
     DEF parseCreateFunctionStatement, FunctionHead, ReturnedType, BodyBlock
<1>6. CASE At("parseCreateFunctionStatement.Type")
  BY <1>6, AtPoint, AtOne, Found, Forward, ContinueKeeps, RoutinesPoints
     DEF parseCreateFunctionStatement, FunctionHead, ReturnedType, BodyBlock
<1>7. CASE At("parseCreateFunctionStatement.Tail")
  BY SMTT(30), <1>7, AtPoint, AtOne, Kept, Forward, CallKeeps, ReturnNewKeeps,
     FunctionOptionsEndOK,
     StatementsBegin, RoutinesPoints, RoutinesBegin, RoutinesKinds
     DEF parseCreateFunctionStatement, FunctionHead, ReturnedType, BodyBlock
<1>8. CASE At("parseCreateFunctionStatement.Body")
  BY <1>8, AtPoint, AtOne, Found, ReturnNewKeeps, RoutinesPoints, RoutinesKinds
     DEF parseCreateFunctionStatement, FunctionHead, ReturnedType, BodyBlock
<1> QED BY <1>1, <1>2, <1>3, <1>4, <1>5, <1>6, <1>7, <1>8
           DEF parseCreateFunctionStatement, FunctionHead, ReturnedType, BodyBlock

(* The body of a function or a trigger, or none.                           *)
LEMMA BodyBlockKeeps ==
    ASSUME ProgramInv, stack # <<>>, NEW k \in Nat, NEW kind \in ProgramKinds, NEW pc, NEW kids,
           Resumes(pc), Holds(kind, kids), Holds(pc, kids), BodyBlock(k, kind, pc, kids)
    PROVE  ProgramInv'
<1> DEFINE body == IF Tok(pos + k + 1) = "AS" THEN k + 1 ELSE k
<1>1. pos \in Nat /\ Top.at \in Nat /\ body \in Nat
  BY AtTop
<1>2. \/ Call(body + 1, pc, kids, "parseBeginEndBlock")
      \/ Call(body + 1, pc, kids, "parseBeginAtomicBlock")
      \/ ReturnNew(kind, Top.at, kids, body)
  BY DEF BodyBlock
<1>3. pos + body \in Nat /\ pos + (body + 1) \in Nat
  BY AtTop
<1> HIDE DEF body
<1>4. Calls(pc, "parseBeginEndBlock") /\ Calls(pc, "parseBeginAtomicBlock")
  BY Forward, RoutinesBegin, StatementsBegin
<1>5. CASE \/ Call(body + 1, pc, kids, "parseBeginEndBlock")
           \/ Call(body + 1, pc, kids, "parseBeginAtomicBlock")
  BY <1>3, <1>4, <1>5, CallKeeps
<1>6. CASE ReturnNew(kind, Top.at, kids, body)
  BY <1>1, <1>3, <1>6, ReturnNewKeeps
<1> QED BY <1>2, <1>5, <1>6

LEMMA parseCreateTriggerStatementKeeps ==
    ASSUME ProgramInv, parseCreateTriggerStatement
    PROVE  ProgramInv'
<1>1. CASE At("parseCreateTriggerStatement")
  <2> DEFINE name    == ListEnd(pos + 1, "DOT")
             options == TriggerOptionsEnd(TriggerTargetEnd(name + 2))
             events  == NotForReplicationEnd(EventsEnd(options))
  <2>1. stack # <<>> /\ pos \in Nat /\ Reading
    BY <1>1, AtPoint
  <2>2. name \in Nat /\ pos <= name
    BY <2>1, ListEndAhead
  <2>3. options \in Nat /\ pos <= options
    <3> HIDE DEF name
    <3> QED BY <2>1, <2>2, TriggerEndsOK, TriggerOptionsEndOK
  <2>4. events \in Nat /\ pos <= events
    <3> HIDE DEF options
    <3> QED BY <2>1, <2>3, TriggerEndsOK
  <2>5. Require(name - pos, <<"ON">>,
                BodyBlock(events - pos, "CreateTrigger", "parseCreateTriggerStatement.Body", <<>>))
    BY <1>1, AtOne DEF parseCreateTriggerStatement
  <2>6. name - pos \in Int /\ pos + (name - pos) \in Nat /\ events - pos \in Nat
    BY <2>1, <2>2, <2>4
  <2> HIDE DEF name, events
  <2>7. \/ BodyBlock(events - pos, "CreateTrigger", "parseCreateTriggerStatement.Body", <<>>)
        \/ GiveUp(name - pos, <<"ON">>) /\ Mismatches(name - pos, <<"ON">>) # {}
    BY <2>5 DEF Require
  <2> QED BY <2>1, <2>6, <2>7, NoneHeld, Forward, BodyBlockKeeps, GiveUpKeeps, RoutinesPoints,
             RoutinesKinds, WordsNumbered
<1>2. CASE At("parseCreateTriggerStatement.Body")
  BY <1>2, AtPoint, AtOne, Found, ReturnNewKeeps, RoutinesPoints, RoutinesKinds
     DEF parseCreateTriggerStatement, BodyBlock
<1> QED BY <1>1, <1>2 DEF parseCreateTriggerStatement, BodyBlock

LEMMA parseAlterTriggerStatementKeeps ==
    ASSUME ProgramInv, parseAlterTriggerStatement
    PROVE  ProgramInv'
<1>1. CASE At("parseAlterTriggerStatement")
  <2> DEFINE name   == ListEnd(pos + 1, "DOT")
             events == EventsEnd(ListEnd(name + 2, "DOT"))
  <2>1. stack # <<>> /\ pos \in Nat /\ Reading
    BY <1>1, AtPoint
  <2>2. name \in Nat /\ pos <= name
    BY <2>1, ListEndAhead
  <2>4. events \in Nat /\ pos <= events
    <3> HIDE DEF name
    <3> QED BY <2>1, <2>2, ListEndAhead, TriggerEndsOK
  <2>5. Require(name - pos, <<"ON">>,
                BodyBlock(events - pos, "AlterTrigger", "parseAlterTriggerStatement.Body", <<>>))
    BY <1>1, AtOne DEF parseAlterTriggerStatement
  <2>6. name - pos \in Int /\ pos + (name - pos) \in Nat /\ events - pos \in Nat
    BY <2>1, <2>2, <2>4
  <2> HIDE DEF name, events
  <2>7. \/ BodyBlock(events - pos, "AlterTrigger", "parseAlterTriggerStatement.Body", <<>>)
        \/ GiveUp(name - pos, <<"ON">>) /\ Mismatches(name - pos, <<"ON">>) # {}
    BY <2>5 DEF Require
  <2> QED BY <2>1, <2>6, <2>7, NoneHeld, Forward, BodyBlockKeeps, GiveUpKeeps, RoutinesPoints,
             RoutinesKinds, WordsNumbered
<1>2. CASE At("parseAlterTriggerStatement.Body")
  BY <1>2, AtPoint, AtOne, NoneHeld, ReturnNewKeeps, RoutinesPoints, RoutinesKinds
     DEF parseAlterTriggerStatement, BodyBlock
<1> QED BY <1>1, <1>2 DEF parseAlterTriggerStatement, BodyBlock

(* The head of a procedure.                                                *)
LEMMA ProcedureHeadKeeps ==
    ASSUME ProgramInv, NEW here, NEW next, Resumes(next), next \in MayGetNil,
           ProcedureHead(here, next)
    PROVE  ProgramInv'
<1> DEFINE name == ListEnd(pos + 1, "DOT") - pos
<1>1. stack # <<>> /\ pos \in Nat /\ Reading
  BY AtPoint DEF ProcedureHead
<1>2. name \in Nat
  BY <1>1, ListEndAhead
<1>3. \/ Call(name + 1, next, <<>>, "parseParameterDefs")
      \/ Call(name + 2, next, <<>>, "parseParameterDefs")
      \/ Skip(name, next, <<>>)
  BY DEF ProcedureHead
<1> HIDE DEF name
<1>4. pos + name \in Nat /\ pos + (name + 1) \in Nat /\ pos + (name + 2) \in Nat
  BY <1>1, <1>2
<1> QED BY <1>1, <1>3, <1>4, NoneHeld, Forward, CallKeeps, SkipKeeps, RoutinesBegin

(* The statements of a procedure without a block.                          *)
LEMMA BodyStatementsKeeps ==
    ASSUME ProgramInv, NEW here, NEW statement, Begins(here), Gets(statement),
           NEW kind \in ProgramKinds, NEW semicolon, BodyStatements(here, statement, kind, semicolon)
    PROVE  ProgramInv'
<1>1. CASE At(here)
  <2>1. \/ ReturnNew(kind, Top.at, Written(kind, Top.kids), 0)
        \/ Call(0, statement, Top.kids, "parseStatement")
    <3>1. here # statement
      BY DEF Begins, Gets
    <3> QED BY <1>1, <3>1, AtOne DEF BodyStatements
  <2>2. \A x : Holds(x, Top.kids) /\ Holds(x, Written(kind, Top.kids))
    BY <1>1, Kept, NoneHeld DEF Written
  <2> QED BY <1>1, <2>1, <2>2, AtPoint, Forward, CallKeeps, ReturnNewKeeps, StatementsBegin
<1>2. CASE At(statement)
  <2>1. \E k \in {0, 1} : \/ ReturnNew(kind, Top.at, Written(kind, GotIfAny), k)
                           \/ Continue(k + 1, here, GotIfAny)
    <3>1. here # statement
      BY DEF Begins, Gets
    <3> QED BY <1>2, <3>1, AtOne DEF BodyStatements
  <2>2. \A x : Holds(x, GotIfAny) /\ Holds(x, Written(kind, GotIfAny))
    BY <1>2, FoundAny, NoneHeld DEF Written
  <2>3. \A k \in {0, 1} : pos + k \in Nat /\ pos + (k + 1) \in Nat
    BY <1>2, AtPoint
  <2> QED BY <1>2, <2>1, <2>2, <2>3, AtPoint, Forward, ContinueKeeps, ReturnNewKeeps
<1> QED BY <1>1, <1>2 DEF BodyStatements

LEMMA parseCreateProcedureStatementKeeps ==
    ASSUME ProgramInv, parseCreateProcedureStatement
    PROVE  ProgramInv'
<1>1. CASE At("parseCreateProcedureStatement")
  <2>1. ProcedureHead("parseCreateProcedureStatement", "parseCreateProcedureStatement.Parameters")
    BY <1>1, AtOne DEF parseCreateProcedureStatement, BodyStatements
  <2> QED BY <2>1, ProcedureHeadKeeps, Forward, RoutinesPoints
<1>2. CASE At("parseCreateProcedureStatement.Parameters")
  BY <1>2, AtPoint, AtOne, FoundAny, Forward, ContinueKeeps, RoutinesPoints
     DEF parseCreateProcedureStatement, ProcedureHead, BodyStatements
<1>3. CASE At("parseCreateProcedureStatement.With")
  BY <1>3, AtPoint, AtOne, Kept, Forward, ContinueKeeps, RoutinesPoints, FirstInAhead
     DEF parseCreateProcedureStatement, ProcedureHead, BodyStatements
<1>4. CASE At("parseCreateProcedureStatement.Option")
  BY <1>4, AtPoint, AtOne, Kept, Forward, ContinueKeeps, RoutinesPoints
     DEF parseCreateProcedureStatement, ProcedureHead, BodyStatements
<1>5. CASE At("parseCreateProcedureStatement.Body")
  BY <1>5, AtPoint, AtOne, Kept, Forward, CallKeeps, ContinueKeeps, StatementsBegin,
     RoutinesPoints, SimpleStatementsBegin, RoutinesBegin
     DEF parseCreateProcedureStatement, ProcedureHead, BodyStatements
<1>6. CASE At("parseCreateProcedureStatement.Block")
  BY <1>6, AtPoint, AtOne, Lacking, FoundAny, FoundLacking, ReturnNewKeeps, RoutinesPoints,
     RoutinesKinds
     DEF parseCreateProcedureStatement, ProcedureHead, BodyStatements
<1>7. CASE At("parseCreateProcedureStatement.Transaction")
  BY <1>7, AtPoint, AtOne, Found, Forward, ContinueKeeps, RoutinesPoints
     DEF parseCreateProcedureStatement, ProcedureHead, BodyStatements
<1>8. CASE At("parseCreateProcedureStatement.Statements") \/ At("parseCreateProcedureStatement.Statement")
  <2>1. BodyStatements("parseCreateProcedureStatement.Statements",
                       "parseCreateProcedureStatement.Statement", "CreateProcedure", FALSE)
    BY <1>8, AtOne DEF parseCreateProcedureStatement, ProcedureHead
  <2> QED BY <2>1, BodyStatementsKeeps, RoutinesPoints, RoutinesKinds
<1> QED BY <1>1, <1>2, <1>3, <1>4, <1>5, <1>6, <1>7, <1>8
           DEF parseCreateProcedureStatement, ProcedureHead, BodyStatements

LEMMA parseAlterProcedureStatementKeeps ==
    ASSUME ProgramInv, parseAlterProcedureStatement
    PROVE  ProgramInv'
<1>1. CASE At("parseAlterProcedureStatement")
  <2>1. ProcedureHead("parseAlterProcedureStatement", "parseAlterProcedureStatement.Parameters")
    BY <1>1, AtOne DEF parseAlterProcedureStatement, BodyStatements
  <2> QED BY <2>1, ProcedureHeadKeeps, Forward, RoutinesPoints
<1>2. CASE At("parseAlterProcedureStatement.Parameters")
  BY <1>2, AtPoint, AtOne, NoneHeld, Forward, ContinueKeeps, FirstInAhead, RoutinesPoints
     DEF parseAlterProcedureStatement, ProcedureHead, BodyStatements
<1>3. CASE At("parseAlterProcedureStatement.Body")
  BY <1>3, AtPoint, AtOne, NoneHeld, Forward, CallKeeps, ContinueKeeps, StatementsBegin,
     RoutinesPoints
     DEF parseAlterProcedureStatement, ProcedureHead, BodyStatements
<1>4. CASE At("parseAlterProcedureStatement.Block")
  BY <1>4, AtPoint, AtOne, NoneHeld, ReturnNewKeeps, RoutinesPoints, RoutinesKinds
     DEF parseAlterProcedureStatement, ProcedureHead, BodyStatements
<1>5. CASE At("parseAlterProcedureStatement.Statements") \/ At("parseAlterProcedureStatement.Statement")
  <2>1. BodyStatements("parseAlterProcedureStatement.Statements",
                       "parseAlterProcedureStatement.Statement", "AlterProcedure", TRUE)
    BY <1>5, AtOne DEF parseAlterProcedureStatement, ProcedureHead
  <2> QED BY <2>1, BodyStatementsKeeps, RoutinesPoints, RoutinesKinds
<1> QED BY <1>1, <1>2, <1>3, <1>4, <1>5
           DEF parseAlterProcedureStatement, ProcedureHead, BodyStatements

-----------------------------------------------------------------------------
(* Tables: CREATE, ALTER, DROP and TRUNCATE.                               *)
LEMMA parseIndexColumnsKeeps ==
    ASSUME ProgramInv, parseIndexColumns
    PROVE  ProgramInv'
BY AtPoint, NoneHeld, Forward, ContinueKeeps, ReturnExpectingKeeps, TableDefinitionsBegin,
   TableDefinitionsKinds
   DEF parseIndexColumns

LEMMA parseTableConstraintKeeps ==
    ASSUME ProgramInv, parseTableConstraint
    PROVE  ProgramInv'
BY AtPoint, NoneHeld, Kept, Found, Forward, CallExpressionKeeps, CallKeeps, ContinueKeeps,
   ExpectKeeps, ReturnExpectingKeeps, ReturnNewKeeps, TableDefinitionsBegin,
   TableDefinitionsPoints, SmallEndsOK, ExpressionsBegin, TableDefinitionsKinds, WithOptionsOK,
   ListEndAhead
   DEF parseTableConstraint, ReferenceActions, LOWEST

LEMMA parseInlineConstraintKeeps ==
    ASSUME ProgramInv, parseInlineConstraint
    PROVE  ProgramInv'
BY AtPoint, NoneHeld, Forward, ExpectKeeps, ReturnNewKeeps, TableDefinitionsBegin,
   TableDefinitionsPoints, SmallEndsOK, WithOptionsOK, TableDefinitionsKinds
   DEF parseInlineConstraint

LEMMA parseInlineReferencesConstraintKeeps ==
    ASSUME ProgramInv, parseInlineReferencesConstraint
    PROVE  ProgramInv'
<1>1. CASE At("parseInlineReferencesConstraint")
  BY <1>1, AtPoint, AtOne, NoneHeld, Forward, ContinueKeeps, ExpectKeeps, ListEndAhead,
     TableDefinitionsBegin, TableDefinitionsPoints
     DEF parseInlineReferencesConstraint, parseIdentifierList, ReferenceActions
<1>2. CASE At("parseInlineReferencesConstraint.Actions")
  BY <1>2, AtPoint, AtOne, Kept, Forward, ContinueKeeps, ReturnNewKeeps,
     TableDefinitionsPoints, TableDefinitionsKinds
     DEF parseInlineReferencesConstraint, parseIdentifierList, ReferenceActions
<1> QED BY <1>1, <1>2 DEF parseInlineReferencesConstraint, parseIdentifierList, ReferenceActions

LEMMA parseInlineCheckConstraintKeeps ==
    ASSUME ProgramInv, parseInlineCheckConstraint
    PROVE  ProgramInv'
BY AtPoint, NoneHeld, Found, Forward, CallExpressionKeeps, ExpectKeeps, ReturnExpectingKeeps,
   TableDefinitionsBegin, TableDefinitionsPoints, ExpressionsBegin, TableDefinitionsKinds
   DEF parseInlineCheckConstraint, LOWEST

LEMMA parseTableTypeDefinitionKeeps ==
    ASSUME ProgramInv, parseTableTypeDefinition
    PROVE  ProgramInv'
BY AtPoint, NoneHeld, Kept, Found, Forward, CallKeeps, ContinueKeeps, GiveUpKeeps,
   ReturnNewKeeps, TableDefinitionsBegin, TableDefinitionsPoints, WordsNumbered,
   TableDefinitionsKinds
   DEF parseTableTypeDefinition, Elements, Require

LEMMA parseAlterTableActionKeeps ==
    ASSUME ProgramInv, parseAlterTableAction
    PROVE  ProgramInv'
BY AtPoint, NoneHeld, NilHeld, Lacking, Found, Left, Forward, CallKeeps, ContinueKeeps,
   ReturnNewKeeps, ReturnNilKeeps, TableDefinitionsBegin, TableDefinitionsPoints,
   TableDefinitionsKinds, ConversionsBegin, RestOfStatementOK
   DEF parseAlterTableAction, Action

LEMMA parseDropObjectStatementKeeps ==
    ASSUME ProgramInv, parseDropObjectStatement
    PROVE  ProgramInv'
BY AtPoint, NoneHeld, ReturnNewKeeps, NamesEndOK, SmallEndsOK, TableDefinitionsBegin,
   TableDefinitionsKinds
   DEF parseDropObjectStatement

LEMMA parseDropTableStatementKeeps ==
    ASSUME ProgramInv, parseDropTableStatement
    PROVE  ProgramInv'
BY AtPoint, NoneHeld, ReturnNewKeeps, NamesEndOK, SmallEndsOK, TableDefinitionsBegin,
   TableDefinitionsKinds
   DEF parseDropTableStatement

LEMMA parseDropSequenceStatementKeeps ==
    ASSUME ProgramInv, parseDropSequenceStatement
    PROVE  ProgramInv'
BY AtPoint, NoneHeld, ReturnNewKeeps, ListEndAhead, SmallEndsOK, TableDefinitionsBegin,
   TableDefinitionsKinds
   DEF parseDropSequenceStatement

LEMMA parseDropStatisticsStatementKeeps ==
    ASSUME ProgramInv, parseDropStatisticsStatement
    PROVE  ProgramInv'
BY AtPoint, NoneHeld, ReturnNewKeeps, NamesEndOK, TableDefinitionsBegin, TableDefinitionsKinds
   DEF parseDropStatisticsStatement

LEMMA parseTruncateStatementKeeps ==
    ASSUME ProgramInv, parseTruncateStatement
    PROVE  ProgramInv'
BY AtPoint, NoneHeld, GiveUpKeeps, ReturnNewKeeps, ListEndAhead, TableDefinitionsBegin,
   TableDefinitionsKinds, WordsNumbered
   DEF parseTruncateStatement, Require

LEMMA parseColumnDefinitionKeeps ==
    ASSUME ProgramInv, parseColumnDefinition
    PROVE  ProgramInv'
<1>1. CASE At("parseColumnDefinition")
  BY <1>1, AtPoint, AtOne, NoneHeld, Forward, CallExpressionKeeps, CallKeeps, ExpressionsBegin,
     TableDefinitionsBegin, TableDefinitionsPoints, ConversionsBegin
     DEF parseColumnDefinition, ColumnOption, NextOption, parseIdentitySpec, ColumnConstraint,
         LOWEST
<1>2. CASE At("parseColumnDefinition.Parenthesis")
  BY <1>2, AtPoint, AtOne, Found, Forward, ExpectKeeps, TableDefinitionsPoints
     DEF parseColumnDefinition, ColumnOption, NextOption, parseIdentitySpec, ColumnConstraint
<1>3. CASE At("parseColumnDefinition.Expression")
  BY <1>3, AtPoint, AtOne, Found, Forward, ContinueKeeps, TableDefinitionsPoints
     DEF parseColumnDefinition, ColumnOption, NextOption, parseIdentitySpec, ColumnConstraint
<1>4. CASE At("parseColumnDefinition.Persisted")
  BY <1>4, AtPoint, AtOne, Kept, ReturnNewKeeps, TableDefinitionsPoints, TableDefinitionsKinds
     DEF parseColumnDefinition, ColumnOption, NextOption, parseIdentitySpec, ColumnConstraint
<1>5. CASE At("parseColumnDefinition.DataType")
  BY <1>5, AtPoint, AtOne, Found, Forward, ContinueKeeps, TableDefinitionsPoints
     DEF parseColumnDefinition, ColumnOption, NextOption, parseIdentitySpec, ColumnConstraint
<1>6. CASE At("parseColumnDefinition.Option")
  <2> DEFINE far == {GeneratedEnd - pos, InlineIndexEnd - pos, WithOptions(pos + 1) - pos}
  <2>1. stack # <<>> /\ pos \in Nat /\ Top.at \in Nat /\ \A x : Holds(x, Top.kids)
    BY <1>6, AtPoint, Kept, TableDefinitionsPoints
  <2>2. \A k \in far : pos + k \in Nat
    BY <1>6, <2>1, AtPoint, ColumnEndsOK, WithOptionsOK
  <2>3. \A k \in 0..7 : k \in Nat /\ pos + k \in Nat
    BY <2>1
  <2>4. ASSUME NEW k, pos + k \in Nat, NextOption(k) PROVE ProgramInv'
    BY <1>6, <2>1, <2>4, ContinueKeeps, Forward, TableDefinitionsPoints DEF NextOption
  <2>5. ASSUME NEW k \in {1, 3}, ColumnConstraint(k) PROVE ProgramInv'
    <3>1. \/ \E n \in 0..7 : \/ NextOption(n)
                           \/ CallExpression(n, "parseColumnDefinition.Default", Top.kids, LOWEST)
                           \/ \E fn \in {"parseInlineConstraint", "parseInlineReferencesConstraint",
                                         "parseInlineCheckConstraint"} :
                                 Call(n, "parseColumnDefinition.Constraint", Top.kids, fn)
      BY <2>5 DEF ColumnConstraint
    <3> QED BY SMTT(30), <2>1, <2>3, <2>4, <3>1, Forward, CallExpressionKeeps, CallKeeps,
               ExpressionsBegin,
               TableDefinitionsBegin, TableDefinitionsPoints DEF LOWEST
  <2>6. CASE parseIdentitySpec
    BY <2>1, <2>3, <2>4, <2>6, ExpectKeeps, Forward, TableDefinitionsPoints
       DEF parseIdentitySpec, Number
  <2>7. \/ \E k \in 0..7 : NextOption(k)
        \/ \E k \in far : NextOption(k)
        \/ Expect("NULL", 1, "parseColumnDefinition.Option", Top.kids)
        \/ parseIdentitySpec
        \/ \E k \in {1, 3} : ColumnConstraint(k)
        \/ ReturnNew("ColumnDefinition", Top.at, Top.kids, 0)
    BY <1>6, AtOne DEF parseColumnDefinition, ColumnOption
  <2> HIDE DEF far
  <2> QED BY <2>1, <2>2, <2>3, <2>4, <2>5, <2>6, <2>7, ExpectKeeps, Forward, ReturnNewKeeps,
             TableDefinitionsPoints, TableDefinitionsKinds
<1>7. CASE At("parseColumnDefinition.Constraint")
  BY <1>7, AtPoint, AtOne, Found, Forward, ContinueKeeps, TableDefinitionsPoints
     DEF parseColumnDefinition, ColumnOption, NextOption, parseIdentitySpec, ColumnConstraint
<1>8. CASE At("parseColumnDefinition.Default")
  BY <1>8, AtPoint, AtOne, Found, Forward, ContinueKeeps, TableDefinitionsPoints
     DEF parseColumnDefinition, ColumnOption, NextOption, parseIdentitySpec, ColumnConstraint
<1> QED BY <1>1, <1>2, <1>3, <1>4, <1>5, <1>6, <1>7, <1>8
           DEF parseColumnDefinition, ColumnOption, NextOption, parseIdentitySpec,
           ColumnConstraint

LEMMA parseCreateTableStatementKeeps ==
    ASSUME ProgramInv, parseCreateTableStatement
    PROVE  ProgramInv'
<1>1. CASE At("parseCreateTableStatement")
  BY <1>1, AtPoint, AtOne, NoneHeld, Left, Forward, ContinueKeeps, ReturnNilKeeps,
     TableDefinitionsBegin, TableDefinitionsPoints
     DEF parseCreateTableStatement, Elements
<1>2. CASE At("parseCreateTableStatement.Name")
  BY <1>2, AtPoint, AtOne, NoneHeld, Forward, ContinueKeeps, GiveUpKeeps, ReturnNewKeeps,
     ListEndAhead, TableDefinitionsPoints, WordsNumbered, WithOptionsOK, TableDefinitionsKinds
     DEF parseCreateTableStatement, Elements, Require
<1>3. CASE At("parseCreateTableStatement.Element")
  BY <1>3, AtPoint, AtOne, Kept, Forward, CallKeeps, ContinueKeeps, TableDefinitionsPoints,
     TableDefinitionsBegin
     DEF parseCreateTableStatement, Elements
<1>4. CASE At("parseCreateTableStatement.Next")
  BY <1>4, AtPoint, AtOne, Found, Forward, ContinueKeeps, TableDefinitionsPoints
     DEF parseCreateTableStatement, Elements
<1>5. CASE At("parseCreateTableStatement.Options")
  BY <1>5, AtPoint, AtOne, Kept, Forward, ContinueKeeps, WithOptionsOK, TableDefinitionsPoints
     DEF parseCreateTableStatement, Elements
<1>6. CASE At("parseCreateTableStatement.On")
  BY <1>6, AtPoint, AtOne, Kept, Forward, ContinueKeeps, ExpectKeeps, TableDefinitionsPoints
     DEF parseCreateTableStatement, Elements
<1>7. CASE At("parseCreateTableStatement.End")
  BY <1>7, AtPoint, AtOne, Kept, ReturnNewKeeps, TableDefinitionsPoints, TableDefinitionsKinds
     DEF parseCreateTableStatement, Elements
<1> QED BY <1>1, <1>2, <1>3, <1>4, <1>5, <1>6, <1>7 DEF parseCreateTableStatement, Elements

LEMMA parseAlterTableStatementKeeps ==
    ASSUME ProgramInv, parseAlterTableStatement
    PROVE  ProgramInv'
<1>1. CASE At("parseAlterTableStatement")
  BY SMTT(30), <1>1, AtPoint, AtOne, NoneHeld, Forward, ContinueKeeps, ReturnNewKeeps,
     ListEndAhead,
     TableDefinitionsBegin, TableDefinitionsKinds, TableDefinitionsPoints
     DEF parseAlterTableStatement
<1>2. CASE At("parseAlterTableStatement.Action")
  BY <1>2, AtPoint, AtOne, Kept, Forward, CallKeeps, ReturnNewKeeps, TableDefinitionsPoints,
     TableDefinitionsKinds, TableDefinitionsBegin
     DEF parseAlterTableStatement
<1>3. CASE At("parseAlterTableStatement.Next")
  BY <1>3, AtPoint, AtOne, FoundAny, Forward, ContinueKeeps, ReturnNewKeeps,
     TableDefinitionsPoints, TableDefinitionsKinds
     DEF parseAlterTableStatement
<1> QED BY <1>1, <1>2, <1>3 DEF parseAlterTableStatement

LEMMA DropFnBegins ==
    \A object : DropFn(object) = "nil" \/ Begins(DropFn(object)) \/ Leaves(DropFn(object))
BY TableDefinitionsBegin, StorageBegin, SecurityBegin, ConversationsBegin, AdministrationBegin
   DEF DropFn

LEMMA parseDropStatementKeeps ==
    ASSUME ProgramInv, parseDropStatement
    PROVE  ProgramInv'
<1> DEFINE fn == DropFn(Peek)
<1>1. At("parseDropStatement") /\ Leaves("parseDropStatement")
  BY TableDefinitionsBegin DEF parseDropStatement
<1>2. fn = "nil" \/ Begins(fn) \/ Leaves(fn)
  BY DropFnBegins
<1>3. \/ TailCall(1, "parseDropTableStatement")
      \/ fn # "nil" /\ HandOn(1, fn)
      \/ \E k \in 1..3 : HandOn(k, "parseDropObjectStatement")
      \/ ReturnNil(1)
  BY DEF parseDropStatement
<1> HIDE DEF fn
<1>4. \A g : Begins(g) \/ Leaves(g) => Hands(g)
  BY <1>1, HandedOn
<1>5. stack # <<>> /\ \A k \in 1..3 : pos + k \in Nat
  BY <1>1, AtPoint
<1>6. Begins("parseDropTableStatement") /\ Begins("parseDropObjectStatement")
  BY TableDefinitionsBegin
<1> QED BY <1>1, <1>2, <1>3, <1>4, <1>5, <1>6, Left, HandOnKeeps, ReturnNilKeeps, TailCallKeeps

LEMMA parseDropIndexStatementKeeps ==
    ASSUME ProgramInv, parseDropIndexStatement
    PROVE  ProgramInv'
<1>1. CASE At("parseDropIndexStatement")
  BY <1>1, AtPoint, AtOne, NoneHeld, Forward, ContinueKeeps, GiveUpKeeps, ListEndAhead,
     SmallEndsOK, TableDefinitionsBegin, TableDefinitionsPoints, WordsNumbered
     DEF parseDropIndexStatement, Require
<1>2. CASE At("parseDropIndexStatement.More")
  BY <1>2, AtPoint, AtOne, NoneHeld, Forward, ContinueKeeps, ReturnNewKeeps,
     TableDefinitionsPoints, TableDefinitionsKinds, ListEndAhead
     DEF parseDropIndexStatement
<1> QED BY <1>1, <1>2 DEF parseDropIndexStatement

LEMMA parseTruncateTableCompoundKeeps ==
    ASSUME ProgramInv, parseTruncateTableCompound
    PROVE  ProgramInv'
<1>1. CASE At("parseTruncateTableCompound")
  <2> DEFINE name == ListEnd(pos + 1, "DOT") - pos
  <2>1. name \in Nat
    BY <1>1, AtPoint, ListEndAhead
  <2>2. \/ ReturnNew("Truncate", Top.at, <<>>, name)
        \/ Continue(name + 3, "parsePartitionList", <<>>)
        \/ Complain(name + 2, name + 1, "parseTruncateTableCompound.Close", <<>>)
    BY <1>1, AtOne DEF parseTruncateTableCompound
  <2> HIDE DEF name
  <2> QED BY <1>1, <2>1, <2>2, AtPoint, NoneHeld, Forward, ComplainKeeps, ContinueKeeps,
             ReturnNewKeeps, TableDefinitionsKinds, TableDefinitionsPoints
<1>2. CASE At("parsePartitionList")
  BY <1>2, AtPoint, AtOne, NoneHeld, Forward, ContinueKeeps, TableDefinitionsPoints
     DEF parseTruncateTableCompound
<1>3. CASE At("parsePartitionList.Close")
  BY <1>3, AtPoint, AtOne, NoneHeld, Forward, ExpectKeeps, TableDefinitionsPoints
     DEF parseTruncateTableCompound
<1>4. CASE At("parseTruncateTableCompound.Close")
  BY <1>4, AtPoint, AtOne, NoneHeld, ReturnExpectingKeeps, TableDefinitionsPoints,
     TableDefinitionsKinds
     DEF parseTruncateTableCompound
<1> QED BY <1>1, <1>2, <1>3, <1>4 DEF parseTruncateTableCompound

-----------------------------------------------------------------------------
(* Security.                                                               *)
LEMMA parseCreateLoginStatementKeeps ==
    ASSUME ProgramInv, parseCreateLoginStatement
    PROVE  ProgramInv'
BY AtPoint, NoneHeld, Kept, Forward, ContinueKeeps, ReturnNewKeeps, LoginSourceOK,
   SecurityBegin, SecurityPoints, SecurityKinds
   DEF parseCreateLoginStatement, ReturnAt

LEMMA parseLoginOptionsKeeps ==
    ASSUME ProgramInv, parseLoginOptions
    PROVE  ProgramInv'
BY AtPoint, NoneHeld, Kept, Forward, ContinueKeeps, ReturnNewKeeps, SecurityPoints,
   SecurityKinds
   DEF parseLoginOptions, ReturnAt, NextLoginOption

LEMMA parseAlterLoginStatementKeeps ==
    ASSUME ProgramInv, parseAlterLoginStatement
    PROVE  ProgramInv'
BY AtPoint, NoneHeld, Kept, Forward, ContinueKeeps, ReturnNewKeeps, SecurityBegin,
   SecurityPoints, Row3, StepsTake, SecurityKinds
   DEF parseAlterLoginStatement, ReturnAt, NextLoginOption, Texts

LEMMA parseCreateUserStatementKeeps ==
    ASSUME ProgramInv, parseCreateUserStatement
    PROVE  ProgramInv'
BY AtPoint, Kept, ReturnNewKeeps, OptionsPastOK, Row1, StepsTake, SecurityBegin, SecurityKinds
   DEF parseCreateUserStatement, ReturnAt

LEMMA parseAlterUserStatementKeeps ==
    ASSUME ProgramInv, parseAlterUserStatement
    PROVE  ProgramInv'
BY AtPoint, Kept, ReturnNewKeeps, OptionsPastOK, SecurityBegin, SecurityKinds
   DEF parseAlterUserStatement, NamedWithOptions, ReturnAt

LEMMA parseCreateRoleStatementKeeps ==
    ASSUME ProgramInv, parseCreateRoleStatement
    PROVE  ProgramInv'
BY AtPoint, Kept, ReturnNewKeeps, Row3, StepsTake, SecurityBegin, SecurityKinds
   DEF parseCreateRoleStatement, CreatesRole, ReturnAt

LEMMA parseAlterRoleStatementKeeps ==
    ASSUME ProgramInv, parseAlterRoleStatement
    PROVE  ProgramInv'
BY AtPoint, Kept, ReturnNewKeeps, Row1, StepsTake, SecurityBegin, SecurityKinds
   DEF parseAlterRoleStatement, AltersRole, ReturnAt, Texts

LEMMA parseCreateServerRoleStatementKeeps ==
    ASSUME ProgramInv, parseCreateServerRoleStatement
    PROVE  ProgramInv'
BY AtPoint, Kept, ReturnNewKeeps, Row3, StepsTake, SecurityBegin, SecurityKinds
   DEF parseCreateServerRoleStatement, CreatesRole, ReturnAt

LEMMA parseAlterServerRoleStatementKeeps ==
    ASSUME ProgramInv, parseAlterServerRoleStatement
    PROVE  ProgramInv'
BY AtPoint, Kept, ReturnNewKeeps, Row1, StepsTake, SecurityBegin, SecurityKinds
   DEF parseAlterServerRoleStatement, AltersRole, ReturnAt, Texts

LEMMA parseCreateApplicationRoleStatementKeeps ==
    ASSUME ProgramInv, parseCreateApplicationRoleStatement
    PROVE  ProgramInv'
BY AtPoint, Kept, ReturnNewKeeps, OptionsPastOK, SecurityBegin, SecurityKinds
   DEF parseCreateApplicationRoleStatement, NamedWithOptions, ReturnAt, Batch

LEMMA parseAlterApplicationRoleStatementKeeps ==
    ASSUME ProgramInv, parseAlterApplicationRoleStatement
    PROVE  ProgramInv'
BY AtPoint, Kept, ReturnNewKeeps, OptionsPastOK, SecurityBegin, SecurityKinds
   DEF parseAlterApplicationRoleStatement, NamedWithOptions, ReturnAt, Batch

LEMMA parseCreateCredentialStatementKeeps ==
    ASSUME ProgramInv, parseCreateCredentialStatement
    PROVE  ProgramInv'
BY AtPoint, Kept, ReturnNewKeeps, OptionsPastOK, SecurityBegin, SecurityKinds
   DEF parseCreateCredentialStatement, NamedWithOptions, ReturnAt, Batch

LEMMA parseCreateDatabaseScopedCredentialStatementKeeps ==
    ASSUME ProgramInv, parseCreateDatabaseScopedCredentialStatement
    PROVE  ProgramInv'
BY AtPoint, Kept, ReturnNewKeeps, OptionsPastOK, SecurityBegin, SecurityKinds
   DEF parseCreateDatabaseScopedCredentialStatement, NamedWithOptions, ReturnAt, Batch

LEMMA parseCreateDatabaseOrScopedCredentialKeeps ==
    ASSUME ProgramInv, parseCreateDatabaseOrScopedCredential
    PROVE  ProgramInv'
BY AtPoint, Left, HandedOn, Forward, HandOnKeeps, ReturnNilKeeps, FirstInAhead, SecurityBegin
   DEF parseCreateDatabaseOrScopedCredential, Batch

LEMMA parseCreateMasterKeyStatementKeeps ==
    ASSUME ProgramInv, parseCreateMasterKeyStatement
    PROVE  ProgramInv'
BY AtPoint, Kept, ReturnNewKeeps, Row7, StepsTake, SecurityBegin, SecurityKinds
   DEF parseCreateMasterKeyStatement, ReturnAt

LEMMA parseCreateCertificateStatementKeeps ==
    ASSUME ProgramInv, parseCreateCertificateStatement
    PROVE  ProgramInv'
BY AtPoint, NoneHeld, Kept, Forward, ContinueKeeps, ReturnNewKeeps, SecurityBegin,
   SecurityPoints, FilePastOK, OptionsPastOK, SecurityKinds
   DEF parseCreateCertificateStatement, ReturnAt

LEMMA parseCreateSymmetricKeyStatementKeeps ==
    ASSUME ProgramInv, parseCreateSymmetricKeyStatement
    PROVE  ProgramInv'
BY AtPoint, NoneHeld, Kept, Forward, ContinueKeeps, ReturnNewKeeps, Row3, StepsTake,
   SecurityBegin, SecurityPoints, AlgorithmPastOK, ProtectionPastOK, SecurityKinds
   DEF parseCreateSymmetricKeyStatement, ReturnAt

LEMMA parseCreateAsymmetricKeyStatementKeeps ==
    ASSUME ProgramInv, parseCreateAsymmetricKeyStatement
    PROVE  ProgramInv'
BY AtPoint, NoneHeld, Kept, Forward, ContinueKeeps, ReturnNewKeeps, Row3, StepsTake,
   SecurityBegin, SecurityPoints, AlgorithmPastOK, FilePastOK, SecurityKinds
   DEF parseCreateAsymmetricKeyStatement, ReturnAt

LEMMA parseDropKeyStatementKeeps ==
    ASSUME ProgramInv, parseDropKeyStatement
    PROVE  ProgramInv'
BY AtPoint, Kept, ReturnNewKeeps, ListEndAhead, Row2, SmallEndsOK, StepsTake, SecurityBegin,
   SecurityKinds
   DEF parseDropKeyStatement, ReturnAt

LEMMA parseCreateAssemblyStatementKeeps ==
    ASSUME ProgramInv, parseCreateAssemblyStatement
    PROVE  ProgramInv'
BY AtPoint, Kept, ReturnNewKeeps, Row2, Row3, StepsTake, SecurityBegin, SecurityKinds
   DEF parseCreateAssemblyStatement, Assembles, ReturnAt

LEMMA parseAlterAssemblyStatementKeeps ==
    ASSUME ProgramInv, parseAlterAssemblyStatement
    PROVE  ProgramInv'
BY AtPoint, Kept, ReturnNewKeeps, Row2, Row3, StepsTake, SecurityBegin, SecurityKinds
   DEF parseAlterAssemblyStatement, Assembles, ReturnAt

-----------------------------------------------------------------------------
(* Administration.                                                         *)
LEMMA parseDbccStatementKeeps ==
    ASSUME ProgramInv, parseDbccStatement
    PROVE  ProgramInv'
BY AtPoint, NoneHeld, Kept, Found, Forward, CallExpressionKeeps, ContinueKeeps, ExpectKeeps,
   ReturnNewKeeps, AdministrationBegin, AdministrationPoints, ExpressionsBegin,
   AdministrationKinds
   DEF parseDbccStatement, LOWEST

LEMMA parseBackupStatementKeeps ==
    ASSUME ProgramInv, parseBackupStatement
    PROVE  ProgramInv'
BY AtPoint, NoneHeld, Kept, Forward, ContinueKeeps, ReturnNewKeeps, AdministrationBegin,
   AdministrationPoints, FileClausePastOK, parseBackupLocationsOK, AdministrationKinds,
   OptionEndsOK
   DEF parseBackupStatement, Files, MediaOptions, ReturnAt, parseBackupOptions

LEMMA parseCreateResourcePoolStatementKeeps ==
    ASSUME ProgramInv, parseCreateResourcePoolStatement
    PROVE  ProgramInv'
BY AtPoint, Kept, ReturnNewKeeps, PairsPastOK, Row3, StepsTake, AdministrationBegin,
   AdministrationKinds
   DEF parseCreateResourcePoolStatement, Pool, ReturnAt

LEMMA parseAlterResourcePoolStatementKeeps ==
    ASSUME ProgramInv, parseAlterResourcePoolStatement
    PROVE  ProgramInv'
BY AtPoint, Kept, ReturnNewKeeps, PairsPastOK, AdministrationBegin, AdministrationKinds
   DEF parseAlterResourcePoolStatement, ReturnAt

LEMMA parseCreateWorkloadGroupStatementKeeps ==
    ASSUME ProgramInv, parseCreateWorkloadGroupStatement
    PROVE  ProgramInv'
BY AtPoint, Kept, ReturnNewKeeps, PairsPastOK, Row1, Row3, StepsTake, AdministrationBegin,
   AdministrationKinds
   DEF parseCreateWorkloadGroupStatement, Workload, ReturnAt

LEMMA parseAlterWorkloadGroupStatementKeeps ==
    ASSUME ProgramInv, parseAlterWorkloadGroupStatement
    PROVE  ProgramInv'
BY AtPoint, Kept, ReturnNewKeeps, PairsPastOK, Row1, Row3, StepsTake, AdministrationBegin,
   AdministrationKinds
   DEF parseAlterWorkloadGroupStatement, Workload, ReturnAt

LEMMA parseAlterResourceStatementKeeps ==
    ASSUME ProgramInv, parseAlterResourceStatement
    PROVE  ProgramInv'
BY AtPoint, Left, HandedOn, Forward, HandOnKeeps, ReturnNilKeeps, AdministrationBegin
   DEF parseAlterResourceStatement

LEMMA parseAlterResourceGovernorStatementKeeps ==
    ASSUME ProgramInv, parseAlterResourceGovernorStatement
    PROVE  ProgramInv'
BY AtPoint, Kept, ReturnNewKeeps, GovernorEndsOK, AdministrationBegin, AdministrationKinds
   DEF parseAlterResourceGovernorStatement, ReturnAt

LEMMA parseDropResourcePoolStatementKeeps ==
    ASSUME ProgramInv, parseDropResourcePoolStatement
    PROVE  ProgramInv'
BY AtPoint, Kept, ReturnNewKeeps, Row3, StepsTake, AdministrationBegin, AdministrationKinds
   DEF parseDropResourcePoolStatement, DropsNamed, ReturnAt

LEMMA parseDropWorkloadGroupStatementKeeps ==
    ASSUME ProgramInv, parseDropWorkloadGroupStatement
    PROVE  ProgramInv'
BY AtPoint, Kept, ReturnNewKeeps, Row3, StepsTake, AdministrationBegin, AdministrationKinds
   DEF parseDropWorkloadGroupStatement, DropsNamed, ReturnAt

LEMMA parseDropAvailabilityGroupStatementKeeps ==
    ASSUME ProgramInv, parseDropAvailabilityGroupStatement
    PROVE  ProgramInv'
BY AtPoint, Kept, ReturnNewKeeps, Row3, StepsTake, AdministrationBegin, AdministrationKinds
   DEF parseDropAvailabilityGroupStatement, DropsNamed, ReturnAt

LEMMA parseCreateAvailabilityGroupStatementKeeps ==
    ASSUME ProgramInv, parseCreateAvailabilityGroupStatement
    PROVE  ProgramInv'
BY AtPoint, NoneHeld, Kept, Forward, ContinueKeeps, ReturnNewKeeps, NamesPastOK, Row3,
   StepsTake, AdministrationBegin, AdministrationPoints, PairsPastOK, Row1, Row2,
   AdministrationKinds
   DEF parseCreateAvailabilityGroupStatement, ReturnAt

LEMMA parseAlterAvailabilityGroupStatementKeeps ==
    ASSUME ProgramInv, parseAlterAvailabilityGroupStatement
    PROVE  ProgramInv'
BY AtPoint, Kept, ReturnNewKeeps, NamesPastOK, Row3, StepsTake, AdministrationBegin,
   AdministrationKinds
   DEF parseAlterAvailabilityGroupStatement, ReturnAt, Texts

LEMMA parseRestoreStatementKeeps ==
    ASSUME ProgramInv, parseRestoreStatement
    PROVE  ProgramInv'
<1>1. CASE At("parseRestoreStatement") /\ Continue(RestoredName, "parseRestoreStatement.Files", <<>>)
  <2>1. RestoredName \in Nat
    BY SmallStepsOK
  <2> QED BY <1>1, <2>1, AtPoint, NoneHeld, Forward, ContinueKeeps, AdministrationPoints
<1>2. CASE ~ (At("parseRestoreStatement") /\ Continue(RestoredName, "parseRestoreStatement.Files", <<>>))
  BY <1>2, AtPoint, AtOne, NoneHeld, Kept, Forward, ContinueKeeps, ReturnNewKeeps,
     OptionEndsOK, FileClausePastOK, parseBackupLocationsOK, AdministrationPoints,
     AdministrationKinds
     DEF parseRestoreStatement, Files, MediaOptions, ReturnAt, parseBackupOptions
<1> QED BY <1>1, <1>2

-----------------------------------------------------------------------------
(* Storage and full text.                                                  *)
LEMMA parseCreatePartitionStatementKeeps ==
    ASSUME ProgramInv, parseCreatePartitionStatement
    PROVE  ProgramInv'
BY AtPoint, Left, HandedOn, Forward, HandOnKeeps, ReturnNilKeeps, StorageBegin
   DEF parseCreatePartitionStatement, Partitions

LEMMA parseCreatePartitionFunctionStatementKeeps ==
    ASSUME ProgramInv, parseCreatePartitionFunctionStatement
    PROVE  ProgramInv'
<1>1. CASE At("parseCreatePartitionFunctionStatement")
  BY <1>1, AtPoint, AtOne, NoneHeld, Forward, CallKeeps, ContinueKeeps, ConversionsBegin,
     StorageBegin, StoragePoints
     DEF parseCreatePartitionFunctionStatement, ReturnAt
<1>2. CASE At("parseCreatePartitionFunctionStatement.Type")
  BY <1>2, AtPoint, AtOne, Found, Forward, ContinueKeeps, Row2, StepsTake, StoragePoints
     DEF parseCreatePartitionFunctionStatement, ReturnAt
<1>3. CASE At("parseCreatePartitionFunctionStatement.Range")
  BY <1>3, AtPoint, AtOne, Kept, Forward, ContinueKeeps, ReturnNewKeeps, Row4, StepsTake,
     StoragePoints, StorageKinds
     DEF parseCreatePartitionFunctionStatement, ReturnAt
<1>4. CASE At("parseCreatePartitionFunctionStatement.Value")
  BY <1>4, AtPoint, AtOne, Kept, Forward, CallExpressionKeeps, ReturnNewKeeps, Row1, StepsTake,
     StoragePoints, StorageKinds, ExpressionsBegin
     DEF parseCreatePartitionFunctionStatement, ReturnAt, LOWEST
<1>5. CASE At("parseCreatePartitionFunctionStatement.Values")
  BY <1>5, AtPoint, AtOne, Found, Forward, ContinueKeeps, ReturnNewKeeps, StoragePoints,
     StorageKinds
     DEF parseCreatePartitionFunctionStatement, ReturnAt
<1> QED BY <1>1, <1>2, <1>3, <1>4, <1>5 DEF parseCreatePartitionFunctionStatement, ReturnAt

LEMMA parseCreatePartitionSchemeStatementKeeps ==
    ASSUME ProgramInv, parseCreatePartitionSchemeStatement
    PROVE  ProgramInv'
BY SMTT(30), AtPoint, Kept, ReturnNewKeeps, ListsEndOK, Row1, Row5, StepsTake, StorageBegin,
   StorageKinds
   DEF parseCreatePartitionSchemeStatement, ReturnAt

LEMMA parseAlterPartitionStatementKeeps ==
    ASSUME ProgramInv, parseAlterPartitionStatement
    PROVE  ProgramInv'
BY AtPoint, Left, HandedOn, Forward, HandOnKeeps, ReturnNilKeeps, StorageBegin
   DEF parseAlterPartitionStatement, Partitions

LEMMA parseAlterPartitionFunctionStatementKeeps ==
    ASSUME ProgramInv, parseAlterPartitionFunctionStatement
    PROVE  ProgramInv'
BY AtPoint, NoneHeld, Kept, Found, Forward, CallExpressionKeeps, ReturnNewKeeps, Row1, Row2,
   StepsTake, ExpressionsBegin, StorageBegin, StoragePoints, StorageKinds
   DEF parseAlterPartitionFunctionStatement, ReturnAt, LOWEST

LEMMA parseAlterPartitionSchemeStatementKeeps ==
    ASSUME ProgramInv, parseAlterPartitionSchemeStatement
    PROVE  ProgramInv'
BY AtPoint, Kept, ReturnNewKeeps, Row5, StepsTake, StorageBegin, StorageKinds
   DEF parseAlterPartitionSchemeStatement, ReturnAt

LEMMA parseCreateFulltextStatementKeeps ==
    ASSUME ProgramInv, parseCreateFulltextStatement
    PROVE  ProgramInv'
BY AtPoint, Left, HandedOn, Forward, HandOnKeeps, ReturnNilKeeps, StorageBegin
   DEF parseCreateFulltextStatement

LEMMA parseCreateFulltextCatalogStatementKeeps ==
    ASSUME ProgramInv, parseCreateFulltextCatalogStatement
    PROVE  ProgramInv'
BY AtPoint, NoneHeld, Kept, Forward, ContinueKeeps, ReturnNewKeeps, StorageBegin,
   StoragePoints, StorageKinds
   DEF parseCreateFulltextCatalogStatement, ReturnAt, Texts

LEMMA parseCreateFulltextIndexStatementKeeps ==
    ASSUME ProgramInv, parseCreateFulltextIndexStatement
    PROVE  ProgramInv'
BY SMTT(30), AtPoint, Kept, ReturnNewKeeps, ClosingOK, FulltextColumnsEndOK, ListEndAhead,
   Row1, Row2,
   StepsTake, StorageBegin, StorageKinds
   DEF parseCreateFulltextIndexStatement, ReturnAt

LEMMA parseAlterFulltextStatementKeeps ==
    ASSUME ProgramInv, parseAlterFulltextStatement
    PROVE  ProgramInv'
BY AtPoint, Left, HandedOn, Forward, HandOnKeeps, ReturnNilKeeps, StorageBegin
   DEF parseAlterFulltextStatement

LEMMA parseAlterFulltextIndexStatementKeeps ==
    ASSUME ProgramInv, parseAlterFulltextIndexStatement
    PROVE  ProgramInv'
BY AtPoint, Kept, ReturnNewKeeps, ListEndAhead, ListsEndOK, Row2, StepsTake, StorageBegin,
   StorageKinds
   DEF parseAlterFulltextIndexStatement, ReturnAt

LEMMA parseDropFulltextStatementKeeps ==
    ASSUME ProgramInv, parseDropFulltextStatement
    PROVE  ProgramInv'
BY AtPoint, Left, HandedOn, Forward, HandOnKeeps, ReturnNilKeeps, StorageBegin
   DEF parseDropFulltextStatement

LEMMA parseDropFulltextIndexStatementKeeps ==
    ASSUME ProgramInv, parseDropFulltextIndexStatement
    PROVE  ProgramInv'
BY AtPoint, Kept, ReturnNewKeeps, ListEndAhead, Row2, StepsTake, StorageBegin, StorageKinds
   DEF parseDropFulltextIndexStatement, ReturnAt

LEMMA parseDropFulltextCatalogStatementKeeps ==
    ASSUME ProgramInv, parseDropFulltextCatalogStatement
    PROVE  ProgramInv'
BY AtPoint, Kept, ReturnNewKeeps, StorageBegin, StorageKinds
   DEF parseDropFulltextCatalogStatement, ReturnAt

-----------------------------------------------------------------------------
(* Service broker.                                                         *)
LEMMA parseCreateMessageTypeStatementKeeps ==
    ASSUME ProgramInv, parseCreateMessageTypeStatement
    PROVE  ProgramInv'
BY AtPoint, Kept, ReturnNewKeeps, Row2, Row4, StepsTake, ConversationsBegin, ConversationsKinds
   DEF parseCreateMessageTypeStatement, ReturnAt

LEMMA parseCreateContractStatementKeeps ==
    ASSUME ProgramInv, parseCreateContractStatement
    PROVE  ProgramInv'
BY AtPoint, Kept, ReturnNewKeeps, MessagesEndOK, Row3, StepsTake, ConversationsBegin,
   ConversationsKinds
   DEF parseCreateContractStatement, ReturnAt

LEMMA parseCreateQueueStatementKeeps ==
    ASSUME ProgramInv, parseCreateQueueStatement
    PROVE  ProgramInv'
BY AtPoint, Kept, ReturnNewKeeps, ListEndAhead, PairsPastOK, ConversationsBegin,
   ConversationsKinds
   DEF parseCreateQueueStatement, ReturnAt

LEMMA parseAlterQueueStatementKeeps ==
    ASSUME ProgramInv, parseAlterQueueStatement
    PROVE  ProgramInv'
BY AtPoint, Kept, ReturnNewKeeps, FirstInAhead, ListEndAhead, ConversationsBegin,
   ConversationsKinds
   DEF parseAlterQueueStatement, ReturnAt

LEMMA parseCreateServiceStatementKeeps ==
    ASSUME ProgramInv, parseCreateServiceStatement
    PROVE  ProgramInv'
BY SMTT(30), AtPoint, Kept, ReturnNewKeeps, ListEndAhead, ListsEndOK, Row1, Row3, StepsTake,
   ConversationsBegin, ConversationsKinds
   DEF parseCreateServiceStatement, ReturnAt

LEMMA parseDropServiceBrokerObjectKeeps ==
    ASSUME ProgramInv, parseDropServiceBrokerObject
    PROVE  ProgramInv'
BY AtPoint, Kept, ReturnNewKeeps, ListEndAhead, Row1, SmallEndsOK, StepsTake,
   ConversationsBegin, ConversationsKinds
   DEF parseDropServiceBrokerObject, ReturnAt

LEMMA parseBeginDialogStatementKeeps ==
    ASSUME ProgramInv, parseBeginDialogStatement
    PROVE  ProgramInv'
BY AtPoint, Kept, ReturnNewKeeps, DialogOptionsPastOK, Row4, SideOK, StepsTake,
   ConversationsBegin, ConversationsKinds
   DEF parseBeginDialogStatement, ReturnAt

LEMMA parseSendOnConversationStatementKeeps ==
    ASSUME ProgramInv, parseSendOnConversationStatement
    PROVE  ProgramInv'
BY AtPoint, NoneHeld, Kept, Found, Forward, CallExpressionKeeps, ReturnNewKeeps, Row4, SideOK,
   StepsTake, ExpressionsBegin, ConversationsBegin, ConversationsPoints, ConversationsKinds
   DEF parseSendOnConversationStatement, ReturnAt, LOWEST

LEMMA parseReceiveStatementKeeps ==
    ASSUME ProgramInv, parseReceiveStatement
    PROVE  ProgramInv'
BY AtPoint, NoneHeld, NilAppended, Lacking, Kept, Found, Forward, CallExpressionKeeps,
   ContinueKeeps, ReturnNewKeeps, ExpressionsBegin, ConversationsBegin, ConversationsPoints,
   Row1, Row2, StepsTake, ListEndAhead, ConversationsKinds
   DEF parseReceiveStatement, ReturnAt, LOWEST

LEMMA parseEndConversationStatementKeeps ==
    ASSUME ProgramInv, parseEndConversationStatement
    PROVE  ProgramInv'
BY AtPoint, NoneHeld, Kept, Forward, CallExpressionKeeps, ReturnNewKeeps, ConversationsBegin,
   ConversationsKinds, Row1, StepsTake, ExpressionsBegin, ConversationsPoints
   DEF parseEndConversationStatement, ReturnAt, Texts, LOWEST

LEMMA parseGetConversationGroupStatementKeeps ==
    ASSUME ProgramInv, parseGetConversationGroupStatement
    PROVE  ProgramInv'
BY AtPoint, NilHeld, Lacking, Kept, ReturnNewKeeps, ListEndAhead, Row4, StepsTake,
   ConversationsBegin, ConversationsKinds
   DEF parseGetConversationGroupStatement, ReturnAt

LEMMA parseMoveConversationStatementKeeps ==
    ASSUME ProgramInv, parseMoveConversationStatement
    PROVE  ProgramInv'
BY AtPoint, Kept, ReturnNewKeeps, Row4, StepsTake, ConversationsBegin, ConversationsKinds
   DEF parseMoveConversationStatement, ReturnAt

-----------------------------------------------------------------------------
(* Every step of every part keeps the invariant.                           *)
LEMMA WindowStepKeeps ==
    ASSUME ProgramInv, WindowStep
    PROVE  ProgramInv'
BY  parseOrderByItemsKeeps, parseFrameBoundKeeps, parseWindowFrameKeeps,
   parseOverClauseKeeps
   DEF WindowStep

LEMMA ConversionStepKeeps ==
    ASSUME ProgramInv, ConversionStep
    PROVE  ProgramInv'
BY  parseDataTypeKeeps, parseCastExpressionKeeps, parseConvertExpressionKeeps,
   parseParseExpressionKeeps, parseTrimExpressionKeeps, parseCursorExpressionKeeps,
   parseNextValueForKeeps, parseNextValueForCompoundKeeps, parseContainsExpressionKeeps,
   parseFreetextExpressionKeeps, parseContainsTableExpressionKeeps,
   parseFreetextTableExpressionKeeps
   DEF ConversionStep

LEMMA ExpressionStepKeeps ==
    ASSUME ProgramInv, ExpressionStep
    PROVE  ProgramInv'
BY  parseExpressionKeeps, parseLeafKeeps, parseFloatLiteralKeeps,
   parsePrefixExpressionKeeps, parseInfixExpressionKeeps, parseGroupedExpressionKeeps,
   parseDotExpressionKeeps, parseScopeExpressionKeeps, parseCallExpressionKeeps,
   parseExpressionListKeeps, parseFunctionLiteralKeeps, parseCaseExpressionKeeps,
   parseExistsExpressionKeeps, parseAllExpressionKeeps, parseSubqueryExpressionKeeps,
   parseLikeExpressionKeeps, parseCollateExpressionKeeps, parseAtTimeZoneExpressionKeeps,
   parseBetweenExpressionKeeps, parseInExpressionKeeps, parseIsNullExpressionKeeps,
   parseDistinctFromExpressionKeeps, parseNotInfixExpressionKeeps, WindowStepKeeps,
   ConversionStepKeeps
   DEF ExpressionStep

LEMMA TableStepKeeps ==
    ASSUME ProgramInv, TableStep
    PROVE  ProgramInv'
BY  parseTableHintsKeeps, parseTableSampleKeeps, parseTemporalClauseKeeps,
   parseValuesRowsKeeps, parseOpenJsonColumnsKeeps, parsePivotTableKeeps,
   parseUnpivotTableKeeps, parseJoinClauseKeeps, parseTableReferenceKeeps,
   parseFromClauseKeeps
   DEF TableStep

LEMMA SelectStepKeeps ==
    ASSUME ProgramInv, SelectStep
    PROVE  ProgramInv'
BY  parseTopClauseKeeps, parseSelectColumnsKeeps, parseSelectColumnKeeps,
   parseGroupByItemsKeeps, parseGroupingSetsKeeps, parseGroupingSetKeeps, parseCubeKeeps,
   parseRollupKeeps, parseWindowDefinitionsKeeps, parseForClauseKeeps,
   parseOptionClauseKeeps, parseUnionClauseKeeps, parseSelectStatementKeeps
   DEF SelectStep

LEMMA DmlStepKeeps ==
    ASSUME ProgramInv, DmlStep
    PROVE  ProgramInv'
BY  parseOutputColumnKeeps, parseOutputClauseKeeps, parseValuesListKeeps,
   parseInsertStatementKeeps, parseSetClauseKeeps, parseSetClausesKeeps,
   parseUpdateStatementKeeps, parseDeleteStatementKeeps, parseMergeWhenClauseKeeps,
   parseMergeStatementKeeps, parseCTEDefKeeps, parseWithStatementKeeps,
   parseWithXmlnamespacesStatementKeeps
   DEF DmlStep

LEMMA DeclarationStepKeeps ==
    ASSUME ProgramInv, DeclarationStep
    PROVE  ProgramInv'
BY  parseVariableDefKeeps, parseDeclareStatementKeeps, parseDeclareCursorStatementKeeps,
   parseSetStatementKeeps, ResultSetKeeps, parseResultSetsKeeps, parseExecParameterKeeps,
   parseExecStatementKeeps, parseExecuteAsStatementKeeps, parseRevertStatementKeeps,
   parseReconfigureStatementKeeps, parseOpenSymmetricKeyStatementKeeps,
   parseOpenCursorStatementKeeps, parseCloseCursorStatementKeeps
   DEF DeclarationStep

LEMMA SimpleStatementStepKeeps ==
    ASSUME ProgramInv, SimpleStatementStep
    PROVE  ProgramInv'
BY  parseBeginTransactionStatementKeeps, parseCommitStatementKeeps,
   parseRollbackStatementKeeps, parseSaveTransactionStatementKeeps,
   parseThrowStatementKeeps, parseRaiserrorStatementKeeps, parseReturnStatementKeeps,
   parseBreakStatementKeeps, parseContinueStatementKeeps, parsePrintStatementKeeps,
   parseWaitforStatementKeeps, parseUseStatementKeeps, parseGotoStatementKeeps,
   parseDeallocateCursorStatementKeeps, parseLabelStatementKeeps,
   parseExpressionStatementKeeps, parseFetchStatementKeeps
   DEF SimpleStatementStep

LEMMA StatementStepKeeps ==
    ASSUME ProgramInv, StatementStep
    PROVE  ProgramInv'
BY  ParseProgramKeeps, parseStatementKeeps, parseIfStatementKeeps, parseWhileStatementKeeps,
   parseBeginStatementKeeps, parseBeginEndBlockKeeps, parseTryCatchStatementKeeps,
   parseParenthesizedSelectStatementKeeps, SimpleStatementStepKeeps
   DEF StatementStep

LEMMA DefinitionStepKeeps ==
    ASSUME ProgramInv, DefinitionStep
    PROVE  ProgramInv'
BY  parseCreateIndexStatementKeeps, parseCreateXmlIndexStatementKeeps,
   parseAlterIndexStatementKeeps, parseCreateDefaultStatementKeeps,
   parseCreateRuleStatementKeeps, parseCreateXmlSchemaCollectionStatementKeeps,
   parseCreateTypeStatementKeeps, parseCreateSynonymStatementKeeps,
   parseCreateSchemaStatementKeeps, parseAlterDatabaseStatementKeeps,
   parseCreateSequenceStatementKeeps, parseAlterSequenceStatementKeeps,
   parseCreateStatisticsStatementKeeps, parseUpdateStatisticsStatementKeeps,
   parseStatisticsWithOptionsKeeps, parseBulkInsertStatementKeeps,
   parseCreateStatementKeeps, parseAlterStatementKeeps
   DEF DefinitionStep

LEMMA RoutineStepKeeps ==
    ASSUME ProgramInv, RoutineStep
    PROVE  ProgramInv'
BY  parseParameterDefKeeps, parseParameterDefsKeeps, parseCreateViewStatementKeeps,
   parseAlterViewStatementKeeps, parseCreateFunctionStatementKeeps,
   parseAlterFunctionStatementKeeps, parseCreateTriggerStatementKeeps,
   parseAlterTriggerStatementKeeps, parseEnableDisableTriggerStatementKeeps,
   parseCreateProcedureStatementKeeps, parseAlterProcedureStatementKeeps,
   parseBeginAtomicBlockKeeps
   DEF RoutineStep

LEMMA TableDefinitionStepKeeps ==
    ASSUME ProgramInv, TableDefinitionStep
    PROVE  ProgramInv'
BY  parseIndexColumnsKeeps, parseTableConstraintKeeps, parseInlineConstraintKeeps,
   parseInlineReferencesConstraintKeeps, parseInlineCheckConstraintKeeps,
   parseColumnDefinitionKeeps, parseTableTypeDefinitionKeeps,
   parseCreateTableStatementKeeps, parseAlterTableActionKeeps,
   parseAlterTableStatementKeeps, parseDropStatementKeeps, parseDropObjectStatementKeeps,
   parseDropTableStatementKeeps, parseDropSequenceStatementKeeps,
   parseDropIndexStatementKeeps, parseDropStatisticsStatementKeeps,
   parseTruncateStatementKeeps, parseTruncateTableCompoundKeeps
   DEF TableDefinitionStep

LEMMA SecurityStepKeeps ==
    ASSUME ProgramInv, SecurityStep
    PROVE  ProgramInv'
BY  parseCreateLoginStatementKeeps, parseLoginOptionsKeeps, parseAlterLoginStatementKeeps,
   parseCreateUserStatementKeeps, parseAlterUserStatementKeeps,
   parseCreateRoleStatementKeeps, parseAlterRoleStatementKeeps,
   parseCreateServerRoleStatementKeeps, parseAlterServerRoleStatementKeeps,
   parseCreateApplicationRoleStatementKeeps, parseAlterApplicationRoleStatementKeeps,
   parseCreateCredentialStatementKeeps, parseCreateDatabaseScopedCredentialStatementKeeps,
   parseCreateDatabaseOrScopedCredentialKeeps, parseCreateMasterKeyStatementKeeps,
   parseCreateCertificateStatementKeeps, parseCreateSymmetricKeyStatementKeeps,
   parseCreateAsymmetricKeyStatementKeeps, parseDropKeyStatementKeeps,
   parseCreateAssemblyStatementKeeps, parseAlterAssemblyStatementKeeps
   DEF SecurityStep

LEMMA AdministrationStepKeeps ==
    ASSUME ProgramInv, AdministrationStep
    PROVE  ProgramInv'
BY  parseDbccStatementKeeps, parseBackupStatementKeeps, parseRestoreStatementKeeps,
   parseCreateResourcePoolStatementKeeps, parseAlterResourcePoolStatementKeeps,
   parseCreateWorkloadGroupStatementKeeps, parseAlterWorkloadGroupStatementKeeps,
   parseAlterResourceStatementKeeps, parseAlterResourceGovernorStatementKeeps,
   parseDropResourcePoolStatementKeeps, parseDropWorkloadGroupStatementKeeps,
   parseDropAvailabilityGroupStatementKeeps, parseCreateAvailabilityGroupStatementKeeps,
   parseAlterAvailabilityGroupStatementKeeps
   DEF AdministrationStep

LEMMA StorageStepKeeps ==
    ASSUME ProgramInv, StorageStep
    PROVE  ProgramInv'
BY  parseCreatePartitionStatementKeeps, parseCreatePartitionFunctionStatementKeeps,
   parseCreatePartitionSchemeStatementKeeps, parseAlterPartitionStatementKeeps,
   parseAlterPartitionFunctionStatementKeeps, parseAlterPartitionSchemeStatementKeeps,
   parseCreateFulltextStatementKeeps, parseCreateFulltextCatalogStatementKeeps,
   parseCreateFulltextIndexStatementKeeps, parseAlterFulltextStatementKeeps,
   parseAlterFulltextIndexStatementKeeps, parseDropFulltextStatementKeeps,
   parseDropFulltextIndexStatementKeeps, parseDropFulltextCatalogStatementKeeps
   DEF StorageStep

LEMMA ConversationStepKeeps ==
    ASSUME ProgramInv, ConversationStep
    PROVE  ProgramInv'
BY  parseCreateMessageTypeStatementKeeps, parseCreateContractStatementKeeps,
   parseCreateQueueStatementKeeps, parseAlterQueueStatementKeeps,
   parseCreateServiceStatementKeeps, parseDropServiceBrokerObjectKeeps,
   parseBeginDialogStatementKeeps, parseSendOnConversationStatementKeeps,
   parseReceiveStatementKeeps, parseEndConversationStatementKeeps,
   parseGetConversationGroupStatementKeeps, parseMoveConversationStatementKeeps
   DEF ConversationStep

(* No point is a kind of node.                                             *)
LEMMA KindsArePointless == \A kind \in ProgramKinds : kind \notin MayHoldNil
BY DEF ProgramKinds, MayHoldNil

(* The machine starts with no nil anywhere and keeps to the invariant.      *)
LEMMA ProgramStarts == ProgramInit => ProgramInv
<1> SUFFICES ASSUME ProgramInit PROVE ProgramInv
  OBVIOUS
<1> DEFINE first == Frame("ParseProgram", 0, 1, 1, <<>>)
<1>1. /\ input \in Seq(Tokens) /\ pos = 1 /\ stack = <<first>> /\ ret = NoValue
      /\ heap = <<>> /\ errors = <<>>
  BY InputsAssumption DEF ProgramInit, InitMachine
<1>2. /\ "ParseProgram" \in ProgramPoints /\ "ParseProgram" \notin TakesResult
      /\ "ParseProgram" \notin NeedsOperand
  BY StatementsPoints DEF Begins, Ordinary
<1>3. first \in Frames(ProgramPoints) /\ first.pc = "ParseProgram" /\ first.kids = <<>>
  <2>1. <<>> \in Seq(Nat)
    OBVIOUS
  <2> QED BY <1>2, <2>1 DEF Frame, Frames
<1> HIDE DEF first
<1>4. /\ stack \in Seq(Frames(ProgramPoints)) /\ DOMAIN stack = {1} /\ stack[1] = first
      /\ Len(stack) = 1 /\ stack # <<>>
  BY <1>1, <1>3
<1>5. Top = first
  BY <1>4 DEF Top
<1>6. /\ heap \in Seq(Nodes(ProgramKinds)) /\ DOMAIN heap = {} /\ errors \in Seq(Nat)
      /\ ret \in Nat \cup {NoValue, Panicked} /\ ret # Panicked
  BY <1>1 DEF NoValue, Panicked
<1>7. MachineTypeOK(ProgramPoints, ProgramKinds, TakesResult)
  BY <1>1, <1>2, <1>3, <1>4, <1>5, <1>6 DEF MachineTypeOK
<1>8. Holds("ParseProgram", <<>>)
  BY NoneHeld
<1>9. CallsHold /\ CallersReady /\ ResultReady
  BY <1>2, <1>3, <1>4, <1>5, <1>8 DEF CallsHold, CallersReady, ResultReady
<1>10. NodesHold /\ BrokenByLack
  BY <1>6 DEF NodesHold, BrokenByLack
<1> QED BY <1>7, <1>9, <1>10 DEF ProgramInv

LEMMA ProgramGoesOn == ProgramInv /\ [ProgramNext]_vars => ProgramInv'
BY  StatementStepKeeps, DefinitionStepKeeps, RoutineStepKeeps, DeclarationStepKeeps,
   TableDefinitionStepKeeps, SecurityStepKeeps, AdministrationStepKeeps, StorageStepKeeps,
   ConversationStepKeeps, DmlStepKeeps, SelectStepKeeps, TableStepKeeps,
   ExpressionStepKeeps, NoStepKeeps
   DEF ProgramNext

LEMMA ProgramInvariant == ProgramSpec => []ProgramInv
BY ProgramStarts, ProgramGoesOn, PTL DEF ProgramSpec

(* The parser of statements never meets a point it cannot go on from, takes *)
(* a result only where a call has left one and makes the nodes of ast.go.  *)
THEOREM ProgramTyped == ProgramSpec => []StatementTypeOK
<1>1. ProgramInv => StatementTypeOK
  BY DEF ProgramInv, StatementTypeOK
<1> QED BY <1>1, ProgramInvariant, PTL

(* Whatever the input, a parse without an error leaves a child out only     *)
(* where it is known to, and panics only when it has met such a place.     *)
THEOREM ProgramBrokenOnlyWhereKnown == ProgramSpec => []BrokenOnlyWhereKnown
<1>1. ProgramInv => BrokenOnlyWhereKnown
  <2> SUFFICES ASSUME ProgramInv, errors = <<>> PROVE BrokenOnlyWhereKnown
    BY DEF BrokenOnlyWhereKnown
  <2>1. ASSUME NEW n \in DOMAIN heap
        PROVE  Lacks(heap[n]) <=> ~ Complete(heap[n].kids)
    BY DEF Lacks, Complete, ToSet
  <2>2. ASSUME NEW n \in DOMAIN heap, Lacks(heap[n])
        PROVE  heap[n].kind \in MayLack
    <3>1. Holds(heap[n].kind, heap[n].kids) /\ heap \in Seq(Nodes(ProgramKinds))
      BY DEF ProgramInv, NodesHold, MachineTypeOK
    <3>2. heap[n] \in Nodes(ProgramKinds)
      BY <3>1
    <3>4. heap[n].kind \in ProgramKinds
      BY <3>2 DEF Nodes
    <3>3. heap[n].kind \in NilHolders
      BY <2>1, <2>2, <3>1 DEF Holds
    <3> QED BY <3>3, <3>4, KindsArePointless DEF NilHolders
  <2>3. ret = Panicked => \E n \in DOMAIN heap : Lacks(heap[n])
    BY <2>1 DEF ProgramInv, BrokenByLack, SomethingLacks
  <2> QED BY <2>2, <2>3 DEF BrokenOnlyWhereKnown
<1> QED BY <1>1, ProgramInvariant, PTL
=============================================================================
