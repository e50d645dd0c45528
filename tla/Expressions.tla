----------------------------- MODULE Expressions -----------------------------
(***************************************************************************)
(* The Pratt parser of parser/parser.go: parseExpression and the prefix    *)
(* and infix functions it dispatches to.  A SELECT inside an expression is *)
(* known here by what it does to the cursor only (NestedSelect).           *)
(***************************************************************************)
EXTENDS Conversions

CONSTANT MaxSelect           \* bound: tokens a nested SELECT goes through
ASSUME SelectAssumption == MaxSelect \in Nat

(* LOWEST is in ParserMachine.                                             *)
OR_PREC      == 2
AND_PREC     == 3
NOT_PREC     == 4
COMPARE      == 5
BETWEEN_PREC == 6
BITOR        == 7
BITXOR       == 8
BITAND       == 9
SHIFT        == 10
SUM          == 11
PRODUCT      == 12
PREFIX       == 13
CALL         == 14
INDEX        == 15

Precedence(t) ==
    CASE t = "OR"                                              -> OR_PREC
      [] t = "AND"                                             -> AND_PREC
      [] t \in {"EQ", "NEQ", "LT", "GT", "LTE", "GTE", "NOT_LT", "NOT_GT", "IS",
                "IS_DISTINCT_FROM", "IS_NOT_DISTINCT_FROM"}    -> COMPARE
      [] t \in {"NOT", "LIKE", "BETWEEN", "IN"}                -> BETWEEN_PREC
      [] t = "PIPE"                                            -> BITOR
      [] t = "CARET"                                           -> BITXOR
      [] t = "AMPERSAND"                                       -> BITAND
      [] t \in {"LSHIFT", "RSHIFT"}                            -> SHIFT
      [] t \in {"PLUS", "MINUS"}                               -> SUM
      [] t \in {"ASTERISK", "SLASH", "PERCENT"}                -> PRODUCT
      [] t \in {"COLLATE", "AT", "LPAREN"}                     -> CALL
      [] t \in {"DOT", "SCOPE"}                                -> INDEX
      [] OTHER                                                 -> LOWEST

(* Keywords that serve as column names, and function names that are keywords. *)
KeywordIdentifiers ==
    {"DATE", "TIME", "DATETIME", "DATETIME2", "TEXT", "NTEXT", "IMAGE", "MONEY",
     "SMALLMONEY", "REAL", "XML", "KEY", "LEFT", "RIGHT", "ROWS", "RANGE", "ROW",
     "CURRENT", "UNBOUNDED", "PRECEDING", "FOLLOWING", "DEFAULT_KW", "SETS",
     "RESULT", "GROUPING", "CUBE", "ROLLUP", "TARGET", "SOURCE", "MATCHED",
     "VALUE", "LEVEL", "TYPE_WARNING", "ACTION", "PATH", "LOG", "CHAR", "VARCHAR",
     "NCHAR", "NVARCHAR", "INT_TYPE", "INNER", "OUTER", "CROSS", "APPLY",
     "PERCENT_KW", "MESSAGE", "CONVERSATION", "OWNER_KW", "CALLER", "NOCOUNT",
     "OPTION", "CLUSTERED", "NONCLUSTERED", "TIMESTAMP", "CHECKSUM", "COLLATE",
     "INDEX", "STATS", "MEMBER", "SUBJECT", "RESOURCE", "PRIMARY", "GEOGRAPHY",
     "GEOMETRY", "HIERARCHYID", "CYCLE", "ROLE", "ADD", "BULK", "RECOVERY",
     "PARTITION", "ALGORITHM", "AFTER", "SNAPSHOT", "OUTPUT", "LANGUAGE",
     "ISOLATION", "AUTO", "GET", "INCREMENT", "SELF", "IDENTITY", "INIT",
     "COMPRESSION", "PERIOD", "ENCRYPTION", "AUTHORIZATION", "LOCAL", "GLOBAL",
     "DATABASE", "NONE_KW", "DISK", "FUNCTION", "CONSTRAINT", "CHECK", "FOREIGN",
     "REFERENCES", "MAXVALUE", "MINVALUE", "CERTIFICATE", "QUEUE", "RECEIVE",
     "UPDATE", "TRANSACTION", "DELETE", "INSERT", "PASSWORD", "HASH", "LOOP",
     "REMOTE", "MERGE"}
FunctionNames ==
    {"COUNT", "SUM", "AVG", "MIN", "MAX", "COALESCE", "NULLIF", "IIF",
     "ROW_NUMBER", "RANK", "DENSE_RANK", "NTILE", "LAG", "LEAD", "FIRST_VALUE",
     "LAST_VALUE", "CONTEXT_INFO"}

(* prefixParseFns, "nil" where the map has no entry.                       *)
PrefixFn(t) ==
    CASE t = "IDENT"                               -> "parseIdentifier"
      [] t \in {"VARIABLE", "TEMPVAR"}             -> "parseVariable"
      [] t = "SYSVAR"                              -> "parseSysVar"
      [] t = "INT"                                 -> "parseIntegerLiteral"
      [] t = "FLOAT"                               -> "parseFloatLiteral"
      [] t = "MONEY_LIT"                           -> "parseMoneyLiteral"
      [] t = "STRING"                              -> "parseStringLiteral"
      [] t = "NSTRING"                             -> "parseNStringLiteral"
      [] t = "NULL"                                -> "parseNullLiteral"
      [] t = "BINARY"                              -> "parseBinaryLiteral"
      [] t = "ASTERISK"                            -> "parseAsterisk"
      [] t \in KeywordIdentifiers                  -> "parseKeywordAsIdentifier"
      [] t \in {"NOT", "MINUS", "PLUS", "TILDE"}   -> "parsePrefixExpression"
      [] t = "LPAREN"                              -> "parseGroupedExpression"
      [] t = "CASE"                                -> "parseCaseExpression"
      [] t = "EXISTS"                              -> "parseExistsExpression"
      [] t = "ALL"                                 -> "parseAllExpression"
      [] t = "SELECT"                              -> "parseSubqueryExpression"
      [] t \in FunctionNames                       -> "parseFunctionLiteral"
      [] t \in {"CAST", "TRY_CAST"}                -> "parseCastExpression"
      [] t \in {"CONVERT", "TRY_CONVERT"}          -> "parseConvertExpression"
      [] t \in {"PARSE", "TRY_PARSE"}              -> "parseParseExpression"
      [] t = "TRIM"                                -> "parseTrimExpression"
      [] t = "CURSOR"                              -> "parseCursorExpression"
      [] t = "NEXT"                                -> "parseNextValueFor"
      [] t = "NEXT_VALUE_FOR"                      -> "parseNextValueForCompound"
      [] t = "CONTAINS"                            -> "parseContainsExpression"
      [] t = "FREETEXT"                            -> "parseFreetextExpression"
      [] t = "CONTAINSTABLE"                       -> "parseContainsTableExpression"
      [] t = "FREETEXTTABLE"                       -> "parseFreetextTableExpression"
      [] OTHER                                     -> "nil"

(* infixParseFns                                                           *)
InfixFn(t) ==
    CASE t \in {"PLUS", "MINUS", "SLASH", "ASTERISK", "PERCENT", "EQ", "NEQ", "LT", "GT",
                "LTE", "GTE", "NOT_LT", "NOT_GT", "AND", "OR", "AMPERSAND", "PIPE",
                "CARET", "LSHIFT", "RSHIFT"}       -> "parseInfixExpression"
      [] t = "LPAREN"                              -> "parseCallExpression"
      [] t = "DOT"                                 -> "parseDotExpression"
      [] t = "SCOPE"                               -> "parseScopeExpression"
      [] t = "LIKE"                                -> "parseLikeExpression"
      [] t = "BETWEEN"                             -> "parseBetweenExpression"
      [] t = "IN"                                  -> "parseInExpression"
      [] t = "IS"                                  -> "parseIsNullExpression"
      [] t \in {"IS_DISTINCT_FROM", "IS_NOT_DISTINCT_FROM"} -> "parseDistinctFromExpression"
      [] t = "NOT"                                 -> "parseNotInfixExpression"
      [] t = "COLLATE"                             -> "parseCollateExpression"
      [] t = "AT"                                  -> "parseAtTimeZoneExpression"
      [] OTHER                                     -> "nil"
-----------------------------------------------------------------------------
(* mutant: `<=` for `<`, so that operators group to the right.             *)
LoopTakesEqual ==
    \/ /\ At("parseExpression")
       /\ PrefixFn(Cur) # "nil"
       /\ Call(0, "parseExpression.Left", <<>>, PrefixFn(Cur))
    \/ /\ At("parseExpression") /\ PrefixFn(Cur) = "nil" /\ Fail(0, 0)
    \/ /\ At("parseExpression.Left")
       /\ IF Peek # "SEMICOLON" /\ Top.prec <= Precedence(Peek) /\ InfixFn(Peek) # "nil"
          THEN CallFrame(1, "parseExpression.Left", <<>>,
                         Frame(InfixFn(Peek), 0, pos + 1, Top.lo, <<ret>>))
          ELSE Return(ret)

(* The loop: an infix function takes over the expression on its left for   *)
(* as long as the next operator binds tighter than `precedence`.           *)
parseExpression ==
    \/ /\ At("parseExpression")
       /\ PrefixFn(Cur) # "nil"
       /\ Call(0, "parseExpression.Left", <<>>, PrefixFn(Cur))
    \/ /\ At("parseExpression")
       /\ PrefixFn(Cur) = "nil"                           \* noPrefixParseFnError
       /\ Fail(0, 0)
    \/ /\ At("parseExpression.Left")
       /\ IF Peek # "SEMICOLON" /\ Top.prec < Precedence(Peek) /\ InfixFn(Peek) # "nil"
          THEN CallFrame(1, "parseExpression.Left", <<>>,
                         Frame(InfixFn(Peek), 0, pos + 1, Top.lo, <<ret>>))
          ELSE Return(ret)

(* The functions that make a node of the current token.                    *)
LeafKind == [parseIdentifier          |-> "Identifier",
             parseVariable            |-> "Variable",
             parseSysVar              |-> "Identifier",
             parseKeywordAsIdentifier |-> "Identifier",
             parseAsterisk            |-> "Identifier",
             parseIntegerLiteral      |-> "Literal",
             parseFloatLiteral        |-> "Literal",
             parseMoneyLiteral        |-> "Literal",
             parseStringLiteral       |-> "Literal",
             parseNStringLiteral      |-> "Literal",
             parseNullLiteral         |-> "Literal",
             parseBinaryLiteral       |-> "Literal"]

LeafSwallows ==                        \* mutant: the token after the leaf is lost
    \E fn \in DOMAIN LeafKind : At(fn) /\ ReturnNew(LeafKind[fn], pos, <<>>, 1)

parseLeaf == \E fn \in DOMAIN LeafKind : At(fn) /\ ReturnNew(LeafKind[fn], pos, <<>>, 0)

(* strconv.ParseFloat may refuse the digits (1e999).                       *)
parseFloatLiteral == At("parseFloatLiteral") /\ Fail(0, 0)

parsePrefixExpression ==
    \/ /\ At("parsePrefixExpression")
       /\ CallExpression(1, "parsePrefixExpression.Right", <<>>, PREFIX)
    \/ /\ At("parsePrefixExpression.Right")
       /\ ReturnNew("Prefix", Top.at, Got, 0)

parseInfixExpression ==
    \/ /\ At("parseInfixExpression")
       /\ CallExpression(1, "parseInfixExpression.Right", Top.kids, Precedence(Cur))
    \/ /\ At("parseInfixExpression.Right")
       /\ ReturnNew("Infix", Top.at, Got, 0)

(* ( expr ): the node of expr itself is returned.                          *)
InParentheses(n) ==
    [kind |-> n.kind, at |-> n.at, kids |-> n.kids, lo |-> Top.lo, hi |-> pos + 1,
     paren |-> TRUE, whole |-> n.whole]
DropParentheses ==
    /\ heap' = IF ret = NIL THEN heap ELSE [heap EXCEPT ![ret] = InParentheses(heap[ret])]
    /\ pos' = pos + 1
    /\ Pop
    /\ UNCHANGED <<input, ret, errors>>

parseGroupedExpression ==
    \/ /\ At("parseGroupedExpression")
       /\ CASE Peek = "RPAREN" -> ReturnNew("Tuple", pos, <<>>, 1)
            [] Peek = "SELECT" ->
                 Call(1, "parseGroupedExpression.Subquery", <<>>, "parseSelectStatement")
            [] OTHER -> CallExpression(1, "parseGroupedExpression.Exp", <<>>, LOWEST)
    \/ /\ At("parseGroupedExpression.Subquery")
       /\ IF Peek = "RPAREN" THEN ReturnNew("Subquery", pos + 1, Got, 1) ELSE Fail(1, 0)
    \/ /\ At("parseGroupedExpression.Exp")
       /\ IF Peek = "RPAREN" THEN DropParentheses ELSE Fail(1, 0)

NodeIs(v, kinds) == v # NIL /\ heap[v].kind \in kinds
Names == {"Identifier", "QualifiedIdentifier"}

(* left.name, left.name(args): any token is taken for the name, and a left *)
(* side that is no name is dropped from left.name.                         *)
parseDotExpression ==
    \/ /\ At("parseDotExpression")
       /\ IF Tok(pos + 2) = "LPAREN"
          THEN Call(2, "parseDotExpression.Arguments", Top.kids, "parseExpressionList")
          ELSE ReturnNew("QualifiedIdentifier", pos + 1,
                         IF NodeIs(Top.kids[1], Names) THEN Top.kids ELSE <<>>, 1)
    \/ /\ At("parseDotExpression.Arguments")
       /\ ReturnNew("MethodCall", Top.at, GotIfAny, 0)

(* type::name, type::name(args).  The type is kept as text: left.String()  *)
(* is called right here unless left is a name, and panics on a broken left. *)
parseScopeExpression ==
    \/ /\ At("parseScopeExpression")
       /\ Whole(Top.kids)
       /\ IF Tok(pos + 2) = "LPAREN"
          THEN Call(2, "parseScopeExpression.Arguments", Top.kids, "parseExpressionList")
          ELSE ReturnNew("StaticMethodCall", Top.at, Top.kids, 1)
    \/ /\ At("parseScopeExpression.Arguments")
       /\ ReturnNew("StaticMethodCall", Top.at, GotIfAny, 0)
    \/ /\ At("parseScopeExpression")
       /\ ~ Whole(Top.kids)
       /\ Panic
-----------------------------------------------------------------------------
(* ( [DISTINCT] args ) [WITHIN GROUP ( ORDER BY items )] [OVER clause], the *)
(* cursor on the first parenthesis.                                        *)
WithinGroup == <<"WITHIN", "GROUP", "LPAREN", "ORDER", "BY">>
FirstMissing == CHOOSE j \in 2..5 : /\ Tok(pos + j) # WithinGroup[j]
                                    /\ \A i \in 2..(j - 1) : Tok(pos + i) = WithinGroup[i]

parseCallExpression ==
    \/ /\ At("parseCallExpression")
       /\ Call(IF Peek = "DISTINCT" THEN 1 ELSE 0, "parseCallExpression.Arguments",
               Top.kids, "parseExpressionList")
    \/ /\ At("parseCallExpression.Arguments")
       /\ CASE Peek # "WITHIN" -> Continue(0, "parseCallExpression.Over", GotIfAny)
            [] Peek = "WITHIN" /\ (\A j \in 2..5 : Tok(pos + j) = WithinGroup[j]) ->
                 Call(6, "parseCallExpression.WithinGroup", GotIfAny, "parseOrderByItems")
            [] OTHER -> Fail(FirstMissing, FirstMissing - 1)
    \/ /\ At("parseCallExpression.WithinGroup")
       /\ IF Peek = "RPAREN" THEN Continue(1, "parseCallExpression.Over", Got) ELSE Fail(1, 0)
    \/ /\ At("parseCallExpression.Over")
       /\ IF Peek = "OVER" THEN Call(1, "parseCallExpression.Clause", Top.kids, "parseOverClause")
                           ELSE ReturnNew("FunctionCall", Top.at, Top.kids, 0)
    \/ /\ At("parseCallExpression.Clause")
       /\ ReturnNew("FunctionCall", Top.at, GotIfAny, 0)

(* The arguments up to the closing parenthesis; `key : value` is a pair,   *)
(* whose two expressions are kept here as two elements.                    *)
parseExpressionList ==
    \/ /\ At("parseExpressionList")
       /\ CASE Peek = "RPAREN"   -> ReturnNew("List", Top.at, <<>>, 1)
            [] Peek = "DISTINCT" -> CallExpression(2, "parseExpressionList.Key", <<>>, LOWEST)
            [] OTHER             -> CallExpression(1, "parseExpressionList.Key", <<>>, LOWEST)
    \/ /\ At("parseExpressionList.Key")
       /\ Peek = "COLON"
       /\ CallExpression(2, "parseExpressionList.Value", Got, LOWEST)
    \/ /\ \/ At("parseExpressionList.Value")
          \/ At("parseExpressionList.Key") /\ Peek # "COLON"
       /\ CASE Peek = "COMMA"  -> CallExpression(2, "parseExpressionList.Key", Got, LOWEST)
            [] Peek = "RPAREN" -> ReturnNew("List", Top.at, Got, 1)
            [] OTHER           -> Fail(1, 0)

(* COUNT(args), or COUNT as a name.                                        *)
parseFunctionLiteral ==
    \/ /\ At("parseFunctionLiteral")
       /\ Peek # "LPAREN"
       /\ ReturnNew("Identifier", pos, <<>>, 0)
    \/ /\ At("parseFunctionLiteral")
       /\ Peek = "LPAREN"
       /\ heap' = Append(heap, Node("Identifier", pos, <<>>, pos))
       /\ stack' = [stack EXCEPT ![Len(stack)] =
              Frame("parseCallExpression", Top.prec, pos + 1, Top.lo, <<Len(heap) + 1>>)]
       /\ pos' = pos + 1
       /\ UNCHANGED <<input, ret, errors>>

(* The END of the CASE, or the error.                                      *)
CaseEnd ==
    /\ \/ At("parseCaseExpression.End")
       \/ At("parseCaseExpression.When") /\ Cur \notin {"WHEN", "ELSE"}
    /\ IF Cur = "END" THEN ReturnNew("Case", Top.at, Top.kids, 0) ELSE Fail(0, 0)

(* CASE [operand] {WHEN condition THEN result} [ELSE expr] END             *)
parseCaseExpression ==
    \/ /\ At("parseCaseExpression")
       /\ IF Peek = "WHEN" THEN Continue(1, "parseCaseExpression.When", <<>>)
                           ELSE CallExpression(1, "parseCaseExpression.Operand", <<>>, LOWEST)
    \/ /\ At("parseCaseExpression.Operand")
       /\ Continue(1, "parseCaseExpression.When", GotIfAny)
    \/ /\ At("parseCaseExpression.When")
       /\ Cur = "WHEN"
       /\ CallExpression(1, "parseCaseExpression.Condition", Top.kids, LOWEST)
    \/ /\ At("parseCaseExpression.When")
       /\ Cur = "ELSE"
       /\ CallExpression(1, "parseCaseExpression.Else", Top.kids, LOWEST)
    \/ /\ At("parseCaseExpression.Condition")
       /\ IF Peek = "THEN" THEN CallExpression(2, "parseCaseExpression.Result", Got, LOWEST)
                           ELSE Fail(1, 0)
    \/ /\ At("parseCaseExpression.Result")
       /\ Continue(1, "parseCaseExpression.When", Got)
    \/ /\ At("parseCaseExpression.Else")
       /\ Continue(1, "parseCaseExpression.End", GotIfAny)
    \/ CaseEnd

(* EXISTS ( SELECT ... ) and ALL ( SELECT ... ): that a SELECT follows the *)
(* parenthesis is not checked.                                             *)
parseExistsExpression ==
    \/ /\ At("parseExistsExpression")
       /\ IF Peek = "LPAREN"
          THEN Call(2, "parseExistsExpression.Subquery", <<>>, "parseSelectStatement")
          ELSE Fail(1, 0)
    \/ /\ At("parseExistsExpression.Subquery")
       /\ IF Peek = "RPAREN" THEN ReturnNew("Exists", Top.at, Got, 1) ELSE Fail(1, 0)

parseAllExpression ==
    \/ /\ At("parseAllExpression")
       /\ IF Peek = "LPAREN"
          THEN Call(2, "parseAllExpression.Subquery", <<>>, "parseSelectStatement")
          ELSE Fail(1, 0)
    \/ /\ At("parseAllExpression.Subquery")
       /\ IF Peek = "RPAREN" THEN ReturnNew("FunctionCall", Top.at, Got, 1) ELSE Fail(1, 0)

parseSubqueryExpression ==
    \/ /\ At("parseSubqueryExpression")
       /\ Call(0, "parseSubqueryExpression.Select", <<>>, "parseSelectStatement")
    \/ /\ At("parseSubqueryExpression.Select")
       /\ ReturnNew("Subquery", pos, Got, 0)

(* The SELECT's own expressions may panic, over a SELECT broken in them.   *)
SelectPanics(k) ==
    /\ heap' = Append(heap, Node("Select", Top.at, <<NIL>>, pos + k))
    /\ pos' = pos + k
    /\ stack' = <<>>
    /\ ret' = Panicked
    /\ errors' \in {errors, Append(errors, pos + k)}
    /\ UNCHANGED input

(* What a nested SELECT does, with the clauses left out: it moves at least *)
(* one token on and returns a statement, one that broke on the way (with   *)
(* an error or, in GROUPING SETS and OPTIMIZE FOR, without), or nil (GROUP *)
(* and ORDER without BY).                                                  *)
NestedSelect ==
    /\ At("parseSelectStatement")
    /\ \E k \in 1..MaxSelect :
          /\ pos + k <= Len(input) + 1 \/ k = 1
          /\ \/ \E kids \in {<<>>, <<NIL>>} : ReturnNew("Select", Top.at, kids, k)
             \/ ReturnFlawed("Select", Top.at, <<NIL>>, k, k)
             \/ Fail(k + 1, k)
             \/ SelectPanics(k)
-----------------------------------------------------------------------------
(* expr LIKE pattern [ESCAPE expr]                                         *)
parseLikeExpression ==
    \/ /\ At("parseLikeExpression")
       /\ CallExpression(1, "parseLikeExpression.Pattern", Top.kids, COMPARE)
    \/ /\ At("parseLikeExpression.Pattern")
       /\ IF Peek = "ESCAPE" THEN CallExpression(2, "parseLikeExpression.Escape", Got, LOWEST)
                             ELSE ReturnNew("Like", Top.at, Got, 0)
    \/ /\ At("parseLikeExpression.Escape")
       /\ ReturnNew("Like", Top.at, GotIfAny, 0)

parseCollateExpression ==
    At("parseCollateExpression") /\ ReturnNew("Collate", Top.at, Top.kids, 1)

AtGoesBack ==                          \* mutant: the cursor is put back on left
    \/ /\ At("parseAtTimeZoneExpression")
       /\ IF Peek = "TIME" THEN Fail(2, 1)
          ELSE Pop /\ ret' = Top.kids[1] /\ pos' = pos - 1 /\ UNCHANGED <<input, heap, errors>>

(* expr AT TIME ZONE expr.  Without TIME the expression on the left is     *)
(* returned, with the cursor on AT.                                        *)
parseAtTimeZoneExpression ==
    \/ /\ At("parseAtTimeZoneExpression")
       /\ CASE Peek # "TIME" -> Return(Top.kids[1])
            [] Peek = "TIME" /\ Tok(pos + 2) = "ZONE" ->
                 CallExpression(3, "parseAtTimeZoneExpression.TimeZone", Top.kids, CALL)
            [] OTHER -> Fail(2, 1)
    \/ /\ At("parseAtTimeZoneExpression.TimeZone")
       /\ ReturnNew("AtTimeZone", Top.at, Got, 0)

(* expr BETWEEN low AND high                                               *)
parseBetweenExpression ==
    \/ /\ At("parseBetweenExpression")
       /\ CallExpression(1, "parseBetweenExpression.Low", Top.kids, AND_PREC)
    \/ /\ At("parseBetweenExpression.Low")
       /\ IF Peek = "AND" THEN CallExpression(2, "parseBetweenExpression.High", Got, BETWEEN_PREC)
                          ELSE Fail(1, 0)
    \/ /\ At("parseBetweenExpression.High")
       /\ ReturnNew("Between", Top.at, Got, 0)

(* expr IN ( SELECT ... ) or expr IN ( list )                              *)
parseInExpression ==
    \/ /\ At("parseInExpression")
       /\ CASE Peek # "LPAREN" -> Fail(1, 0)
            [] Peek = "LPAREN" /\ Tok(pos + 2) = "SELECT" ->
                 Call(2, "parseInExpression.Subquery", Top.kids, "parseSelectStatement")
            [] OTHER ->
                 CallExpression(2, "parseInExpression.Value", Top.kids, LOWEST)
    \/ /\ At("parseInExpression.Value")
       /\ CASE Peek = "COMMA"  -> CallExpression(2, "parseInExpression.Value", Got, LOWEST)
            [] Peek = "RPAREN" -> ReturnNew("In", Top.at, Got, 1)
            [] OTHER           -> Fail(1, 0)
    \/ /\ At("parseInExpression.Subquery")
       /\ IF Peek = "RPAREN" THEN ReturnNew("In", Top.at, GotIfAny, 1) ELSE Fail(1, 0)

(* expr IS [NOT] NULL                                                      *)
parseIsNullExpression ==
    /\ At("parseIsNullExpression")
    /\ LET k == IF Peek = "NOT" THEN 2 ELSE 1 IN
       IF Tok(pos + k) = "NULL" THEN ReturnNew("IsNull", Top.at, Top.kids, k) ELSE Fail(k, k)

parseDistinctFromExpression ==
    \/ /\ At("parseDistinctFromExpression")
       /\ CallExpression(1, "parseDistinctFromExpression.Right", Top.kids, COMPARE)
    \/ /\ At("parseDistinctFromExpression.Right")
       /\ ReturnNew("IsDistinctFrom", Top.at, Got, 0)

(* expr NOT IN, NOT LIKE, NOT BETWEEN: from the second word on the code is *)
(* that of the positive form.                                              *)
parseNotInfixExpression ==
    /\ At("parseNotInfixExpression")
    /\ IF Peek \in {"IN", "LIKE", "BETWEEN"} THEN TailCall(1, InfixFn(Peek)) ELSE Fail(1, 1)
-----------------------------------------------------------------------------
ExpressionStep ==
    \/ parseExpression \/ parseLeaf \/ parseFloatLiteral
    \/ parsePrefixExpression \/ parseInfixExpression \/ parseGroupedExpression
    \/ parseDotExpression \/ parseScopeExpression \/ parseCallExpression
    \/ parseExpressionList \/ parseFunctionLiteral \/ parseCaseExpression
    \/ parseExistsExpression \/ parseAllExpression \/ parseSubqueryExpression
    \/ parseLikeExpression \/ parseCollateExpression \/ parseAtTimeZoneExpression
    \/ parseBetweenExpression \/ parseInExpression \/ parseIsNullExpression
    \/ parseDistinctFromExpression \/ parseNotInfixExpression
    \/ WindowStep \/ ConversionStep

Init == InitMachine("parseExpression", LOWEST)
Next == ExpressionStep \/ NestedSelect \/ (Finished /\ UNCHANGED vars)

(* The parse functions run to their end: nothing can hold them up.         *)
Spec == Init /\ [][Next]_vars
FairSpec == Spec /\ WF_vars(Next)
-----------------------------------------------------------------------------
(* The resume points of the functions: those that go on with what the last *)
(* call has returned, and the others, the beginnings included.             *)
AwaitsResult ==
    {"parseOrderByItems.Item", "parseFrameBound.Offset",
     "parseWindowFrame.Start", "parseWindowFrame.End",
     "parseOverClause.Partition", "parseOverClause.Ordered",
     "parseOverClause.Framed", "parseExpression.Left",
     "parsePrefixExpression.Right", "parseInfixExpression.Right",
     "parseGroupedExpression.Subquery", "parseGroupedExpression.Exp",
     "parseDotExpression.Arguments", "parseScopeExpression.Arguments",
     "parseCallExpression.Arguments", "parseCallExpression.WithinGroup",
     "parseCallExpression.Clause", "parseExpressionList.Key",
     "parseExpressionList.Value", "parseCaseExpression.Operand",
     "parseCaseExpression.Condition", "parseCaseExpression.Result",
     "parseCaseExpression.Else", "parseExistsExpression.Subquery",
     "parseAllExpression.Subquery", "parseSubqueryExpression.Select",
     "parseLikeExpression.Pattern", "parseLikeExpression.Escape",
     "parseAtTimeZoneExpression.TimeZone", "parseBetweenExpression.Low",
     "parseBetweenExpression.High", "parseInExpression.Value",
     "parseInExpression.Subquery", "parseDistinctFromExpression.Right",
     "parseCastExpression.Expression", "parseCastExpression.TargetType",
     "parseConvertExpression.TargetType", "parseConvertExpression.Expression",
     "parseConvertExpression.Style", "parseParseExpression.Expression",
     "parseParseExpression.TargetType", "parseParseExpression.Culture",
     "parseTrimExpression.First", "parseTrimExpression.Expression",
     "parseCursorExpression.ForSelect", "parseNextValueForCompound.Over",
     "parseContainsExpression.SearchTerm", "parseFreetextExpression.SearchTerm",
     "parseContainsTableExpression.SearchTerm", "parseFreetextTableExpression.SearchTerm"}
Labels == AwaitsResult \cup
    {"parseAllExpression", "parseAsterisk", "parseAtTimeZoneExpression",
     "parseBetweenExpression", "parseBinaryLiteral", "parseCallExpression",
     "parseCaseExpression", "parseCollateExpression",
     "parseDistinctFromExpression", "parseDotExpression",
     "parseExistsExpression", "parseExpression", "parseExpressionList",
     "parseFloatLiteral", "parseFrameBound", "parseFunctionLiteral",
     "parseGroupedExpression", "parseIdentifier", "parseInExpression",
     "parseInfixExpression", "parseIntegerLiteral", "parseIsNullExpression",
     "parseKeywordAsIdentifier", "parseLikeExpression", "parseMoneyLiteral",
     "parseNStringLiteral", "parseNotInfixExpression", "parseNullLiteral",
     "parseOrderByItems", "parseOverClause", "parsePrefixExpression",
     "parseScopeExpression", "parseSelectStatement", "parseStringLiteral",
     "parseSubqueryExpression", "parseSysVar", "parseVariable",
     "parseWindowFrame", "parseCallExpression.Over", "parseCaseExpression.End",
     "parseCaseExpression.When", "parseOverClause.Close",
     "parseOverClause.Frame", "parseOverClause.Order", "parseDataType",
     "parseCastExpression", "parseConvertExpression", "parseParseExpression",
     "parseTrimExpression", "parseCursorExpression", "parseNextValueFor",
     "parseNextValueForCompound", "parseContainsExpression", "parseFreetextExpression",
     "parseContainsTableExpression", "parseFreetextTableExpression"}
Kinds ==
    {"AtTimeZone", "Between", "Case", "Collate", "Exists", "FrameBound",
     "FunctionCall", "Identifier", "In", "Infix", "IsDistinctFrom", "IsNull",
     "Like", "List", "Literal", "MethodCall", "OrderBy", "Over", "Prefix",
     "QualifiedIdentifier", "Select", "StaticMethodCall", "Subquery", "Tuple",
     "Variable", "WindowFrame", "DataType", "Conversion", "Trim", "CursorExpression",
     "NextValueFor", "FullText"}

TypeOK == MachineTypeOK(Labels, Kinds, AwaitsResult)

SelectBroke == \E n \in DOMAIN heap : heap[n].kind = "Select" /\ ~ heap[n].whole

(* Nothing goes missing silently: as long as no error is recorded, no      *)
(* function has returned nil and no node has a nil child that its String() *)
(* would dereference, a SELECT apart, and only over a broken SELECT is     *)
(* another node broken or does the parser panic.                           *)
NilIsReported ==
    errors = <<>> => /\ ret # NIL
                     /\ \A n \in DOMAIN heap :
                           \/ heap[n].kind = "Select"
                           \/ \A i \in DOMAIN heap[n].kids : heap[n].kids[i] # NIL
                     /\ \/ ret # Panicked /\ \A n \in DOMAIN heap : heap[n].whole
                        \/ SelectBroke

(* The precedence that the i-th operand of a node is parsed with; operands *)
(* between brackets and keywords are not in the domain.  The one behind    *)
(* LIKE's ESCAPE takes operators of every precedence, AND among them,      *)
(* though the comment at parser.go:1098 means to prevent that.             *)
Floor(n) ==
    CASE n.kind = "Prefix"         -> [i \in {1} |-> PREFIX]
      [] n.kind = "Infix"          -> [i \in {2} |-> Precedence(Tok(n.at))]
      [] n.kind = "Like"           -> [i \in {2, 3} |-> IF i = 2 THEN COMPARE ELSE LOWEST]
      [] n.kind = "Between"        -> [i \in {2, 3} |-> IF i = 2 THEN AND_PREC ELSE BETWEEN_PREC]
      [] n.kind = "IsDistinctFrom" -> [i \in {2} |-> COMPARE]
      [] n.kind = "AtTimeZone"     -> [i \in {2} |-> CALL]
      [] OTHER                     -> [i \in {} |-> LOWEST]

Operations == {"Infix", "Like", "Between", "In", "IsNull", "IsDistinctFrom", "Collate", "AtTimeZone"}
OpenOperation(v) == v # NIL /\ heap[v].kind \in Operations /\ ~ heap[v].paren
OpenEnd(v) ==                          \* its last operand could have gone on
    /\ v # NIL /\ ~ heap[v].paren
    /\ heap[v].kids # <<>> /\ heap[v].kids[Len(heap[v].kids)] # NIL
    /\ Len(heap[v].kids) \in DOMAIN Floor(heap[v])

(* Operators group by precedence and, on a level, from left to right: an   *)
(* operation that is an operand without parentheses binds tighter than the *)
(* operator it is an operand of (what ESCAPE brings in may be anything,    *)
(* see Floor), or as tight when it stands on the left.                     *)
OperatorsBind ==
    errors = <<>> => \A n \in DOMAIN heap : LET node == heap[n] IN
        /\ \A i \in DOMAIN Floor(node) \cap DOMAIN node.kids :
              OpenOperation(node.kids[i])
                  => Precedence(Tok(heap[node.kids[i]].at)) > Floor(node)[i]
        /\ node.kind \in Operations /\ OpenEnd(node.kids[1])
                  => LET l == heap[node.kids[1]] IN
                     Precedence(Tok(node.at)) <= Floor(l)[Len(l.kids)]

Span(v) == IF v = NIL THEN {} ELSE heap[v].lo..heap[v].hi

(* ROWS and RANGE serve as names, too: parseOverClause takes such a name   *)
(* at the end of its ORDER BY items for the word that begins the frame.    *)
FrameWords == {"ROWS", "RANGE"}
ReadTwice(node, a, b) == node.kind = "Over" /\ a = b /\ Tok(a) \in FrameWords

(* The operands of a node are parts of its text, one after the other: none *)
(* is taken from outside the node, and no token is in two operands but for *)
(* the word that an OVER clause reads twice.                               *)
SourceOrder ==
    \A n \in DOMAIN heap : LET node == heap[n] IN
        \A i \in DOMAIN node.kids :
            /\ Span(node.kids[i]) \subseteq node.lo..node.hi
            /\ \A j \in 1..(i - 1) :
                 \A a \in Span(node.kids[j]), b \in Span(node.kids[i]) :
                    a < b \/ ReadTwice(node, a, b)

(* The words a node is made of, its operands apart.                        *)
Layout(kind) ==
    CASE kind = "Like"               -> {"LIKE", "NOT", "ESCAPE"}
      [] kind = "Between"            -> {"BETWEEN", "NOT", "AND"}
      [] kind = "In"                 -> {"IN", "NOT", "LPAREN", "COMMA", "RPAREN"}
      [] kind = "IsNull"             -> {"IS", "NOT", "NULL"}
      [] kind = "AtTimeZone"         -> {"AT", "TIME", "ZONE"}
      [] kind = "Case"               -> {"CASE", "WHEN", "THEN", "ELSE", "END"}
      [] kind \in {"Exists", "Subquery", "Tuple"} -> {"EXISTS", "LPAREN", "RPAREN"}
      [] kind = "List"               -> {"LPAREN", "COMMA", "COLON", "DISTINCT", "RPAREN"}
      [] kind = "FunctionCall"       -> {"ALL", "LPAREN", "RPAREN", "DISTINCT",
                                         "WITHIN", "GROUP", "ORDER", "BY"}
      [] kind = "OrderBy"            -> {"COMMA", "ASC", "DESC"}
      [] kind = "WindowFrame"        -> {"ROWS", "RANGE", "BETWEEN", "AND"}
      [] kind \in {"MethodCall", "StaticMethodCall"} -> {"DOT"}
      [] kind = "Conversion"         -> {"LPAREN", "AS", "COMMA", "USING", "RPAREN"}
      [] kind = "Trim"               -> {"LPAREN", "IDENT", "STRING", "NSTRING", "FROM", "RPAREN"}
      [] OTHER                       -> {}

(* Constructs that pass over words they do not know, and of which          *)
(* NoTokenLost says nothing; the token behind OVER (...) is passed as well. *)
Loose == {"QualifiedIdentifier", "FrameBound", "Over", "Select", "DataType", "CursorExpression",
          "NextValueFor", "FullText"}

BehindOver(node, t) ==
    \E i \in DOMAIN node.kids : LET v == node.kids[i] IN
        v # NIL /\ heap[v].kind = "Over" /\ t = heap[v].hi + 1

(* What has been parsed without an error is in the tree: outside the spans *)
(* of its operands a node that is none of the Loose kinds stands on no     *)
(* more than its own words, its operator and, for some kinds, the name     *)
(* that follows it.  Two tokens are dropped even so: an AT that no TIME    *)
(* follows (parseAtTimeZoneExpression returns its left operand with the    *)
(* cursor on AT) and the token behind an OVER clause in parentheses.       *)
NoTokenLost ==
    errors = <<>> => \A n \in DOMAIN heap : LET node == heap[n] IN
        node.kind \in Loose \/
        \A t \in (node.lo..node.hi) \ UNION {Span(node.kids[i]) : i \in DOMAIN node.kids} :
            \/ t = node.at
            \/ Tok(t) \in Layout(node.kind) \cup {"AT"}
            \/ node.paren /\ Tok(t) \in {"LPAREN", "RPAREN"}
            \/ node.kind \in {"Collate", "StaticMethodCall"} /\ t = node.at + 1
            \/ node.kind = "MethodCall" /\ t = node.at + 1
            \/ BehindOver(node, t)

(* The calls of parse functions of expressions in progress are bounded by  *)
(* the tokens read.  A call that another function's result is returned     *)
(* from counts with that one's, and while a SELECT is parsed, whose calls  *)
(* are not counted here, nothing is said.                                  *)
DepthBounded == ~ At("parseSelectStatement") => Len(stack) <= 2 * pos + 2

(* The parser returns, whatever the input.                                 *)
Terminates == <>Finished

(* The promise of ParseContract.                                           *)
Outcome == CASE ~ Finished                   -> "running"
             [] Finished /\ ret = Panicked   -> "panic"
             [] Finished /\ ret = NIL        -> "nil"
             [] Finished /\ ret \in DOMAIN heap ->
                   IF heap[ret].whole THEN "tree" ELSE "broken tree"
Contract == INSTANCE ParseContract
                WITH at <- pos, reported <- errors # <<>>, spoilt <- SelectBroke, outcome <- Outcome
ImplementsContract == Contract!Spec
=============================================================================
