--------------------------------- MODULE Dml ---------------------------------
(***************************************************************************)
(* INSERT, UPDATE, DELETE, MERGE with OUTPUT, and WITH.                     *)
(***************************************************************************)
EXTENDS Select

(* [( name {, name} )] from k tokens on, then on at `pc`.                  *)
parseIdentifierList(k, pc, kids) ==
    IF Tok(pos + k + 1) = "LPAREN"
    THEN Expect("RPAREN", ListEnd(pos + k + 2, "COMMA") - pos, pc, kids)
    ELSE Continue(k, pc, kids)

(* The clauses several statements have: WITH ( hints ), and WHERE, where   *)
(* CURRENT OF names a cursor.                                              *)
HintsClause(here, next) ==
    /\ At(here)
    /\ CASE Peek # "WITH" -> Skip(0, next, GotIfAny)
         [] Peek = "WITH" /\ Tok(pos + 2) = "LPAREN" -> Call(2, next, GotIfAny, "parseTableHints")
         [] OTHER -> SkipComplaining(2, 1, next, GotIfAny)
WhereClause(here, next) ==
    /\ At(here)
    /\ IF Peek = "WHERE" /\ Tok(pos + 2) = "CURRENT" /\ Tok(pos + 3) = "OF"
       THEN Skip(4, next, GotIfAny)
       ELSE CallIf(Peek = "WHERE", 2, next, GotIfAny, "parseExpression")

(* OUTPUT expr [[AS] alias] {, ...} [INTO @variable | name [( names )]]     *)
parseOutputColumn ==
    \/ At("parseOutputColumn") /\ CallExpression(0, "parseOutputColumn.Expression", <<>>, LOWEST)
    \/ /\ At("parseOutputColumn.Expression")
       /\ LET k == AliasOf({"IDENT"}) IN
          ReturnNew(IF k = 0 THEN "Column" ELSE "AliasedColumn", Top.at, Got, k)
parseOutputColumns(k, kids) == Call(k, "parseOutputClause.Column", kids, "parseOutputColumn")
parseOutputClause ==
    \/ At("parseOutputClause") /\ parseOutputColumns(1, <<>>)
    \/ /\ At("parseOutputClause.Column")
       /\ LET into == IF Tok(pos + 2) = "VARIABLE" THEN pos + 2 ELSE ListEnd(pos + 2, "DOT") IN
          CASE Peek = "COMMA" -> parseOutputColumns(2, Got)
            [] Peek = "INTO" /\ Tok(into + 1) = "LPAREN" ->
                 ReturnExpecting("RPAREN", "Output", Got, ListEnd(into + 2, "COMMA") - pos)
            [] Peek = "INTO" /\ Tok(into + 1) # "LPAREN" ->
                 ReturnNew("Output", Top.at, Got, into - pos)
            [] OTHER -> ReturnNew("Output", Top.at, Got, 0)
-----------------------------------------------------------------------------
parseValuesList ==
    \/ /\ At("parseValuesList")
       /\ Require(0, <<"LPAREN">>, Call(1, "parseValuesList.Row", <<>>, "parseExpressionList"))
    \/ /\ At("parseValuesList.Row")
       /\ IF Peek = "COMMA"
          THEN Require(1, <<"LPAREN">>,
                       Call(2, "parseValuesList.Row", GotIfAny, "parseExpressionList"))
          ELSE ReturnNew("Values", Top.at, GotIfAny, 0)

(* INSERT [TOP expr [PERCENT]] [INTO] name [hints] [( names )] [OUTPUT]     *)
(* and VALUES, SELECT, DEFAULT VALUES or nothing: EXEC is not read.        *)
parseInsertStatement ==
    \/ /\ At("parseInsertStatement")
       /\ CASE Peek # "TOP" -> Continue(0, "parseInsertStatement.Name", <<>>)
            [] Peek = "TOP" /\ Tok(pos + 2) = "LPAREN" ->
                 CallExpression(3, "parseInsertStatement.Close", <<>>, LOWEST)
            [] OTHER -> CallExpression(2, "parseInsertStatement.Top", <<>>, LOWEST)
    \/ At("parseInsertStatement.Close") /\ Expect("RPAREN", 0, "parseInsertStatement.Percent", GotIfAny)
    \/ At("parseInsertStatement.Top") /\ Continue(0, "parseInsertStatement.Percent", GotIfAny)
    \/ /\ At("parseInsertStatement.Percent")
       /\ Continue(IF Peek = "PERCENT_KW" THEN 1 ELSE 0, "parseInsertStatement.Name", Top.kids)
    \/ /\ At("parseInsertStatement.Name")
       /\ LET name == pos + (IF Peek = "INTO" THEN 2 ELSE 1) IN
          Skip(ListEnd(name, "DOT") - pos, "parseInsertStatement.Hints", Top.kids)
    \/ HintsClause("parseInsertStatement.Hints", "parseInsertStatement.Columns")
    \/ At("parseInsertStatement.Columns") /\ parseIdentifierList(0, "parseInsertStatement.Output", GotIfAny)
    \/ /\ At("parseInsertStatement.Output")
       /\ CallIf(Peek = "OUTPUT", 1, "parseInsertStatement.Source", Top.kids, "parseOutputClause")
    \/ /\ At("parseInsertStatement.Source")
       /\ CASE Peek = "VALUES" -> Call(1, "parseInsertStatement.End", GotIfAny, "parseValuesList")
            [] Peek = "SELECT" -> Call(1, "parseInsertStatement.End", GotIfAny, "parseSelectStatement")
            [] Peek = "DEFAULT_KW" ->
                 Skip(IF Tok(pos + 2) = "VALUES" THEN 2 ELSE 1, "parseInsertStatement.End", GotIfAny)
            [] OTHER -> Skip(0, "parseInsertStatement.End", GotIfAny)
    \/ At("parseInsertStatement.End") /\ ReturnNew("Insert", Top.at, GotIfAny, 0)
-----------------------------------------------------------------------------
(* name = expr, or name.method( arguments ).  A method call has no value,  *)
(* which String() writes all the same; without arguments its parenthesis   *)
(* is asked for twice.                                                     *)
AssignmentOperators == {"EQ", "PLUSEQ", "MINUSEQ", "MULEQ", "DIVEQ", "MODEQ", "ANDEQ", "OREQ", "XOREQ"}
parseSetClause ==
    \/ /\ At("parseSetClause")
       /\ LET col == ListEnd(pos, "DOT") - pos IN
          CASE Tok(pos + col + 1) \in AssignmentOperators ->
                 CallExpression(col + 2, "parseSetClause.Value", <<>>, LOWEST)
            [] Tok(pos + col + 1) = "LPAREN" /\ Tok(pos + col + 2) = "RPAREN" ->
                 Require(col + 2, <<"RPAREN">>, ReturnNew("SetMethod", Top.at, <<NIL>>, col + 3))
            [] Tok(pos + col + 1) = "LPAREN" /\ Tok(pos + col + 2) # "RPAREN" ->
                 CallExpression(col + 2, "parseSetClause.Argument", <<>>, LOWEST)
            [] OTHER -> Fail(col + 1, col)
    \/ /\ At("parseSetClause.Argument")
       /\ IF Peek = "COMMA" THEN CallExpression(2, "parseSetClause.Argument", Got, LOWEST)
          ELSE Require(0, <<"RPAREN">>, ReturnNew("SetMethod", Top.at, Append(Got, NIL), 1))
    \/ At("parseSetClause.Value") /\ ReturnNew("SetClause", Top.at, Got, 0)
parseSetClauses ==
    \/ At("parseSetClauses") /\ Call(1, "parseSetClauses.Clause", <<>>, "parseSetClause")
    \/ /\ At("parseSetClauses.Clause")
       /\ CASE ret = NIL -> Return(NIL)
            [] ret # NIL /\ Peek = "COMMA" -> Call(2, "parseSetClauses.Clause", Got, "parseSetClause")
            [] OTHER     -> ReturnNew("SetClauses", Top.at, Got, 0)

(* UPDATE [TOP] name | function( ... ) [hints] [AS alias] SET clauses       *)
(* [OUTPUT] [FROM] [WHERE]                                                 *)
parseUpdateStatement ==
    \/ At("parseUpdateStatement") /\ CallIf(Peek = "TOP", 1, "parseUpdateStatement.Target", <<>>, "parseTopClause")
    \/ /\ At("parseUpdateStatement.Target")
       /\ IF Peek = "IDENT" /\ Tok(pos + 2) = "LPAREN"
          THEN Call(2, "parseUpdateStatement.Hints", GotIfAny, "parseExpressionList")
          ELSE Skip(ListEnd(pos + 1, "DOT") - pos, "parseUpdateStatement.Hints", GotIfAny)
    \/ HintsClause("parseUpdateStatement.Hints", "parseUpdateStatement.Set")
    \/ /\ At("parseUpdateStatement.Set")
       /\ LET alias == AliasOf({}) IN
          Require(alias, <<"SET">>,
                  Call(alias + 1, "parseUpdateStatement.Output", GotIfAny, "parseSetClauses"))
    \/ Clause("parseUpdateStatement.Output", {"OUTPUT"}, 1, "parseOutputClause", "parseUpdateStatement.From")
    \/ Clause("parseUpdateStatement.From", {"FROM"}, 1, "parseFromClause", "parseUpdateStatement.Where")
    \/ WhereClause("parseUpdateStatement.Where", "parseUpdateStatement.End")
    \/ At("parseUpdateStatement.End") /\ ReturnNew("Update", Top.at, GotIfAny, 0)

(* DELETE [TOP] [FROM] name | function( ... ) [OUTPUT] [FROM] [hints]       *)
(* [OUTPUT] [WHERE]: with OUTPUT or a second FROM the name is taken for an *)
(* alias, and only its first part is kept.                                 *)
parseDeleteStatement ==
    \/ At("parseDeleteStatement") /\ CallIf(Peek = "TOP", 1, "parseDeleteStatement.Target", <<>>, "parseTopClause")
    \/ /\ At("parseDeleteStatement.Target")
       /\ LET k == IF Peek = "FROM" THEN 2 ELSE 1 IN
          IF Tok(pos + k) = "IDENT" /\ Tok(pos + k + 1) = "LPAREN"
          THEN Call(k + 1, "parseDeleteStatement.Hints", GotIfAny, "parseExpressionList")
          ELSE Skip(ListEnd(pos + k, "DOT") - pos, "parseDeleteStatement.Alias", GotIfAny)
    \/ Clause("parseDeleteStatement.Alias", {"OUTPUT"}, 1, "parseOutputClause", "parseDeleteStatement.From")
    \/ Clause("parseDeleteStatement.From", {"FROM"}, 1, "parseFromClause", "parseDeleteStatement.Hints")
    \/ HintsClause("parseDeleteStatement.Hints", "parseDeleteStatement.Output")
    \/ /\ At("parseDeleteStatement.Output")
       /\ CallIf(Peek = "OUTPUT" /\ ~ \E i \in DOMAIN Top.kids : NodeIs(Top.kids[i], {"Output"}),
                 1, "parseDeleteStatement.Where", GotIfAny, "parseOutputClause")
    \/ WhereClause("parseDeleteStatement.Where", "parseDeleteStatement.End")
    \/ At("parseDeleteStatement.End") /\ ReturnNew("Delete", Top.at, GotIfAny, 0)
-----------------------------------------------------------------------------
(* WHEN [NOT] MATCHED [BY ...] [AND expr] THEN UPDATE SET ... | DELETE |    *)
(* INSERT [( names )] VALUES ( ... ): without MATCHED nil, and no error.   *)
parseMergeWhenClause ==
    \/ /\ At("parseMergeWhenClause")
       /\ CASE Peek = "MATCHED" -> Continue(1, "parseMergeWhenClause.And", <<>>)
            [] Peek = "NOT" -> Require(1, <<"MATCHED">>,
                  Continue(IF Tok(pos + 3) = "BY" THEN 4 ELSE 2, "parseMergeWhenClause.And", <<>>))
            [] OTHER -> Return(NIL)
    \/ /\ At("parseMergeWhenClause.And")
       /\ CallIf(Peek = "AND", 2, "parseMergeWhenClause.Then", <<>>, "parseExpression")
    \/ /\ At("parseMergeWhenClause.Then")
       /\ Require(0, <<"THEN">>, Continue(2, "parseMergeWhenClause.Action", GotIfAny))
    \/ /\ At("parseMergeWhenClause.Action")
       /\ CASE Cur = "UPDATE" ->
                 Require(0, <<"SET">>, Call(1, "parseMergeWhenClause.End", Top.kids, "parseSetClauses"))
            [] Cur = "INSERT" -> parseIdentifierList(0, "parseMergeWhenClause.Values", Top.kids)
            [] OTHER -> ReturnNew("When", Top.at, Top.kids, 0)
    \/ /\ At("parseMergeWhenClause.Values")
       /\ Require(0, <<"VALUES", "LPAREN">>,
                  Call(2, "parseMergeWhenClause.End", Top.kids, "parseExpressionList"))
    \/ At("parseMergeWhenClause.End") /\ ReturnNew("When", Top.at, GotIfAny, 0)

(* What stands between MERGE and the name of the target: TOP ( ... ) is     *)
(* skipped.  A source in parentheses that is neither SELECT nor VALUES is  *)
(* skipped up to the parenthesis that balances it, the first token inside  *)
(* not counted, and leaves the source nil.                                 *)
MergeInto ==
    LET top == CASE Peek # "TOP"                               -> 0
                 [] Peek = "TOP" /\ Tok(pos + 2) = "LPAREN" -> FirstIn(pos + 3, {"RPAREN"}) - pos
                 [] OTHER                                      -> 1
    IN  IF Tok(pos + top + 1) = "INTO" THEN top + 2 ELSE top + 1
Within(i, j) ==                        \* the parentheses open at j, of those from i on
    LET Count(t) == Len(SelectSeq(SubSeq(input, i, j), LAMBDA x : x = t))
    IN  1 + Count("LPAREN") - Count("RPAREN")
(* The parenthesis that closes the one at i, and the end of what           *)
(* [WITH [( ... )]] behind i skips.                                        *)
Closing(i) == First({j \in (i + 1)..(i + Len(input) + 1) : Tok(j) = "EOF" \/ Within(i + 1, j) = 0})
WithOptions(i) == CASE Tok(i + 1) # "WITH"                            -> i
                    [] Tok(i + 1) = "WITH" /\ Tok(i + 2) # "LPAREN" -> i + 1
                    [] OTHER                                          -> Closing(i + 2)
SourceEnd == First({j \in (pos + 1)..(pos + Len(input) + 1) :
                       Tok(j) = "EOF" \/ Within(pos + 2, j) = 0})
MergeSource ==
    \/ /\ At("parseMergeStatement.Source")
       /\ CASE Cur = "LPAREN" /\ Peek = "SELECT" ->
                 Call(1, "parseMergeStatement.Derived", <<>>, "parseSelectStatement")
            [] Cur = "LPAREN" /\ Peek = "VALUES" ->
                 Call(1, "parseMergeStatement.Rows", <<>>, "parseValuesRows")
            [] Cur = "LPAREN" /\ Peek \notin {"SELECT", "VALUES"} ->
                 Continue(SourceEnd - pos, "parseMergeStatement.Alias", <<NIL>>)
            [] OTHER -> Continue(ListEnd(pos, "DOT") - pos, "parseMergeStatement.Alias", <<>>)
    \/ /\ At("parseMergeStatement.Derived")
       /\ Require(0, <<"RPAREN">>, Continue(1, "parseMergeStatement.Alias", Got))
    \/ /\ At("parseMergeStatement.Rows")
       /\ Require(0, <<"RPAREN">>, Continue(1, "parseMergeStatement.Alias", GotIfAny))

(* MERGE [TOP ( n )] [INTO] name [hints] [[AS] alias] USING source [[AS]    *)
(* alias] [( names )] ON expr {WHEN ...} [OUTPUT]: the hints, the number   *)
(* and the names are not kept.                                             *)
parseMergeStatement ==
    \/ /\ At("parseMergeStatement")
       /\ LET name == ListEnd(pos + MergeInto, "DOT") - pos IN
          CASE Tok(pos + name + 1) # "WITH" -> Continue(name, "parseMergeStatement.Using", <<>>)
            [] Tok(pos + name + 1) = "WITH" /\ Tok(pos + name + 2) = "LPAREN" ->
                 Call(name + 2, "parseMergeStatement.Using", <<>>, "parseTableHints")
            [] OTHER -> Continue(name + 1, "parseMergeStatement.Using", <<>>)
    \/ /\ At("parseMergeStatement.Using")
       /\ LET alias == AliasOf({"IDENT"}) IN
          Require(alias, <<"USING">>, Continue(alias + 2, "parseMergeStatement.Source", <<>>))
    \/ MergeSource
    \/ /\ At("parseMergeStatement.Alias")
       /\ parseIdentifierList(AliasOf({"IDENT"}), "parseMergeStatement.On", Top.kids)
    \/ /\ At("parseMergeStatement.On")
       /\ Require(0, <<"ON">>, CallExpression(2, "parseMergeStatement.Condition", Top.kids, LOWEST))
    \/ At("parseMergeStatement.Condition") /\ Continue(0, "parseMergeStatement.When", Got)
    \/ /\ At("parseMergeStatement.When")
       /\ IF Peek = "WHEN" THEN Call(1, "parseMergeStatement.Clause", Top.kids, "parseMergeWhenClause")
          ELSE CallIf(Peek = "OUTPUT", 1, "parseMergeStatement.End", Top.kids, "parseOutputClause")
    \/ At("parseMergeStatement.Clause") /\ Continue(0, "parseMergeStatement.When", GotIfAny)
    \/ At("parseMergeStatement.End") /\ ReturnNew("Merge", Top.at, GotIfAny, 0)
-----------------------------------------------------------------------------
(* WITH name [( names )] AS ( SELECT ... ) {, ...} statement                *)
parseCTEDef ==
    \/ At("parseCTEDef") /\ parseIdentifierList(0, "parseCTEDef.As", <<>>)
    \/ /\ At("parseCTEDef.As")
       /\ Require(0, <<"AS", "LPAREN">>, Call(3, "parseCTEDef.Close", <<>>, "parseSelectStatement"))
    \/ At("parseCTEDef.Close") /\ ReturnExpecting("RPAREN", "CTE", Got, 0)
parseWithStatement ==
    \/ At("parseWithStatement") /\ Call(1, "parseWithStatement.Cte", <<>>, "parseCTEDef")
    \/ /\ At("parseWithStatement.Cte")
       /\ IF Peek = "COMMA" THEN Call(2, "parseWithStatement.Cte", Got, "parseCTEDef")
                            ELSE Call(1, "parseWithStatement.Query", Got, "parseStatement")
    \/ At("parseWithStatement.Query") /\ ReturnNew("With", Top.at, Got, 0)

(* WITH XMLNAMESPACES ( {DEFAULT uri | uri AS prefix} ) statement: a token  *)
(* that does not fit is a declaration of its own, and commas may be missing. *)
parseWithXmlnamespacesStatement ==
    \/ /\ At("parseWithXmlnamespacesStatement")
       /\ Require(0, <<"LPAREN">>, Continue(2, "parseWithXmlnamespacesStatement.Namespace", <<>>))
    \/ /\ At("parseWithXmlnamespacesStatement.Namespace")
       /\ LET size == CASE Cur = "DEFAULT_KW"                             -> 2
                        [] Cur \in {"STRING", "NSTRING"} /\ Peek = "AS" -> 3
                        [] OTHER                                          -> 1
              comma == IF Tok(pos + size) = "COMMA" THEN 1 ELSE 0
          IN  CASE Cur = "RPAREN" -> Call(1, "parseWithXmlnamespacesStatement.Query", <<>>, "parseStatement")
                [] Cur = "EOF"    -> Call(0, "parseWithXmlnamespacesStatement.Query", <<>>, "parseStatement")
                [] OTHER -> Continue(size + comma, "parseWithXmlnamespacesStatement.Namespace", <<>>)
    \/ At("parseWithXmlnamespacesStatement.Query") /\ ReturnNew("WithXml", Top.at, GotIfAny, 0)

DmlStep ==
    \/ parseOutputColumn \/ parseOutputClause \/ parseValuesList \/ parseInsertStatement
    \/ parseSetClause \/ parseSetClauses \/ parseUpdateStatement \/ parseDeleteStatement
    \/ parseMergeWhenClause \/ parseMergeStatement
    \/ parseCTEDef \/ parseWithStatement \/ parseWithXmlnamespacesStatement
=============================================================================
