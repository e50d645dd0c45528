-------------------------------- MODULE Select --------------------------------
(***************************************************************************)
(* SELECT and its clauses, FROM excepted.                                  *)
(***************************************************************************)
EXTENDS Tables

SetOperators == {"UNION", "INTERSECT", "EXCEPT"}

StartsClause == SetOperators \cup
    {"FROM", "WHERE", "GROUP", "HAVING", "ORDER", "COMMA", "EOF"}
StartsExpression ==
    {"INT", "FLOAT", "STRING", "NSTRING", "NULL", "BINARY", "MONEY_LIT",
     "IDENT", "VARIABLE", "TEMPVAR", "SYSVAR", "NOT", "MINUS", "PLUS", "TILDE", "LPAREN",
     "CASE", "EXISTS", "CAST", "TRY_CAST", "CONVERT", "TRY_CONVERT", "PARSE", "TRY_PARSE",
     "TRIM", "COALESCE", "NULLIF"}

(* ( expr ), a number, a variable or an operand, [PERCENT] [WITH TIES]     *)
parseTopClause ==
    \/ /\ At("parseTopClause")
       /\ CASE Peek = "LPAREN"   -> CallExpression(2, "parseTopClause.Close", <<>>, LOWEST)
            [] Peek = "INT"      -> Call(1, "parseTopClause.Count", <<>>, "parseIntegerLiteral")
            [] Peek = "VARIABLE" -> Call(1, "parseTopClause.Count", <<>>, "parseVariable")
            [] OTHER             -> CallExpression(1, "parseTopClause.Count", <<>>, CALL)
    \/ At("parseTopClause.Close") /\ Expect("RPAREN", 0, "parseTopClause.Percent", Got)
    \/ At("parseTopClause.Count") /\ Continue(0, "parseTopClause.Percent", Got)
    \/ /\ At("parseTopClause.Percent")
       /\ LET k == IF Peek = "PERCENT_KW" THEN 1 ELSE 0 IN
          IF Tok(pos + k + 1) = "WITH" THEN ReturnExpecting("TIES", "Top", Top.kids, k + 1)
                                       ELSE ReturnNew("Top", Top.at, Top.kids, k)

(* column {, column}: another operand in front of the next clause is       *)
(* reported as a missing comma.                                            *)
parseSelectColumns ==
    \/ At("parseSelectColumns") /\ Call(0, "parseSelectColumns.Column", <<>>, "parseSelectColumn")
    \/ /\ At("parseSelectColumns.Column")
       /\ CASE Peek = "COMMA" -> Call(2, "parseSelectColumns.Column", Got, "parseSelectColumn")
            [] Peek \in StartsExpression /\ Cur \notin StartsClause ->
                 ReturnFlawed("Columns", Top.at, Got, 0, 1)
            [] OTHER -> ReturnNew("Columns", Top.at, Got, 0)

(* *, @variable = expr, or expr [[AS] alias].  Behind an OVER clause the    *)
(* cursor is already on the AS.                                            *)
parseSelectColumn ==
    \/ /\ At("parseSelectColumn")
       /\ CASE Cur = "ASTERISK" -> ReturnNew("Column", pos, <<>>, 0)
            [] Cur = "VARIABLE" /\ Peek = "EQ" ->
                 CallExpression(2, "parseSelectColumn.Value", <<>>, LOWEST)
            [] OTHER -> CallExpression(0, "parseSelectColumn.Expression", <<>>, LOWEST)
    \/ At("parseSelectColumn.Value") /\ ReturnNew("Assignment", Top.at, Got, 0)
    \/ /\ At("parseSelectColumn.Expression")
       /\ CASE Peek = "AS"                -> ReturnNew("AliasedColumn", Top.at, Got, 2)
            [] Peek # "AS" /\ Cur = "AS" -> ReturnNew("AliasedColumn", Top.at, Got, 1)
            [] Peek = "IDENT" /\ Cur \notin StartsClause \cup {"AS"} ->
                 ReturnNew("AliasedColumn", Top.at, Got, 1)
            [] OTHER -> ReturnNew("Column", Top.at, Got, 0)
-----------------------------------------------------------------------------
(* What parses the GROUP BY item at i.                                     *)
parseGroupByItem(i) ==
    CASE Tok(i) = "GROUPING" /\ Tok(i + 1) = "SETS" -> "parseGroupingSets"
      [] Tok(i) = "CUBE"                            -> "parseCube"
      [] Tok(i) = "ROLLUP"                          -> "parseRollup"
      [] OTHER                                      -> "parseExpression"
CallItem(k, kids) ==
    CallFrame(k, "parseGroupByItems.Item", kids,
              Frame(parseGroupByItem(pos + k), LOWEST, pos + k, pos + k, <<>>))
parseGroupByItems ==
    \/ At("parseGroupByItems") /\ CallItem(0, <<>>)
    \/ /\ At("parseGroupByItems.Item")
       /\ IF Peek = "COMMA" THEN CallItem(2, Got) ELSE ReturnNew("GroupBy", Top.at, Got, 0)

(* The end of a list of the functions below: a missing closing parenthesis *)
(* is no error.                                                            *)
ReturnList(kind, kids) == ReturnNew(kind, Top.at, kids, IF Peek = "RPAREN" THEN 1 ELSE 0)

(* GROUPING SETS ( set {, set} ): without the parenthesis nil, and no error. *)
parseGroupingSets ==
    \/ /\ At("parseGroupingSets")
       /\ IF Tok(pos + 2) = "LPAREN" THEN Continue(3, "parseGroupingSets.Set", <<>>)
          ELSE ReturnNil(2)
    \/ /\ At("parseGroupingSets.Set")
       /\ IF Cur \in {"RPAREN", "EOF"} THEN ReturnList("GroupingSets", Top.kids)
                                       ELSE Call(0, "parseGroupingSets.Next", Top.kids, "parseGroupingSet")
    \/ /\ At("parseGroupingSets.Next")
       /\ IF Peek = "COMMA" THEN Continue(2, "parseGroupingSets.Set", Got)
                            ELSE ReturnList("GroupingSets", Got)

(* ( ), ( expr {, expr} ) or one expression                                *)
parseGroupingSet ==
    \/ /\ At("parseGroupingSet")
       /\ CASE Cur = "LPAREN" /\ Peek = "RPAREN" -> ReturnNew("Tuple", pos, <<>>, 1)
            [] Cur = "LPAREN" /\ Peek # "RPAREN" ->
                 CallExpression(1, "parseGroupingSet.Element", <<>>, LOWEST)
            [] OTHER -> CallExpression(0, "parseGroupingSet.Single", <<>>, LOWEST)
    \/ /\ At("parseGroupingSet.Element")
       /\ IF Peek = "COMMA" THEN CallExpression(2, "parseGroupingSet.Element", Got, LOWEST)
                            ELSE ReturnList("Tuple", Got)
    \/ At("parseGroupingSet.Single") /\ Return(ret)

(* CUBE ( expr {, expr} ) and ROLLUP ( expr {, expr} )                      *)
Grouping(fn, column, next, kind) ==
    \/ At(fn) /\ Require(0, <<"LPAREN">>, Continue(2, column, <<>>))
    \/ /\ At(column)
       /\ IF Cur \in {"RPAREN", "EOF"} THEN ReturnList(kind, Top.kids)
                                       ELSE CallExpression(0, next, Top.kids, LOWEST)
    \/ /\ At(next)
       /\ IF Peek = "COMMA" THEN Continue(2, column, Got) ELSE ReturnList(kind, Got)
parseCube   == Grouping("parseCube", "parseCube.Column", "parseCube.Next", "Cube")
parseRollup == Grouping("parseRollup", "parseRollup.Column", "parseRollup.Next", "Rollup")
-----------------------------------------------------------------------------
(* name AS ( [PARTITION BY list] [ORDER BY items] ... ) {, ...}: what is    *)
(* left in the parentheses is skipped, and String() does not write the     *)
(* definitions, so that the node has no operands.                          *)
parseWindowDefinitions ==
    \/ /\ At("parseWindowDefinitions")
       /\ CASE Tok(pos + 2) # "AS" -> ReturnFlawed("Windows", Top.at, <<>>, 1, 2)
            [] Tok(pos + 2) = "AS" /\ Tok(pos + 3) # "LPAREN" ->
                 ReturnFlawed("Windows", Top.at, <<>>, 2, 3)
            [] OTHER -> IF Tok(pos + 4) = "PARTITION" /\ Tok(pos + 5) = "BY"
                        THEN CallExpression(6, "parseWindowDefinitions.Partition", <<>>, LOWEST)
                        ELSE Continue(4, "parseWindowDefinitions.Order", <<>>)
    \/ /\ At("parseWindowDefinitions.Partition")
       /\ IF Peek = "COMMA" THEN CallExpression(2, "parseWindowDefinitions.Partition", <<>>, LOWEST)
                            ELSE Continue(1, "parseWindowDefinitions.Order", <<>>)
    \/ /\ At("parseWindowDefinitions.Order")
       /\ IF Cur = "ORDER" /\ Peek = "BY"
          THEN Call(2, "parseWindowDefinitions.Close", <<>>, "parseOrderByItems")
          ELSE Skip(0, "parseWindowDefinitions.Close", <<>>)
    \/ /\ At("parseWindowDefinitions.Close")
       /\ LET k == FirstIn(pos, {"RPAREN"}) - pos IN
          IF Tok(pos + k + 1) = "COMMA" THEN Continue(k + 1, "parseWindowDefinitions", <<>>)
                                        ELSE ReturnNew("Windows", Top.at, <<>>, k)
-----------------------------------------------------------------------------
(* FOR XML | JSON [mode [( name )]] {, option}, FOR BROWSE: an option is a  *)
(* word of any kind, ROOT takes a name in parentheses.                     *)
parseForClause ==
    \/ /\ At("parseForClause")
       /\ CASE Peek = "BROWSE" -> ReturnNew("For", Top.at, <<>>, 1)
            [] Peek \in {"XML", "JSON"} ->
                 LET mode == IF Tok(pos + 2) \in {"RAW", "AUTO", "PATH", "EXPLICIT"} THEN 2 ELSE 1 IN
                 IF mode = 1 \/ Tok(pos + mode + 1) # "LPAREN"
                 THEN Continue(mode, "parseForClause.Option", <<>>)
                 ELSE Require(mode, <<"LPAREN", "any", "RPAREN">>,
                              Continue(mode + 3, "parseForClause.Option", <<>>))
            [] OTHER -> Fail(1, 0)
    \/ /\ At("parseForClause.Option")
       /\ CASE Peek # "COMMA" -> ReturnNew("For", Top.at, <<>>, 0)
            [] Peek = "COMMA" /\ Tok(pos + 2) = "ROOT" /\ Tok(pos + 3) = "LPAREN" ->
                 Require(2, <<"LPAREN", "any", "RPAREN">>, Continue(5, "parseForClause.Option", <<>>))
            [] OTHER -> Continue(2, "parseForClause.Option", <<>>)

(* OPTION ( hint {, hint} ): USE HINT ( names ), USE PLAN value,            *)
(* OPTIMIZE FOR UNKNOWN or ( bindings ), or a word or two with a value.    *)
(* PLAN, OPTIMIZE, UNKNOWN, VIEWS are IDENTs to the lexer.                 *)
IsIdent(i) == Tok(i) = "IDENT"
UseHint ==
    LET Stops(j) == Tok(j) \in {"RPAREN", "EOF"} \/ Tok(j + 1) # "COMMA"
        last == First({j \in (pos + 3)..(pos + Len(input) + 4) : (j - pos) % 2 = 1 /\ Stops(j)})
    IN  IF Tok(pos + 2) = "LPAREN" THEN Expect("RPAREN", last - pos, "parseOptionClause.Next", Top.kids)
                                   ELSE Complain(2, 1, "parseOptionClause.Next", Top.kids)
UsePlan ==
    IF Tok(pos + 2) \in {"VARIABLE", "STRING", "NSTRING"}
    THEN CallExpression(2, "parseOptionClause.Valued", Top.kids, LOWEST)
    ELSE Continue(2, "parseOptionClause.Next", Top.kids)
OptimizeFor ==
    \/ IsIdent(pos + 2) /\ Continue(2, "parseOptionClause.Next", Top.kids)
    \/ IF Tok(pos + 2) = "LPAREN" THEN Continue(3, "parseOptionClause.Binding", Top.kids)
                                  ELSE Complain(2, 1, "parseOptionClause.Next", Top.kids)
Binding(k, kids) ==                    \* k tokens on there is another one, or the end
    IF Tok(pos + k + 1) = "COMMA" THEN Continue(k + 2, "parseOptionClause.Binding", kids)
                                  ELSE Expect("RPAREN", k, "parseOptionClause.Next", kids)
SecondWord == {"JOIN", "UNION", "ORDER", "GROUP"}
NamedHint ==
    \E k \in {0, 1} :
       /\ k = 1 => Peek \in SecondWord \cup {"IDENT"}
       /\ k = 0 => Peek \notin SecondWord
       /\ CASE Tok(pos + k + 1) = "INT" ->
                 CallExpression(k + 1, "parseOptionClause.Number", Top.kids, LOWEST)
            [] Tok(pos + k + 1) = "EQ" ->
                 CallExpression(k + 2, "parseOptionClause.Valued", Top.kids, LOWEST)
            [] OTHER -> Continue(k, "parseOptionClause.Next", Top.kids)
parseOptionClause ==
    \/ At("parseOptionClause") /\ Require(0, <<"LPAREN">>, Continue(2, "parseOptionClause.Hint", <<>>))
    \/ /\ At("parseOptionClause.Hint")
       /\ \/ Cur \in {"RPAREN", "EOF"} /\ Continue(0, "parseOptionClause.Close", Top.kids)
          \/ Cur = "USE" /\ Peek = "HINT" /\ UseHint
          \/ Cur = "USE" /\ IsIdent(pos + 1) /\ UsePlan
          \/ IsIdent(pos) /\ Peek = "FOR" /\ OptimizeFor
          \/ /\ Cur \notin {"RPAREN", "EOF"}
             /\ ~ (Cur = "USE" /\ Peek = "HINT")
             /\ NamedHint
    \/ /\ At("parseOptionClause.Number")
       /\ IF Peek = "EQ" THEN CallExpression(2, "parseOptionClause.Valued", Top.kids, LOWEST)
                         ELSE Continue(0, "parseOptionClause.Next", GotIfAny)
    \/ At("parseOptionClause.Valued") /\ Continue(0, "parseOptionClause.Next", GotIfAny)
    \/ /\ At("parseOptionClause.Next")
       /\ IF Peek = "COMMA" THEN Continue(2, "parseOptionClause.Hint", Top.kids)
                            ELSE Continue(0, "parseOptionClause.Close", Top.kids)
    \/ /\ At("parseOptionClause.Close")
       /\ CASE Cur = "RPAREN" -> ReturnNew("Options", Top.at, Top.kids, IF Peek = "RPAREN" THEN 1 ELSE 0)
            [] OTHER          -> ReturnExpecting("RPAREN", "Options", Top.kids, 0)
    \/ /\ At("parseOptionClause.Binding")       \* @variable = expr | @variable UNKNOWN
       /\ CASE Cur \in {"RPAREN", "EOF"} -> Expect("RPAREN", 0, "parseOptionClause.Next", Top.kids)
            [] Cur \notin {"RPAREN", "EOF"} /\ Peek = "EQ" ->
                 CallExpression(2, "parseOptionClause.Value", Top.kids, LOWEST)
            [] OTHER -> \/ IsIdent(pos + 1) /\ Binding(1, Top.kids)
                        \/ Binding(0, Append(Top.kids, NIL))
    \/ At("parseOptionClause.Value") /\ Binding(0, Got)

(* [ALL] SELECT ...: String() looks whether there is a right side.         *)
parseUnionClause ==
    \/ /\ At("parseUnionClause")
       /\ LET all == IF Peek = "ALL" THEN 1 ELSE 0 IN
          Require(all, <<"SELECT">>, Call(all + 1, "parseUnionClause.Right", <<>>, "parseSelectStatement"))
    \/ At("parseUnionClause.Right") /\ ReturnNew("Union", Top.at, GotIfAny, 0)
-----------------------------------------------------------------------------
(* if the next word is `word` { field = p.fn() }, the word k tokens long,   *)
(* and GROUP and ORDER, which give the statement up when BY is missing.    *)
Clause(here, words, k, fn, next) ==
    At(here) /\ CallIf(Peek \in words, k, next, GotIfAny, fn)
ByClause(here, word, fn, next) ==
    /\ At(here)
    /\ IF Peek = word THEN Require(1, <<"BY">>, Call(3, next, GotIfAny, fn))
                      ELSE Skip(0, next, GotIfAny)

(* INTO name [ON filegroup [( ... )]], and FROM, on which an OVER clause    *)
(* may have left the cursor.                                               *)
IntoEnd ==
    LET name  == ListEnd(pos + 2, "DOT")
        group == IF Tok(name + 1) = "ON" THEN name + 2 ELSE name
    IN  CASE Peek # "INTO"                              -> 0
          [] group > name /\ Tok(group + 1) = "LPAREN" -> FirstIn(group + 2, {"RPAREN"}) - pos
          [] OTHER                                      -> group - pos
SelectList ==
    \/ /\ At("parseSelectStatement")
       /\ LET k == IF Peek \in {"DISTINCT", "ALL"} THEN 2 ELSE 1 IN
          IF Tok(pos + k) = "TOP"
          THEN Call(k, "parseSelectStatement.Columns", <<>>, "parseTopClause")
          ELSE Call(k, "parseSelectStatement.From", <<>>, "parseSelectColumns")
    \/ /\ At("parseSelectStatement.Columns")
       /\ Call(1, "parseSelectStatement.From", Got, "parseSelectColumns")
    \/ /\ At("parseSelectStatement.From")
       /\ LET k == IntoEnd IN
          CASE Tok(pos + k) = "FROM" -> Call(k, "parseSelectStatement.Where", Got, "parseFromClause")
            [] Tok(pos + k) # "FROM" /\ Tok(pos + k + 1) = "FROM" ->
                 Call(k + 1, "parseSelectStatement.Where", Got, "parseFromClause")
            [] OTHER -> Skip(k, "parseSelectStatement.Where", Got)

(* OFFSET expr [ROW | ROWS] FETCH [FIRST | NEXT] expr [ROW | ROWS] [ONLY]   *)
RowsAt(k) == IF Tok(pos + k + 1) \in {"ROWS", "ROW"} THEN k + 1 ELSE k
Paging ==
    \/ /\ At("parseSelectStatement.Offset")
       /\ IF Peek = "OFFSET" THEN CallExpression(2, "parseSelectStatement.Rows", GotIfAny, LOWEST)
                             ELSE Continue(0, "parseSelectStatement.Fetch", GotIfAny)
    \/ At("parseSelectStatement.Rows") /\ Continue(RowsAt(0), "parseSelectStatement.Fetch", GotIfAny)
    \/ /\ At("parseSelectStatement.Fetch")
       /\ IF Peek = "FETCH_KW"
          THEN CallExpression(IF Tok(pos + 2) \in {"NEXT", "FIRST"} THEN 3 ELSE 2,
                              "parseSelectStatement.Only", Top.kids, LOWEST)
          ELSE Continue(0, "parseSelectStatement.For", Top.kids)
    \/ /\ At("parseSelectStatement.Only")
       /\ Continue(IF Tok(pos + RowsAt(0) + 1) = "ONLY" THEN RowsAt(0) + 1 ELSE RowsAt(0),
                   "parseSelectStatement.For", GotIfAny)

(* The clauses in their order; one that is not there is left out.          *)
parseSelectStatement ==
    \/ SelectList
    \/ Clause("parseSelectStatement.Where", {"WHERE"}, 2, "parseExpression", "parseSelectStatement.Group")
    \/ ByClause("parseSelectStatement.Group", "GROUP", "parseGroupByItems", "parseSelectStatement.Having")
    \/ Clause("parseSelectStatement.Having", {"HAVING"}, 2, "parseExpression", "parseSelectStatement.Window")
    \/ Clause("parseSelectStatement.Window", {"WINDOW"}, 1, "parseWindowDefinitions", "parseSelectStatement.Order")
    \/ ByClause("parseSelectStatement.Order", "ORDER", "parseOrderByItems", "parseSelectStatement.Offset")
    \/ Paging
    \/ /\ At("parseSelectStatement.For")        \* FOR UPDATE is left to the cursor
       /\ IF Peek = "FOR" /\ Tok(pos + 2) \in {"XML", "JSON", "BROWSE"}
          THEN Call(1, "parseSelectStatement.Option", Top.kids, "parseForClause")
          ELSE Skip(0, "parseSelectStatement.Option", Top.kids)
    \/ Clause("parseSelectStatement.Option", {"OPTION"}, 1, "parseOptionClause", "parseSelectStatement.Union")
    \/ Clause("parseSelectStatement.Union", SetOperators, 1, "parseUnionClause", "parseSelectStatement.End")
    \/ At("parseSelectStatement.End") /\ ReturnNew("Select", Top.at, GotIfAny, 0)

SelectStep ==
    \/ parseTopClause \/ parseSelectColumns \/ parseSelectColumn \/ parseGroupByItems
    \/ parseGroupingSets \/ parseGroupingSet \/ parseCube \/ parseRollup
    \/ parseWindowDefinitions \/ parseForClause \/ parseOptionClause
    \/ parseUnionClause \/ parseSelectStatement
=============================================================================
