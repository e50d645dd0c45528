-------------------------------- MODULE Tables --------------------------------
(***************************************************************************)
(* FROM and what stands in it: tables with their hints, samples and        *)
(* temporal clauses, functions, derived tables, joins, PIVOT.              *)
(***************************************************************************)
EXTENDS Expressions

JoinKeywords == {"JOIN", "INNER", "LEFT", "RIGHT", "FULL", "CROSS", "OUTER", "APPLY"}
JoinHints    == {"HASH", "MERGE", "LOOP", "REMOTE"}
LegacyHints  == {"NOLOCK", "HOLDLOCK", "UPDLOCK", "ROWLOCK", "TABLOCK", "TABLOCKX",
                 "READUNCOMMITTED", "NOWAIT", "INDEX"}

(* The keywords that canPeekBeAlias takes for an alias.                    *)
AliasWords == {"IDENT", "TARGET", "SOURCE", "VALUE", "KEY", "LEVEL", "PATH", "ROLE", "USER",
               "LOGIN", "PASSWORD", "DATE", "TIME", "ZONE", "FIRST", "LAST", "NEXT", "PRIOR",
               "ABSOLUTE", "RELATIVE", "OUTPUT", "ROWS", "RANGE", "HASH", "MERGE", "LOOP",
               "REMOTE", "MEMBER", "TYPE_WARNING", "ACTION", "RESULT"}

AsAlone(words) ==                      \* mutant: AS is read without its name
    IF Peek \in words \cup {"AS"} THEN 1 ELSE 0

(* The tokens of the alias behind the current token: AS and any token, or  *)
(* one of `words` alone.                                                   *)
AliasOf(words) == CASE Peek = "AS"   -> 2
                    [] Peek \in words -> 1
                    [] OTHER         -> 0

(* ( hint {, hint} ), the cursor on the first parenthesis.  A hint is one   *)
(* token, INDEX (names), INDEX = name, or FORCESEEK (index [(columns)]):   *)
(* FORCESEEK is an IDENT to the lexer.                                     *)
parseTableHints ==
    \/ At("parseTableHints") /\ Continue(1, "parseTableHints.Hint", <<>>)
    \/ /\ At("parseTableHints.Hint")
       /\ CASE Cur = "INDEX" /\ Peek = "LPAREN" ->
                 Expect("RPAREN", ListEnd(pos + 2, "COMMA") - pos, "parseTableHints.Next", <<>>)
            [] Cur = "INDEX" /\ Peek = "EQ" -> Continue(2, "parseTableHints.Next", <<>>)
            [] Cur = "IDENT" /\ Peek = "LPAREN" ->
                 \/ Continue(0, "parseTableHints.Next", <<>>)
                 \/ IF Tok(pos + 3) = "LPAREN"
                    THEN Expect("RPAREN", ListEnd(pos + 4, "COMMA") - pos,
                                "parseTableHints.Outer", <<>>)
                    ELSE Expect("RPAREN", 2, "parseTableHints.Next", <<>>)
            [] OTHER -> Continue(0, "parseTableHints.Next", <<>>)
    \/ At("parseTableHints.Outer") /\ Expect("RPAREN", 0, "parseTableHints.Next", <<>>)
    \/ /\ At("parseTableHints.Next")
       /\ IF Peek = "COMMA" THEN Continue(2, "parseTableHints.Hint", <<>>)
                            ELSE ReturnExpecting("RPAREN", "Hints", <<>>, 0)

(* [SYSTEM] ( value [PERCENT | ROWS] ) [REPEATABLE ( seed )]; SYSTEM and   *)
(* REPEATABLE are IDENTs to the lexer.                                     *)
parseTableSample ==
    \/ /\ At("parseTableSample")
       /\ \E system \in BOOLEAN : LET k == IF system /\ Peek = "IDENT" THEN 1 ELSE 0 IN
             Require(k, <<"LPAREN">>, CallExpression(k + 2, "parseTableSample.Value", <<>>, LOWEST))
    \/ /\ At("parseTableSample.Value")
       /\ LET k == IF Peek \in {"PERCENT_KW", "ROWS"} THEN 1 ELSE 0 IN
          CASE Tok(pos + k + 1) # "RPAREN" -> Fail(k + 1, k)
            [] Tok(pos + k + 1) = "RPAREN" /\ Tok(pos + k + 2) # "IDENT" ->
                 ReturnNew("Sample", Top.at, Got, k + 1)
            [] OTHER ->
                 \/ ReturnNew("Sample", Top.at, Got, k + 1)
                 \/ IF Tok(pos + k + 3) = "LPAREN"
                    THEN CallExpression(k + 4, "parseTableSample.Seed", Got, LOWEST)
                    ELSE ReturnFlawed("Sample", Top.at, Got, k + 2, k + 3)
    \/ /\ At("parseTableSample.Seed")
       /\ ReturnExpecting("RPAREN", "Sample", GotIfAny, 0)

(* AS OF time, BETWEEN a AND b, FROM a TO b, CONTAINED IN (a, b), ALL: the *)
(* second time may be missing without an error.                            *)
parseTemporalClause ==
    \/ /\ At("parseTemporalClause")
       /\ LET in == IF Tok(pos + 2) = "IN" THEN 2 ELSE 1 IN
          CASE Peek = "AS" /\ Tok(pos + 2) = "OF" ->
                 CallExpression(3, "parseTemporalClause.Last", <<>>, LOWEST)
            [] Peek = "BETWEEN" -> CallExpression(2, "parseTemporalClause.Between", <<>>, AND_PREC)
            [] Peek = "FROM"    -> CallExpression(2, "parseTemporalClause.From", <<>>, LOWEST)
            [] Peek = "CONTAINED" /\ Tok(pos + in + 1) = "LPAREN" ->
                 CallExpression(in + 2, "parseTemporalClause.Contained", <<>>, LOWEST)
            [] Peek = "CONTAINED" /\ Tok(pos + in + 1) # "LPAREN" ->
                 ReturnFlawed("Temporal", Top.at, <<NIL, NIL>>, in, in + 1)
            [] Peek = "ALL" \/ (Peek = "AS" /\ Tok(pos + 2) # "OF") ->
                 ReturnNew("Temporal", Top.at, <<>>, 1)
            [] OTHER -> ReturnNew("Temporal", Top.at, <<>>, 0)
    \/ /\ At("parseTemporalClause.Between")
       /\ IF Peek = "AND" THEN CallExpression(2, "parseTemporalClause.Last", Got, AND_PREC)
                          ELSE ReturnNew("Temporal", Top.at, Append(Got, NIL), 0)
    \/ /\ At("parseTemporalClause.From")
       /\ IF Peek = "TO" THEN CallExpression(2, "parseTemporalClause.Last", Got, LOWEST)
                         ELSE ReturnNew("Temporal", Top.at, Append(Got, NIL), 0)
    \/ /\ At("parseTemporalClause.Contained")
       /\ IF Peek = "COMMA" THEN CallExpression(2, "parseTemporalClause.Close", Got, LOWEST)
                            ELSE ReturnExpecting("RPAREN", "Temporal", Append(Got, NIL), 0)
    \/ At("parseTemporalClause.Last") /\ ReturnNew("Temporal", Top.at, Got, 0)
    \/ At("parseTemporalClause.Close") /\ ReturnExpecting("RPAREN", "Temporal", Got, 0)

(* VALUES ( expr {, expr} ) {, ( ... )}                                    *)
parseValuesRows ==
    \/ /\ At("parseValuesRows")
       /\ Require(0, <<"LPAREN">>, CallExpression(2, "parseValuesRows.Value", Top.kids, LOWEST))
    \/ /\ At("parseValuesRows.Value")
       /\ CASE Peek = "COMMA" -> CallExpression(2, "parseValuesRows.Value", Got, LOWEST)
            [] Peek = "RPAREN" /\ Tok(pos + 2) = "COMMA" -> Continue(2, "parseValuesRows", Got)
            [] Peek = "RPAREN" /\ Tok(pos + 2) # "COMMA" -> ReturnNew("Rows", Top.at, Got, 1)
            [] OTHER -> Fail(1, 0)

(* WITH ( name type ['path'] [AS JSON] {, ...} ), the cursor on the        *)
(* parenthesis.                                                            *)
parseOpenJsonColumns ==
    \/ At("parseOpenJsonColumns") /\ Continue(1, "parseOpenJsonColumns.Column", <<>>)
    \/ /\ At("parseOpenJsonColumns.Column")
       /\ IF Cur \in {"RPAREN", "EOF"}
          THEN ReturnExpecting("RPAREN", "JsonColumns", Top.kids, 0)
          ELSE Call(1, "parseOpenJsonColumns.Type", Top.kids, "parseDataType")
    \/ /\ At("parseOpenJsonColumns.Type")
       /\ LET path == IF Peek \in {"STRING", "NSTRING"} THEN 1 ELSE 0
              as   == IF Tok(pos + path + 1) = "AS" THEN path + 1 ELSE path
              k    == IF as > path /\ Tok(pos + as + 1) = "JSON" THEN as + 1 ELSE as
          IN  IF Tok(pos + k + 1) = "COMMA"
              THEN Continue(k + 2, "parseOpenJsonColumns.Column", Got)
              ELSE ReturnExpecting("RPAREN", "JsonColumns", Got, k)
-----------------------------------------------------------------------------
(* The end of parseTableReference: a PIVOT or UNPIVOT takes the table over. *)
ReturnTable(kind, kids, k) ==
    IF Tok(pos + k + 1) \in {"PIVOT", "UNPIVOT"}
    THEN LET fn == IF Tok(pos + k + 1) = "PIVOT" THEN "parsePivotTable" ELSE "parseUnpivotTable" IN
         /\ heap' = Append(heap, Node(kind, Top.at, kids, pos + k))
         /\ stack' = [stack EXCEPT ![Len(stack)] =
                Frame(fn, Top.prec, pos + k + 1, Top.lo, <<Len(heap) + 1>>)]
         /\ pos' = pos + k + 1
         /\ UNCHANGED <<input, ret, errors>>
    ELSE ReturnNew(kind, Top.at, kids, k)

(* [AS] alias behind the two closing parentheses, m tokens ahead.          *)
PivotEnd(kind, kids, m) ==
    LET alias == CASE Tok(pos + m + 1) = "AS"    -> 2
                   [] Tok(pos + m + 1) = "IDENT" -> 1
                   [] OTHER                      -> 0
    IN  ReturnNew(kind, Top.at, kids, m + alias)

(* IN ( value {, value} ) ), from the IN at k on: the rest of both forms.  *)
PivotValues(kind, kids, k) ==
    LET last == ListEnd(pos + k + 2, "COMMA") - pos IN
    Require(last, <<"RPAREN", "RPAREN">>, PivotEnd(kind, kids, last + 2))

(* PIVOT ( aggregate ( expr ) FOR name IN ( values ) ).  A value in        *)
(* brackets is one IDENT to the lexer.                                     *)
parsePivotTable ==
    \/ /\ At("parsePivotTable")
       /\ Require(0, <<"LPAREN", "any", "LPAREN">>,
                  CallExpression(4, "parsePivotTable.Column", Top.kids, LOWEST))
    \/ /\ At("parsePivotTable.Column")
       /\ Require(0, <<"RPAREN", "FOR", "any", "IN", "LPAREN">>,
                  PivotValues("Pivot", Got, 4))

(* UNPIVOT ( name FOR name IN ( names ) )                                  *)
parseUnpivotTable ==
    /\ At("parseUnpivotTable")
    /\ Require(0, <<"LPAREN", "any", "FOR", "any", "IN", "LPAREN">>,
               PivotValues("Unpivot", Top.kids, 5))
-----------------------------------------------------------------------------
(* [OUTER] [hint] JOIN table [ON condition]: the token where JOIN should   *)
(* stand is taken as it comes.  The left side is the first operand.        *)
JoinAt == LET outer == IF Cur \in {"LEFT", "RIGHT", "FULL"} /\ Peek = "OUTER" THEN 2 ELSE 1
          IN  CASE Cur \in {"INNER", "LEFT", "RIGHT", "FULL"} ->
                     IF Tok(pos + outer) \in JoinHints THEN outer + 1 ELSE outer
                [] Cur \in {"CROSS", "OUTER"} -> 1
                [] OTHER                      -> 0
parseJoinClause ==
    \/ /\ At("parseJoinClause")
       /\ IF Cur \in {"CROSS", "OUTER"} /\ Peek = "APPLY"
          THEN Call(2, "parseJoinClause.Apply", Top.kids, "parseTableReference")
          ELSE Call(JoinAt + 1, "parseJoinClause.Right", Top.kids, "parseTableReference")
    \/ At("parseJoinClause.Apply") /\ ReturnNew("Apply", Top.at, Got, 0)
    \/ /\ At("parseJoinClause.Right")
       /\ IF Peek = "ON" THEN CallExpression(2, "parseJoinClause.Condition", Got, LOWEST)
                         ELSE ReturnNew("Join", Top.at, Got, 0)
    \/ At("parseJoinClause.Condition") /\ ReturnNew("Join", Top.at, GotIfAny, 0)

(* left = p.parseJoinClause(left), the left side being what has returned.  *)
CallJoin(pc) ==
    CallFrame(1, pc, <<>>, Frame("parseJoinClause", 0, pos + 1,
                                 IF ret = NIL THEN pos + 1 ELSE heap[ret].lo, <<ret>>))

DmlFn == [DELETE |-> "parseDeleteStatement", UPDATE |-> "parseUpdateStatement",
          MERGE |-> "parseMergeStatement"]

(* WITH (hints), but not WITH CHECK OPTION, or hints without WITH.         *)
TableHints(next, then) ==
    CASE Peek = "WITH" /\ Tok(pos + 2) = "LPAREN" -> Call(2, next, Top.kids, "parseTableHints")
      [] Peek = "WITH" /\ Tok(pos + 2) \notin {"LPAREN", "CHECK"} -> Complain(2, 1, then, Top.kids)
      [] Peek = "LPAREN" /\ Tok(pos + 2) \in LegacyHints -> Call(1, next, Top.kids, "parseTableHints")
      [] OTHER -> Continue(0, then, Top.kids)

(* name [TABLESAMPLE ...] [hints] [FOR SYSTEM_TIME ...] [alias] [hints]    *)
TableName ==
    \/ /\ At("parseTableReference.Name")
       /\ CallIf(Peek = "TABLESAMPLE", 1, "parseTableReference.Sampled", <<>>, "parseTableSample")
    \/ /\ At("parseTableReference.Sampled")
       /\ Continue(0, "parseTableReference.Hints", GotIfAny)
    \/ /\ At("parseTableReference.Hints")
       /\ TableHints("parseTableReference.Hinted", "parseTableReference.Time")
    \/ /\ At("parseTableReference.Hinted")
       /\ Continue(0, "parseTableReference.Time", Got)
    \/ /\ At("parseTableReference.Time")
       /\ CallIf(Peek = "FOR" /\ Tok(pos + 2) = "SYSTEM_TIME", 2, "parseTableReference.Timed",
                 Top.kids, "parseTemporalClause")
    \/ /\ At("parseTableReference.Timed")
       /\ Continue(AliasOf(AliasWords), "parseTableReference.HintsAgain", GotIfAny)
    \/ /\ At("parseTableReference.HintsAgain")
       /\ TableHints("parseTableReference.HintedAgain", "parseTableReference.Table")
    \/ /\ At("parseTableReference.HintedAgain")
       /\ Continue(0, "parseTableReference.Table", Got)
    \/ /\ At("parseTableReference.Table")
       /\ ReturnTable("TableName", Top.kids, 0)

(* name ( arguments ) [WITH (columns)] [alias].  OPENROWSET and OPENXML    *)
(* are IDENTs to the lexer, OPENJSON is a keyword.                         *)
FunctionName == Tok(ListEnd(Top.at, "DOT"))
TableFunction ==
    \/ /\ At("parseTableReference.Function")
       /\ \/ /\ FunctionName = "IDENT" /\ Peek = "BULK"
             /\ Continue(IF Tok(pos + 2) \in {"STRING", "NSTRING"} THEN 2 ELSE 1,
                         "parseTableReference.Option", <<>>)
          \/ IF Peek = "RPAREN" THEN Continue(1, "parseTableReference.With", <<>>)
             ELSE CallExpression(1, "parseTableReference.Argument", <<>>, LOWEST)
    \/ /\ At("parseTableReference.Option")
       /\ CASE Peek = "COMMA" /\ Tok(pos + 3) = "EQ" ->
                 CallExpression(4, "parseTableReference.Value", Top.kids, LOWEST)
            [] Peek = "COMMA" /\ Tok(pos + 3) # "EQ" ->
                 Continue(2, "parseTableReference.Option", Top.kids)
            [] OTHER -> Expect("RPAREN", 0, "parseTableReference.With", Top.kids)
    \/ /\ At("parseTableReference.Value")
       /\ Continue(0, "parseTableReference.Option", Got)
    \/ /\ At("parseTableReference.Argument")
       /\ IF Peek = "COMMA" THEN CallExpression(2, "parseTableReference.Argument", Got, LOWEST)
                            ELSE Expect("RPAREN", 0, "parseTableReference.With", Got)
    \/ /\ At("parseTableReference.With")
       /\ \/ /\ FunctionName \in {"OPENJSON", "IDENT"} /\ Peek = "WITH"
             /\ IF Tok(pos + 2) = "LPAREN"
                THEN Call(2, "parseTableReference.Columns", Top.kids, "parseOpenJsonColumns")
                ELSE Complain(2, 1, "parseTableReference.Alias", Top.kids)
          \/ /\ FunctionName # "OPENJSON" \/ Peek # "WITH"
             /\ Continue(0, "parseTableReference.Alias", Top.kids)
    \/ /\ At("parseTableReference.Columns")
       /\ Continue(0, "parseTableReference.Alias", Got)

DerivedKind == CASE Tok(Top.at) # "LPAREN"          -> "TableFunction"
                 [] Tok(Top.at) = "LPAREN" /\ Tok(Top.at + 1) = "SELECT" -> "DerivedTable"
                 [] Tok(Top.at) = "LPAREN" /\ Tok(Top.at + 1) = "VALUES" -> "ValuesTable"
                 [] OTHER                           -> "DmlDerivedTable"

(* A table, a function, or in parentheses a query, VALUES, a statement     *)
(* with OUTPUT, or a group of joins.                                       *)
parseTableReference ==
    \/ /\ At("parseTableReference")
       /\ LET name == ListEnd(pos, "DOT") - pos IN
          CASE Cur = "LPAREN" /\ Peek = "SELECT" ->
                 Call(1, "parseTableReference.Derived", <<>>, "parseSelectStatement")
            [] Cur = "LPAREN" /\ Peek = "VALUES" ->
                 Call(1, "parseTableReference.Rows", <<>>, "parseValuesRows")
            [] Cur = "LPAREN" /\ Peek \in DOMAIN DmlFn ->
                 Call(1, "parseTableReference.Derived", <<>>, DmlFn[Peek])
            [] Cur = "LPAREN" /\ Peek \notin {"SELECT", "VALUES"} \cup DOMAIN DmlFn ->
                 Call(1, "parseTableReference.Group", <<>>, "parseTableReference")
            [] Cur # "LPAREN" /\ Tok(pos + name + 1) = "LPAREN"
                  /\ Tok(pos + name + 2) \notin LegacyHints ->
                 Continue(name + 1, "parseTableReference.Function", <<>>)
            [] OTHER -> Continue(name, "parseTableReference.Name", <<>>)
    \/ /\ At("parseTableReference.Group")
       /\ CASE Peek \in JoinKeywords -> CallJoin("parseTableReference.Group")
            [] Peek = "RPAREN"       -> ReturnTable("ParenthesizedTable", Got, 1)
            [] OTHER                 -> Fail(1, 0)
    \/ At("parseTableReference.Derived") /\ Expect("RPAREN", 0, "parseTableReference.Alias", Got)
    \/ At("parseTableReference.Rows") /\ Expect("RPAREN", 0, "parseTableReference.Alias", GotIfAny)
    \/ /\ At("parseTableReference.Alias")       \* [alias [( names )]]
       /\ LET k == AliasOf(AliasWords) IN
          IF k > 0 /\ Tok(pos + k + 1) = "LPAREN"
          THEN Expect("RPAREN", ListEnd(pos + k + 2, "COMMA") - pos,
                      "parseTableReference.Derive", Top.kids)
          ELSE Continue(k, "parseTableReference.Derive", Top.kids)
    \/ /\ At("parseTableReference.Derive")
       /\ ReturnTable(DerivedKind, Top.kids, 0)
    \/ TableName
    \/ TableFunction

(* FROM table {join} {, table}: only the first table has its joins read.   *)
parseFromClause ==
    \/ At("parseFromClause") /\ Call(1, "parseFromClause.Table", <<>>, "parseTableReference")
    \/ /\ At("parseFromClause.Table")
       /\ CASE Peek \in JoinKeywords /\ Top.kids = <<>> -> CallJoin("parseFromClause.Table")
            [] Peek = "COMMA" -> Call(2, "parseFromClause.Table", Got, "parseTableReference")
            [] OTHER          -> ReturnNew("From", Top.at, Got, 0)

TableStep ==
    \/ parseTableHints \/ parseTableSample \/ parseTemporalClause
    \/ parseValuesRows \/ parseOpenJsonColumns \/ parsePivotTable \/ parseUnpivotTable
    \/ parseJoinClause \/ parseTableReference \/ parseFromClause
=============================================================================
