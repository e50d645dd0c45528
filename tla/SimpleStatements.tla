-------------------------- MODULE SimpleStatements --------------------------
(***************************************************************************)
(* The statements of T-SQL that hold no other statement: transactions,     *)
(* errors, cursors, jumps, PRINT, a label, an expression of its own.       *)
(***************************************************************************)
EXTENDS Expressions

Transaction == {"TRANSACTION", "TRAN"}

(* BEGIN TRAN[SACTION] [name] [WITH MARK 'text'].  MARK is an IDENT to the *)
(* lexer: any other name there is left where it is.                        *)
parseBeginTransactionStatement ==
    /\ At("parseBeginTransactionStatement")
    /\ \E mark \in BOOLEAN :
          LET named  == IF Tok(pos + 2) = "IDENT" THEN 2 ELSE 1
              with   == IF Tok(pos + named + 1) = "WITH" THEN 1 ELSE 0
              marked == IF with = 1 /\ mark /\ Tok(pos + named + 2) = "IDENT" THEN 1 ELSE 0
              text   == IF marked = 1 /\ Tok(pos + named + 3) = "STRING" THEN 1 ELSE 0
          IN  ReturnNew("BeginTransaction", Top.at, <<>>, named + with + marked + text)

(* COMMIT [TRAN[SACTION]] [name]                                           *)
parseCommitStatement ==
    /\ At("parseCommitStatement")
    /\ LET k == IF Peek \in Transaction THEN 1 ELSE 0 IN
       ReturnNew("Commit", Top.at, <<>>, IF Tok(pos + k + 1) = "IDENT" THEN k + 1 ELSE k)

(* ROLLBACK [TRAN[SACTION]] [name]: whatever follows is taken for the name *)
(* of the savepoint, a semicolon and the end of the input excepted.        *)
parseRollbackStatement ==
    /\ At("parseRollbackStatement")
    /\ LET k == IF Peek \in Transaction THEN 1 ELSE 0 IN
       ReturnNew("Rollback", Top.at, <<>>,
                 IF Tok(pos + k + 1) \notin {"SEMICOLON", "EOF"} THEN k + 1 ELSE k)

parseSaveTransactionStatement ==
    /\ At("parseSaveTransactionStatement")
    /\ ReturnNew("SaveTransaction", Top.at, <<>>, IF Peek \in Transaction THEN 2 ELSE 1)

(* THROW [number, message, state]; without a number String() leaves the    *)
(* other two out as well.                                                  *)
parseThrowStatement ==
    \/ /\ At("parseThrowStatement")
       /\ IF Peek \in {"SEMICOLON", "EOF", "END", "GO"}
          THEN ReturnNew("Throw", Top.at, <<>>, 0)
          ELSE CallExpression(1, "parseThrowStatement.ErrorNum", <<>>, LOWEST)
    \/ /\ At("parseThrowStatement.ErrorNum")
       /\ IF Peek = "COMMA" THEN CallExpression(2, "parseThrowStatement.Message", Got, LOWEST)
                            ELSE Fail(1, 0)
    \/ /\ At("parseThrowStatement.Message")
       /\ IF Peek = "COMMA" THEN CallExpression(2, "parseThrowStatement.State", Got, LOWEST)
                            ELSE Fail(1, 0)
    \/ /\ At("parseThrowStatement.State")
       /\ ReturnNew("Throw", Top.at, IF Top.kids[1] = NIL THEN <<>> ELSE Got, 0)

(* RAISERROR ( message, severity, state {, argument} ) [WITH option {, option}]: *)
(* a missing parenthesis is reported and the statement returned.           *)
parseRaiserrorStatement ==
    \/ /\ At("parseRaiserrorStatement")
       /\ IF Peek = "LPAREN" THEN CallExpression(2, "parseRaiserrorStatement.Message", <<>>, LOWEST)
                             ELSE Fail(1, 0)
    \/ /\ At("parseRaiserrorStatement.Message")
       /\ IF Peek = "COMMA" THEN CallExpression(2, "parseRaiserrorStatement.Severity", Got, LOWEST)
                            ELSE Fail(1, 0)
    \/ /\ At("parseRaiserrorStatement.Severity")
       /\ IF Peek = "COMMA" THEN CallExpression(2, "parseRaiserrorStatement.Args", Got, LOWEST)
                            ELSE Fail(1, 0)
    \/ /\ At("parseRaiserrorStatement.Args")
       /\ CASE Peek = "COMMA"  -> CallExpression(2, "parseRaiserrorStatement.Args", Got, LOWEST)
            [] Peek = "RPAREN" -> Continue(1, "parseRaiserrorStatement.With", Got)
            [] OTHER           -> Complain(1, 0, "parseRaiserrorStatement.With", Got)
    \/ /\ At("parseRaiserrorStatement.With")
       /\ IF Peek = "WITH" THEN Continue(2, "parseRaiserrorStatement.Option", Top.kids)
                           ELSE ReturnNew("Raiserror", Top.at, Top.kids, 0)
    \/ /\ At("parseRaiserrorStatement.Option")
       /\ IF Peek = "COMMA" THEN Continue(2, "parseRaiserrorStatement.Option", Top.kids)
                            ELSE ReturnNew("Raiserror", Top.at, Top.kids, 0)

(* RETURN [expr]: the value is left out in front of these words.           *)
EndsReturn == {"SEMICOLON", "EOF", "END", "ELSE", "GO",
               "IF", "WHILE", "BEGIN", "DECLARE", "SET", "SELECT", "INSERT", "UPDATE",
               "DELETE", "EXEC", "EXECUTE", "PRINT", "RETURN", "BREAK", "CONTINUE", "THROW",
               "RAISERROR", "WAITFOR", "FETCH_KW", "OPEN", "CLOSE", "DEALLOCATE", "CREATE",
               "DROP", "ALTER", "TRUNCATE", "WITH", "MERGE"}
parseReturnStatement ==
    \/ /\ At("parseReturnStatement")
       /\ IF Peek \in EndsReturn
          THEN ReturnNew("Return", Top.at, <<>>, 0)
          ELSE CallExpression(1, "parseReturnStatement.Value", <<>>, LOWEST)
    \/ At("parseReturnStatement.Value") /\ ReturnNew("Return", Top.at, GotIfAny, 0)

parseBreakStatement    == At("parseBreakStatement") /\ ReturnNew("Break", Top.at, <<>>, 0)
parseContinueStatement == At("parseContinueStatement") /\ ReturnNew("Continue", Top.at, <<>>, 0)

parsePrintStatement ==
    \/ /\ At("parsePrintStatement")
       /\ CallExpression(1, "parsePrintStatement.Expression", <<>>, LOWEST)
    \/ At("parsePrintStatement.Expression") /\ ReturnNew("PrintText", Top.at, Got, 0)

(* WAITFOR DELAY expr: any word stands for DELAY.                          *)
parseWaitforStatement ==
    \/ /\ At("parseWaitforStatement")
       /\ CallExpression(2, "parseWaitforStatement.Duration", <<>>, LOWEST)
    \/ At("parseWaitforStatement.Duration") /\ ReturnNew("Waitfor", Top.at, Got, 0)

(* USE name, GOTO name and DEALLOCATE name take any token for the name.    *)
parseUseStatement  == At("parseUseStatement") /\ ReturnNew("Use", Top.at, <<>>, 1)
parseGotoStatement == At("parseGotoStatement") /\ ReturnNew("Goto", Top.at, <<>>, 1)
parseDeallocateCursorStatement ==
    At("parseDeallocateCursorStatement") /\ ReturnNew("DeallocateCursor", Top.at, <<>>, 1)

(* name :                                                                  *)
parseLabelStatement == At("parseLabelStatement") /\ ReturnNew("Label", Top.at, <<>>, 1)

parseExpressionStatement ==
    \/ /\ At("parseExpressionStatement")
       /\ CallExpression(0, "parseExpressionStatement.Expression", <<>>, LOWEST)
    \/ /\ At("parseExpressionStatement.Expression")
       /\ ReturnNew("Expression", Top.at, GotIfAny, 0)

(* FETCH [direction | ABSOLUTE n | RELATIVE n] [FROM] name [INTO variables] *)
parseFetchStatement ==
    \/ /\ At("parseFetchStatement")
       /\ CASE Peek \in {"NEXT", "PRIOR", "FIRST", "LAST"} ->
                 Continue(2, "parseFetchStatement.From", <<>>)
            [] Peek \in {"ABSOLUTE", "RELATIVE"} ->
                 CallExpression(2, "parseFetchStatement.Offset", <<>>, LOWEST)
            [] OTHER -> Continue(1, "parseFetchStatement.From", <<>>)
    \/ /\ At("parseFetchStatement.Offset")
       /\ Continue(1, "parseFetchStatement.From", GotIfAny)
    \/ /\ At("parseFetchStatement.From")
       /\ LET k == IF Cur = "FROM" THEN 1 ELSE 0 IN
          IF Tok(pos + k + 1) = "INTO"
          THEN Continue(k + 2, "parseFetchStatement.Into", Top.kids)
          ELSE ReturnNew("Fetch", Top.at, Top.kids, k)
    \/ /\ At("parseFetchStatement.Into")
       /\ IF Peek = "COMMA" THEN Continue(2, "parseFetchStatement.Into", Top.kids)
                            ELSE ReturnNew("Fetch", Top.at, Top.kids, 0)

SimpleStatementStep ==
    \/ parseBeginTransactionStatement \/ parseCommitStatement \/ parseRollbackStatement
    \/ parseSaveTransactionStatement \/ parseThrowStatement \/ parseRaiserrorStatement
    \/ parseReturnStatement \/ parseBreakStatement \/ parseContinueStatement
    \/ parsePrintStatement \/ parseWaitforStatement \/ parseUseStatement
    \/ parseGotoStatement \/ parseDeallocateCursorStatement \/ parseLabelStatement
    \/ parseExpressionStatement \/ parseFetchStatement
=============================================================================
