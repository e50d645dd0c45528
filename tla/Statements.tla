------------------------------ MODULE Statements ------------------------------
(***************************************************************************)
(* ParseProgram, the dispatch of parseStatement, and the statements that   *)
(* hold other statements: IF, WHILE, BEGIN ... END, TRY ... CATCH, and a   *)
(* SELECT in parentheses.                                                  *)
(***************************************************************************)
EXTENDS SimpleStatements, Definitions, SequencesExt, Points

(* How many semicolons there are from i on, and how many tokens a GRANT,   *)
(* REVOKE or DENY skips.                                                   *)
Semicolons(i) == First({j \in i..(i + Len(input)) : Tok(j) # "SEMICOLON"}) - i
Skipped(i)    == FirstIn(i, {"SEMICOLON", "GO"}) - i

(* The statement that a keyword begins.                                    *)
StatementFn(t) ==
    CASE t = "IF"         -> "parseIfStatement"
      [] t = "INSERT"     -> "parseInsertStatement"
      [] t = "UPDATE"     -> "parseUpdateStatement"
      [] t = "DELETE"     -> "parseDeleteStatement"
      [] t = "MERGE"      -> "parseMergeStatement"
      [] t = "WITH"       -> "parseWithStatement"
      [] t = "WITH_XMLNAMESPACES" -> "parseWithXmlnamespacesStatement"
      [] t = "WHILE"      -> "parseWhileStatement"
      [] t = "BEGIN"      -> "parseBeginStatement"
      [] t = "RETURN"     -> "parseReturnStatement"
      [] t = "BREAK"      -> "parseBreakStatement"
      [] t = "CONTINUE"   -> "parseContinueStatement"
      [] t = "PRINT"      -> "parsePrintStatement"
      [] t = "THROW"      -> "parseThrowStatement"
      [] t = "RAISERROR"  -> "parseRaiserrorStatement"
      [] t = "COMMIT"     -> "parseCommitStatement"
      [] t = "ROLLBACK"   -> "parseRollbackStatement"
      [] t = "USE"        -> "parseUseStatement"
      [] t = "WAITFOR"    -> "parseWaitforStatement"
      [] t = "SAVE"       -> "parseSaveTransactionStatement"
      [] t = "GOTO"       -> "parseGotoStatement"
      [] t = "FETCH_KW"   -> "parseFetchStatement"
      [] t = "DEALLOCATE" -> "parseDeallocateCursorStatement"
      [] t = "LPAREN"     -> "parseParenthesizedSelectStatement"
      [] t = "DECLARE"    -> "parseDeclareStatement"
      [] t = "SET"        -> "parseSetStatement"
      [] t \in {"EXEC", "EXECUTE"} -> "parseExecStatement"
      [] t = "CREATE"     -> "parseCreateStatement"
      [] t = "CREATE_RULE" -> "parseCreateRuleStatement"
      [] t = "ALTER"      -> "parseAlterStatement"
      [] t = "DROP"       -> "parseDropStatement"
      [] t = "TRUNCATE"   -> "parseTruncateStatement"
      [] t = "TRUNCATE_TABLE" -> "parseTruncateTableCompound"
      [] t \in {"ENABLE", "DISABLE"} -> "parseEnableDisableTriggerStatement"
      [] t = "OPEN"       -> "parseOpenCursorStatement"
      [] t = "CLOSE"      -> "parseCloseCursorStatement"
      [] t = "BULK"       -> "parseBulkInsertStatement"
      [] t = "REVERT"     -> "parseRevertStatement"
      [] t = "RECONFIGURE" -> "parseReconfigureStatement"
      [] t = "DBCC"       -> "parseDbccStatement"
      [] t = "BACKUP"     -> "parseBackupStatement"
      [] t = "RESTORE"    -> "parseRestoreStatement"
      [] t = "SEND"       -> "parseSendOnConversationStatement"
      [] t = "RECEIVE"    -> "parseReceiveStatement"
      [] t = "MOVE"       -> "parseMoveConversationStatement"
      [] t = "END_CONVERSATION" -> "parseEndConversationStatement"
      [] t = "GET"        -> "parseGetConversationGroupStatement"
      [] OTHER            -> "nil"

(* A SELECT that returned nil is, as an ast.Statement, not nil: the caller *)
(* keeps it (a "NilSelect" here) and its String() panics.                  *)
parseStatement ==
    \/ /\ At("parseStatement")
       /\ Cur = "SEMICOLON"
       /\ Continue(Semicolons(pos), "parseStatement", <<>>)
    \/ /\ At("parseStatement")
       /\ StatementFn(Cur) # "nil"
       /\ IF Cur = "UPDATE" /\ Peek = "STATISTICS" THEN TailCall(1, "parseUpdateStatisticsStatement")
                                                   ELSE TailCall(0, StatementFn(Cur))
    \/ /\ At("parseStatement")
       /\ Cur = "SELECT"
       /\ Call(0, "parseStatement.Select", <<>>, "parseSelectStatement")
    \/ /\ At("parseStatement.Select")
       /\ IF ret = NIL THEN ReturnNew("NilSelect", Top.at, <<NIL>>, 0) ELSE Return(ret)
    \/ /\ At("parseStatement")
       /\ Cur \in {"GO", "EOF"}
       /\ Return(NIL)
    \/ /\ At("parseStatement")                  \* security statements are dropped
       /\ Cur \in {"GRANT", "REVOKE", "DENY"}
       /\ ReturnNil(Skipped(pos))
    \/ /\ At("parseStatement")
       /\ Cur \notin {"SEMICOLON", "SELECT", "GO", "EOF", "GRANT", "REVOKE", "DENY"}
       /\ StatementFn(Cur) = "nil"
       /\ TailCall(0, IF Cur = "IDENT" /\ Peek = "COLON" THEN "parseLabelStatement"
                                                         ELSE "parseExpressionStatement")

RetriesNil ==                          \* mutant: a nil statement is tried again
    \/ /\ At("ParseProgram")
       /\ IF Cur = "EOF" THEN ReturnNew("Program", Top.at, Top.kids, 0)
                         ELSE Call(0, "ParseProgram.Statement", Top.kids, "parseStatement")
    \/ /\ At("ParseProgram.Statement")
       /\ Continue(IF ret = NIL THEN 0 ELSE 1, "ParseProgram", GotIfAny)

ParseProgram ==
    \/ /\ At("ParseProgram")
       /\ IF Cur = "EOF" THEN ReturnNew("Program", Top.at, Top.kids, 0)
                         ELSE Call(0, "ParseProgram.Statement", Top.kids, "parseStatement")
    \/ /\ At("ParseProgram.Statement")
       /\ Continue(1, "ParseProgram", GotIfAny)
-----------------------------------------------------------------------------
SkipsOneSemicolon ==                   \* mutant: `if` for `for` in front of ELSE
    \/ /\ At("parseIfStatement")
       /\ CallExpression(1, "parseIfStatement.Condition", <<>>, LOWEST)
    \/ /\ At("parseIfStatement.Condition")
       /\ Call(1, "parseIfStatement.Consequence", Got, "parseStatement")
    \/ /\ At("parseIfStatement.Consequence")
       /\ LET k == IF Peek = "SEMICOLON" THEN 1 ELSE 0 IN
          IF Tok(pos + k + 1) = "ELSE"
          THEN Call(k + 2, "parseIfStatement.Alternative", Got, "parseStatement")
          ELSE ReturnNew("If", Top.at, Got, k)
    \/ /\ At("parseIfStatement.Alternative")
       /\ ReturnNew("IfElse", Top.at, GotIfAny, 0)

(* IF condition statement [{;} ELSE statement], an "IfElse" when it has the *)
(* ELSE.  A body that is nil stays in the node: String() looks at the ELSE *)
(* part only.                                                              *)
parseIfStatement ==
    \/ /\ At("parseIfStatement")
       /\ CallExpression(1, "parseIfStatement.Condition", <<>>, LOWEST)
    \/ /\ At("parseIfStatement.Condition")
       /\ Call(1, "parseIfStatement.Consequence", Got, "parseStatement")
    \/ /\ At("parseIfStatement.Consequence")
       /\ LET k == Semicolons(pos + 1) IN
          IF Tok(pos + k + 1) = "ELSE"
          THEN Call(k + 2, "parseIfStatement.Alternative", Got, "parseStatement")
          ELSE ReturnNew("If", Top.at, Got, k)
    \/ /\ At("parseIfStatement.Alternative")
       /\ ReturnNew("IfElse", Top.at, GotIfAny, 0)

parseWhileStatement ==
    \/ /\ At("parseWhileStatement")
       /\ CallExpression(1, "parseWhileStatement.Condition", <<>>, LOWEST)
    \/ /\ At("parseWhileStatement.Condition")
       /\ Call(1, "parseWhileStatement.Body", Got, "parseStatement")
    \/ /\ At("parseWhileStatement.Body")
       /\ ReturnNew("While", Top.at, Got, 0)

parseBeginStatement ==
    /\ At("parseBeginStatement")
    /\ CASE Peek = "TRY"           -> TailCall(0, "parseTryCatchStatement")
         [] Peek = "DIALOG"        -> TailCall(0, "parseBeginDialogStatement")
         [] Peek \in Transaction -> TailCall(0, "parseBeginTransactionStatement")
         [] OTHER                  -> TailCall(0, "parseBeginEndBlock")

ConsumesEnd ==                         \* mutant: the cursor is left behind END
    \/ /\ At("parseBeginEndBlock")
       /\ Continue(1, "parseBeginEndBlock.Statements", <<>>)
    \/ /\ At("parseBeginEndBlock.Statements")
       /\ LET k == Semicolons(pos) IN
          IF Tok(pos + k) \in {"END", "EOF"}
          THEN ReturnNew("Block", Top.at, Top.kids, k + 1)
          ELSE Call(k, "parseBeginEndBlock.Statement", Top.kids, "parseStatement")
    \/ /\ At("parseBeginEndBlock.Statement")
       /\ Continue(1, "parseBeginEndBlock.Statements", GotIfAny)

(* BEGIN {statement} END, the cursor on END; the end of the input will do  *)
(* for END.                                                                *)
parseBeginEndBlock ==
    \/ /\ At("parseBeginEndBlock")
       /\ Continue(1, "parseBeginEndBlock.Statements", <<>>)
    \/ /\ At("parseBeginEndBlock.Statements")
       /\ LET k == Semicolons(pos) IN
          IF Tok(pos + k) \in {"END", "EOF"}
          THEN ReturnNew("Block", Top.at, Top.kids, k)
          ELSE Call(k, "parseBeginEndBlock.Statement", Top.kids, "parseStatement")
    \/ /\ At("parseBeginEndBlock.Statement")
       /\ Continue(1, "parseBeginEndBlock.Statements", GotIfAny)
-----------------------------------------------------------------------------
EndOf(word, i) == Tok(i) = "END" /\ Tok(i + 1) = word

(* The statements up to END word, then on at `next` behind it.  A statement *)
(* may leave the cursor on that END already.                               *)
Section(loop, statement, word, next) ==
    \/ /\ At(loop)
       /\ LET k == Semicolons(pos) IN
          CASE Cur = "EOF"           -> Continue(0, next, Top.kids)
            [] EndOf(word, pos + k)  -> Continue(k + 2, next, Top.kids)
            [] OTHER                 -> Call(k, statement, Top.kids, "parseStatement")
    \/ /\ At(statement)
       /\ Continue(IF EndOf(word, pos) THEN 0 ELSE 1 + Semicolons(pos + 1), loop, GotIfAny)

(* BEGIN TRY {statement} END TRY BEGIN CATCH {statement} END CATCH; the    *)
(* statements of the two blocks are kept here as one list.  Without CATCH  *)
(* it is dropped.  The cursor is left behind the statement, its semicolons *)
(* and an END that is not that of a TRY or a CATCH.                        *)
parseTryCatchStatement ==
    \/ /\ At("parseTryCatchStatement")
       /\ Continue(2, "parseTryCatchStatement.Try", <<>>)
    \/ Section("parseTryCatchStatement.Try", "parseTryCatchStatement.Tried", "TRY",
               "parseTryCatchStatement.Between")
    \/ /\ At("parseTryCatchStatement.Between")
       /\ IF Cur = "BEGIN" /\ Peek = "CATCH"
          THEN Continue(2, "parseTryCatchStatement.Catch", Top.kids)
          ELSE Return(NIL)
    \/ Section("parseTryCatchStatement.Catch", "parseTryCatchStatement.Caught", "CATCH",
               "parseTryCatchStatement.Close")
    \/ /\ At("parseTryCatchStatement.Close")
       /\ LET k     == Semicolons(pos)
              outer == Tok(pos + k) = "END" /\ Tok(pos + k + 1) \notin {"TRY", "CATCH"}
          IN  ReturnNew("TryCatch", Top.at, Top.kids, IF outer THEN k + 1 ELSE k)

(* ( SELECT ... ) [UNION [ALL] (SELECT ... | (...))].  The node made here  *)
(* stands for the SELECT in the parentheses, which the code returns, with  *)
(* what follows UNION as its second child.  What begins with another token *)
(* is parsed as an expression, the parenthesis dropped.                    *)
parseParenthesizedSelectStatement ==
    \/ /\ At("parseParenthesizedSelectStatement")
       /\ IF Peek = "SELECT"
          THEN Call(1, "parseParenthesizedSelectStatement.Inner", <<>>, "parseSelectStatement")
          ELSE TailCall(1, "parseExpressionStatement")
    \/ /\ At("parseParenthesizedSelectStatement.Inner")
       /\ IF Peek = "RPAREN" THEN Continue(1, "parseParenthesizedSelectStatement.Set", Got)
                             ELSE Fail(1, 0)
    \/ /\ At("parseParenthesizedSelectStatement.Set")
       /\ LET k    == IF Tok(pos + 2) = "ALL" THEN 3 ELSE 2
              kind == IF Top.kids[1] = NIL THEN "NilSelect" ELSE "Select" IN
          CASE Peek \notin SetOperators -> ReturnNew(kind, Top.at, Top.kids, 0)
            [] Peek \in SetOperators /\ Tok(pos + k) = "SELECT" ->
                 Call(k, "parseParenthesizedSelectStatement.Right", Top.kids,
                      "parseSelectStatement")
            [] Peek \in SetOperators /\ Tok(pos + k) = "LPAREN" ->
                 Call(k, "parseParenthesizedSelectStatement.Right", Top.kids,
                      "parseParenthesizedSelectStatement")
            [] OTHER -> ReturnNew(kind, Top.at, Top.kids, k)
    \/ /\ At("parseParenthesizedSelectStatement.Right")
       /\ IF Top.kids[1] = NIL THEN Panic
          ELSE ReturnNew("Select", Top.at, IF NodeIs(ret, {"Select"}) THEN Got ELSE Top.kids, 0)

StatementStep ==
    \/ ParseProgram \/ parseStatement
    \/ parseIfStatement \/ parseWhileStatement \/ parseBeginStatement \/ parseBeginEndBlock
    \/ parseTryCatchStatement \/ parseParenthesizedSelectStatement
    \/ SimpleStatementStep

ProgramInit == InitMachine("ParseProgram", 0)
ProgramNext ==
    \/ StatementStep \/ DefinitionStep \/ RoutineStep \/ DeclarationStep \/ TableDefinitionStep
    \/ SecurityStep \/ AdministrationStep \/ StorageStep \/ ConversationStep
    \/ DmlStep \/ SelectStep \/ TableStep \/ ExpressionStep
    \/ Finished /\ UNCHANGED vars

ProgramSpec     == ProgramInit /\ [][ProgramNext]_vars
ProgramFairSpec == ProgramSpec /\ WF_vars(ProgramNext)
-----------------------------------------------------------------------------
(* A resume point that no function has would stop the machine.             *)
StatementTypeOK == MachineTypeOK(ProgramPoints, ProgramKinds, TakesResult)

(* Some statements take whatever token follows for a name, and a GRANT,    *)
(* REVOKE or DENY runs up to the next semicolon or GO.                     *)
NameTakers == {"Rollback", "Use", "Goto", "SaveTransaction", "DeallocateCursor", "Waitfor"}
Named(i) == \E n \in DOMAIN heap : /\ heap[n].kind \in NameTakers
                                   /\ heap[n].at < i /\ i <= heap[n].hi
Taken(i) == \/ Named(i)
            \/ \E g \in 1..i : /\ Tok(g) \in {"GRANT", "REVOKE", "DENY"} /\ ~ Named(g)
                                /\ \A j \in g..i : Tok(j) \notin {"SEMICOLON", "GO"}

(* BEGIN and CASE open, END closes.                                        *)
Opens(i)  == /\ Tok(i) \in {"BEGIN", "BEGIN_ATOMIC", "CASE"} /\ ~ Taken(i)
             /\ ~ (Tok(i) = "BEGIN" /\ Tok(i + 1) \in Transaction)
Closes(i) == Tok(i) = "END" /\ ~ Taken(i)
Depth(i, j) == Cardinality({m \in i..j : Opens(m)}) - Cardinality({m \in i..j : Closes(m)})

(* A block goes from its BEGIN to the END that balances it, or, if nothing *)
(* balances it, to the end of the input.                                   *)
HasItsOwnEnd(block) ==
    /\ \A j \in block.at..(block.hi - 1) : Depth(block.at, j) > 0
    /\ Tok(block.hi) = "EOF" \/ Depth(block.at, block.hi) = 0
Blocks == {n \in DOMAIN heap : heap[n].kind = "Block"}

(* No statement in a block takes the END of the block and none leaves its  *)
(* own behind: in a program without errors and without TRY every BEGIN has *)
(* the END that belongs to it.  (With TRY: see BlocksAroundTryClose.)      *)
BlocksClose ==
    Finished /\ errors = <<>> /\ (\A i \in DOMAIN input : input[i] # "TRY")
        => \A n \in Blocks : HasItsOwnEnd(heap[n])

(* An ELSE goes with the nearest IF: no IF that has none ends, but for     *)
(* semicolons, in front of the ELSE of an IF around it.                    *)
ElseBindsNearest ==
    \A n, m \in DOMAIN heap : LET outer == heap[n]
                                  inner == heap[m] IN
        /\ outer.kind = "IfElse" /\ Len(outer.kids) = 3
        /\ inner.kind = "If" /\ outer.lo < inner.lo
        => LET elseAt == heap[outer.kids[3]].lo - 1 IN
           inner.hi < elseAt => \E t \in (inner.hi + 1)..(elseAt - 1) : Tok(t) # "SEMICOLON"

(* The words a statement is made of, the statements and expressions in it  *)
(* apart, and how many tokens of any kind it takes after its keyword.      *)
StatementLayout ==
    [Program          |-> {"GO", "GRANT", "EOF"},
     Block            |-> {"BEGIN", "END", "GO", "GRANT", "EOF"},
     If               |-> {"IF", "GO", "GRANT", "EOF"},
     IfElse           |-> {"IF", "ELSE", "GO", "GRANT", "EOF"},
     While            |-> {"WHILE", "GO", "GRANT", "EOF"},
     TryCatch         |-> {"BEGIN", "TRY", "END", "CATCH", "GO", "EOF"},
     Throw            |-> {"THROW", "COMMA"},
     Raiserror        |-> {"RAISERROR", "LPAREN", "COMMA", "RPAREN"},
     Return           |-> {"RETURN"},
     PrintText        |-> {"PRINT"},
     BeginTransaction |-> {"BEGIN", "WITH", "IDENT", "STRING"} \cup Transaction,
     Commit           |-> {"COMMIT", "IDENT"} \cup Transaction,
     Expression       |-> {"LPAREN"}]

(* What has been parsed without an error is in the tree, as NoTokenLost    *)
(* says of expressions: a statement stands on its own words, semicolons    *)
(* and the statements and expressions in it.  (A TRY without CATCH and the *)
(* token after a TRY ... CATCH go missing, see MCStatements.)              *)
TriesKept == \A i \in DOMAIN input : Tok(i) = "BEGIN" /\ Tok(i + 1) = "TRY" /\ ~ Taken(i)
                 => \E n \in DOMAIN heap : heap[n].kind = "TryCatch" /\ heap[n].at = i
NoStatementTokenLost ==
    Finished /\ errors = <<>> /\ TriesKept => \A n \in DOMAIN heap : LET node == heap[n] IN
        node.kind \in DOMAIN StatementLayout =>
        \A t \in (node.lo..node.hi) \ UNION {Span(node.kids[i]) : i \in DOMAIN node.kids} :
            \/ Tok(t) \in StatementLayout[node.kind] \cup {"SEMICOLON", "AT"}
            \/ Taken(t)
            \/ node.kind = "TryCatch" /\ t = node.hi
            \/ node.kind = "Raiserror" /\ \E w \in node.at..t : Tok(w) = "WITH"

(* Where a node may lack a child although no error was reported: the body  *)
(* of an IF, a WHILE or a procedure, a query that is none, the value a     *)
(* method call in SET has not, what a clause left out, and the queue of a  *)
(* RECEIVE or a GET.                                                       *)
MayLack ==
    {"If", "IfElse", "While", "CreateProcedure", "With", "SetMethod", "Merge",
     "GroupBy", "Options", "Temporal", "Action", "CreateType", "CreateSynonym", "Receive",
     "GetConversationGroup"}
Lacks(node) == NIL \in ToSet(node.kids)

(* A program parsed without an error is broken at these places only, and a *)
(* parse that panics without one has met such a node: parseScopeExpression *)
(* makes the left side of :: text, which a query in parentheses can be.    *)
BrokenOnlyWhereKnown ==
    errors = <<>> =>
        /\ \A n \in DOMAIN heap : Lacks(heap[n]) => heap[n].kind \in MayLack
        /\ ret = Panicked => \E n \in DOMAIN heap : Lacks(heap[n])

(* The whole program is parsed, whatever the input.                        *)
ProgramTerminates == <>Finished
=============================================================================
