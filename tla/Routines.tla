------------------------------- MODULE Routines -------------------------------
(***************************************************************************)
(* Views, procedures, functions and triggers: CREATE and ALTER.  The words *)
(* EXECUTE, READONLY and so on are keywords; a [name] that reads like one  *)
(* is not in the inputs.                                                   *)
(***************************************************************************)
EXTENDS Declarations

(* name [AS] type [READONLY] [= expr] [OUTPUT | OUT], between commas       *)
parseParameterDef ==
    \/ /\ At("parseParameterDef")
       /\ Call(IF Peek = "AS" THEN 2 ELSE 1, "parseParameterDef.DataType", <<>>, "parseDataType")
    \/ /\ At("parseParameterDef.DataType")
       /\ LET k == IF Peek = "READONLY" THEN 1 ELSE 0 IN
          IF Tok(pos + k + 1) = "EQ" THEN CallExpression(k + 2, "parseParameterDef.Output", Got, LOWEST)
                                     ELSE Skip(k, "parseParameterDef.Output", Got)
    \/ /\ At("parseParameterDef.Output")
       /\ ReturnNew("Parameter", Top.at, GotIfAny, IF Peek \in {"OUTPUT", "OUT"} THEN 1 ELSE 0)
parseParameterDefs ==
    \/ At("parseParameterDefs") /\ Call(0, "parseParameterDefs.Next", <<>>, "parseParameterDef")
    \/ /\ At("parseParameterDefs.Next")
       /\ IF Peek = "COMMA" THEN Call(2, "parseParameterDefs.Next", Got, "parseParameterDef")
                            ELSE ReturnNew("Parameters", Top.at, Got, 0)
-----------------------------------------------------------------------------
(* VIEW name [( names )] [WITH options] AS SELECT ... | WITH ...            *)
(* [WITH [CHECK [OPTION]]]: any other body is dropped without an error.    *)
NamesInParentheses(i) ==               \* the end of the list behind i, `)` not missed
    LET Last(j) == Tok(j) \in {"RPAREN", "EOF"} \/ Tok(j + 1) # "COMMA"
        last == First({j \in (i + 2)..(i + Len(input) + 3) : (j - i) % 2 = 0 /\ Last(j)})
    IN  CASE Tok(i + 1) # "LPAREN"                              -> i
          [] Tok(i + 1) = "LPAREN" /\ Tok(last + 1) = "RPAREN" -> last + 1
          [] OTHER                                              -> last
ViewBody(here, next) ==
    /\ At(here)
    /\ CASE Cur = "SELECT" -> Call(0, next, <<>>, "parseSelectStatement")
         [] Cur = "WITH"   -> Call(0, next, <<>>, "parseWithStatement")
         [] OTHER          -> ReturnNil(0)
parseCreateViewStatement ==
    \/ /\ At("parseCreateViewStatement")
       /\ LET columns == NamesInParentheses(ListEnd(pos + 1, "DOT"))
              options == IF Tok(columns + 1) = "WITH" THEN ListEnd(columns + 2, "COMMA") ELSE columns
          IN  Require(options - pos, <<"AS">>, Continue(options + 2 - pos, "parseCreateViewStatement.Body", <<>>))
    \/ ViewBody("parseCreateViewStatement.Body", "parseCreateViewStatement.Check")
    \/ /\ At("parseCreateViewStatement.Check")
       /\ LET check == <<"WITH", "CHECK", "OPTION">>
              Agrees(k) == \A j \in 1..k : Tok(pos + j) = check[j]
          IN  ReturnNew("CreateView", Top.at, Got,
                        CHOOSE k \in 0..3 : Agrees(k) /\ \A j \in (k + 1)..3 : ~ Agrees(j))

(* ALTER VIEW skips its options.                                           *)
parseAlterViewStatement ==
    \/ /\ At("parseAlterViewStatement")
       /\ LET columns == NamesInParentheses(ListEnd(pos + 1, "DOT"))
              options == IF Tok(columns + 1) = "WITH" THEN FirstIn(columns + 2, {"AS"}) - 1 ELSE columns
          IN  Require(options - pos, <<"AS">>, Continue(options + 2 - pos, "parseAlterViewStatement.Body", <<>>))
    \/ ViewBody("parseAlterViewStatement.Body", "parseAlterViewStatement.End")
    \/ At("parseAlterViewStatement.End") /\ ReturnNew("AlterView", Top.at, Got, 0)
-----------------------------------------------------------------------------
(* name ( [parameters] ) RETURNS, the cursor then on the type.             *)
FunctionHead(here, close, next) ==
    \/ /\ At(here)
       /\ LET name == ListEnd(pos + 1, "DOT") - pos IN
          Require(name, <<"LPAREN">>,
                  IF Tok(pos + name + 2) = "RPAREN" THEN Skip(name + 1, close, <<>>)
                  ELSE Call(name + 2, close, <<>>, "parseParameterDefs"))
    \/ At(close) /\ Require(0, <<"RPAREN", "RETURNS">>, Continue(3, next, GotIfAny))

(* WITH options: up to an AS that does not belong to EXECUTE.              *)
FunctionOptionsEnd(i) ==
    IF Tok(i + 1) # "WITH" THEN i
    ELSE First({j \in (i + 1)..(i + Len(input) + 1) :
                   Tok(j) = "EOF" \/ (Tok(j + 1) = "AS" /\ Tok(j) # "EXECUTE")})

(* RETURNS type | @table TABLE ( ... ) | TABLE [WITH ...] [AS RETURN [(]    *)
(* SELECT ... [)]]: String() writes neither the table nor the query.       *)
ReturnedType ==
    \/ /\ At("parseCreateFunctionStatement.Returns") /\ Cur = "TABLE"
       /\ LET options == FunctionOptionsEnd(pos) - pos
              query   == options + (IF Tok(pos + options + 3) = "LPAREN" THEN 4 ELSE 3)
          IN  IF Tok(pos + options + 1) # "AS"
              THEN Continue(options, "parseCreateFunctionStatement.Tail", Top.kids)
              ELSE Require(options + 1, <<"RETURN">>,
                           IF Tok(pos + query) = "SELECT"
                           THEN Call(query, IF query = options + 4 THEN "parseCreateFunctionStatement.Close"
                                                                    ELSE "parseCreateFunctionStatement.Returned",
                                     Top.kids, "parseSelectStatement")
                           ELSE Continue(IF query = options + 4 /\ Tok(pos + query + 1) = "RPAREN"
                                         THEN query + 1 ELSE query,
                                         "parseCreateFunctionStatement.Tail", Top.kids))
    \/ /\ At("parseCreateFunctionStatement.Returns") /\ Cur = "VARIABLE"
       /\ IF Peek = "TABLE"
          THEN Call(1, "parseCreateFunctionStatement.Returned", Top.kids, "parseTableTypeDefinition")
          ELSE Continue(1, "parseCreateFunctionStatement.Tail", Top.kids)
    \/ /\ At("parseCreateFunctionStatement.Returns") /\ Cur \notin {"TABLE", "VARIABLE"}
       /\ Call(0, "parseCreateFunctionStatement.Type", Top.kids, "parseDataType")
    \/ /\ At("parseCreateFunctionStatement.Close")
       /\ Continue(IF Peek = "RPAREN" THEN 1 ELSE 0, "parseCreateFunctionStatement.Tail", Top.kids)
    \/ /\ At("parseCreateFunctionStatement.Returned")
       /\ Continue(0, "parseCreateFunctionStatement.Tail", Top.kids)
    \/ At("parseCreateFunctionStatement.Type") /\ Continue(0, "parseCreateFunctionStatement.Tail", Got)

(* [AS] [BEGIN ... END]: without BEGIN the body is no part of the node.    *)
BodyBlock(k, kind, pc, kids) ==
    LET as == IF Tok(pos + k + 1) = "AS" THEN k + 1 ELSE k IN
    CASE Tok(pos + as + 1) = "BEGIN" -> Call(as + 1, pc, kids, "parseBeginEndBlock")
      [] Tok(pos + as + 1) = "BEGIN_ATOMIC" /\ kind = "CreateFunction" ->
           Call(as + 1, pc, kids, "parseBeginAtomicBlock")
      [] OTHER -> ReturnNew(kind, Top.at, kids, as)
parseCreateFunctionStatement ==
    \/ FunctionHead("parseCreateFunctionStatement", "parseCreateFunctionStatement.Parameters",
                    "parseCreateFunctionStatement.Returns")
    \/ ReturnedType
    \/ /\ At("parseCreateFunctionStatement.Tail")
       /\ BodyBlock(FunctionOptionsEnd(pos) - pos, "CreateFunction", "parseCreateFunctionStatement.Body", Top.kids)
    \/ At("parseCreateFunctionStatement.Body") /\ ReturnNew("CreateFunction", Top.at, GotIfAny, 0)

(* ALTER skips from the type to AS; String() writes the name alone.        *)
parseAlterFunctionStatement ==
    \/ FunctionHead("parseAlterFunctionStatement", "parseAlterFunctionStatement.Parameters",
                    "parseAlterFunctionStatement.Returns")
    \/ /\ At("parseAlterFunctionStatement.Returns")
       /\ CASE Cur = "TABLE"    -> Continue(0, "parseAlterFunctionStatement.Type", <<>>)
            [] Cur = "VARIABLE" -> Continue(1, "parseAlterFunctionStatement.Type", <<>>)
            [] OTHER            -> Call(0, "parseAlterFunctionStatement.Typed", <<>>, "parseDataType")
    \/ At("parseAlterFunctionStatement.Typed") /\ Continue(0, "parseAlterFunctionStatement.Type", <<>>)
    \/ /\ At("parseAlterFunctionStatement.Type")
       /\ LET as == FirstIn(pos, {"AS"}) - pos IN
          IF Tok(pos + as + 1) = "BEGIN"
          THEN Call(as + 1, "parseAlterFunctionStatement.Body", <<>>, "parseBeginEndBlock")
          ELSE ReturnNew("AlterFunction", Top.at, <<>>, as)
    \/ At("parseAlterFunctionStatement.Body") /\ ReturnNew("AlterFunction", Top.at, <<>>, 0)
-----------------------------------------------------------------------------
(* TRIGGER name ON table | DATABASE | ALL [SERVER] [WITH options] timing    *)
(* event {, event} [NOT [FOR [REPLICATION]]] [AS] [BEGIN ... END].          *)
TriggerTargetEnd(i) == CASE Tok(i) = "DATABASE" -> i
                         [] Tok(i) = "ALL"      -> IF Tok(i + 1) = "SERVER" THEN i + 1 ELSE i
                         [] OTHER               -> ListEnd(i, "DOT")
TriggerOptionsEnd(i) ==
    LET Last(j) == Tok(j) = "EXECUTE" \/ Tok(j + 1) # "COMMA"
        last == First({j \in (i + 2)..(i + Len(input) + 3) : (j - i) % 2 = 0 /\ Last(j)})
    IN  CASE Tok(i + 1) # "WITH"                           -> i
          [] Tok(i + 1) = "WITH" /\ Tok(last) = "EXECUTE" ->
               FirstIn(last + 1, {"AFTER", "INSTEAD", "FOR"}) - 1
          [] OTHER                                         -> last
EventsEnd(i) ==                        \* of the timing and the events behind i
    LET timing == CASE Tok(i + 1) = "INSTEAD" -> IF Tok(i + 2) = "OF" THEN i + 2 ELSE i + 1
                    [] Tok(i + 1) \in {"AFTER", "FOR"} -> i + 1
                    [] OTHER                           -> i
    IN  ListEnd(timing + 1, "COMMA")
NotForReplicationEnd(i) ==
    CASE Tok(i + 1) # "NOT"                                                    -> i
      [] Tok(i + 1) = "NOT" /\ Tok(i + 2) # "FOR"                             -> i + 1
      [] Tok(i + 1) = "NOT" /\ Tok(i + 2) = "FOR" /\ Tok(i + 3) # "REPLICATION" -> i + 2
      [] OTHER                                                                 -> i + 3
parseCreateTriggerStatement ==
    \/ /\ At("parseCreateTriggerStatement")
       /\ LET name    == ListEnd(pos + 1, "DOT")
              options == TriggerOptionsEnd(TriggerTargetEnd(name + 2))
              events  == NotForReplicationEnd(EventsEnd(options))
          IN  Require(name - pos, <<"ON">>,
                      BodyBlock(events - pos, "CreateTrigger", "parseCreateTriggerStatement.Body", <<>>))
    \/ At("parseCreateTriggerStatement.Body") /\ ReturnNew("CreateTrigger", Top.at, GotIfAny, 0)
parseAlterTriggerStatement ==          \* String() writes no body
    \/ /\ At("parseAlterTriggerStatement")
       /\ LET name   == ListEnd(pos + 1, "DOT")
              events == EventsEnd(ListEnd(name + 2, "DOT"))
          IN  Require(name - pos, <<"ON">>,
                      BodyBlock(events - pos, "AlterTrigger", "parseAlterTriggerStatement.Body", <<>>))
    \/ At("parseAlterTriggerStatement.Body") /\ ReturnNew("AlterTrigger", Top.at, <<>>, 0)

(* ENABLE | DISABLE TRIGGER name ON table | DATABASE | ALL [SERVER]         *)
parseEnableDisableTriggerStatement ==
    /\ At("parseEnableDisableTriggerStatement")
    /\ Require(0, <<"TRIGGER", "any", "ON">>,
               CASE Tok(pos + 4) = "ALL" /\ Tok(pos + 5) = "IDENT" ->
                      \E k \in {4, 5} : ReturnNew("EnableTrigger", Top.at, <<>>, k)
                 [] OTHER -> ReturnNew("EnableTrigger", Top.at, <<>>, TriggerTargetEnd(pos + 4) - pos))
-----------------------------------------------------------------------------
(* The parameters of PROCEDURE name [(] ...: a parenthesis is not closed    *)
(* here but passed over on the way to AS.                                  *)
ProcedureHead(here, next) ==
    /\ At(here)
    /\ LET name == ListEnd(pos + 1, "DOT") - pos IN
       CASE Tok(pos + name + 1) = "VARIABLE" -> Call(name + 1, next, <<>>, "parseParameterDefs")
         [] Tok(pos + name + 1) = "LPAREN"   -> Call(name + 2, next, <<>>, "parseParameterDefs")
         [] OTHER                            -> Skip(name, next, <<>>)

(* String() of an ALTER writes no statement of the body.                    *)
Written(kind, body) == IF kind = "CreateProcedure" THEN body ELSE <<>>
CrossesBatches(here, statement, kind, semicolon) ==    \* mutant: GO ends no body
    \/ /\ At(here)
       /\ IF Cur = "EOF" THEN ReturnNew(kind, Top.at, Written(kind, Top.kids), 0)
                         ELSE Call(0, statement, Top.kids, "parseStatement")
    \/ /\ At(statement)
       /\ LET k == IF semicolon /\ Peek = "SEMICOLON" THEN 1 ELSE 0 IN
          Continue(k + 1, here, GotIfAny)

(* A body without BEGIN: every statement up to GO or the end of the input, *)
(* looked for behind a statement and where the next one begins.            *)
BodyStatements(here, statement, kind, semicolon) ==
    \/ /\ At(here)
       /\ IF Cur \in {"EOF", "GO"} THEN ReturnNew(kind, Top.at, Written(kind, Top.kids), 0)
                                   ELSE Call(0, statement, Top.kids, "parseStatement")
    \/ /\ At(statement)
       /\ LET k == IF semicolon /\ Peek = "SEMICOLON" THEN 1 ELSE 0 IN
          IF Tok(pos + k + 1) \in {"EOF", "GO"} THEN ReturnNew(kind, Top.at, Written(kind, GotIfAny), k)
                                                ELSE Continue(k + 1, here, GotIfAny)

(* PROCEDURE name parameters {WITH options} AS body.  The block the code    *)
(* makes up for a body that is none is left out here: its statements are   *)
(* operands of the procedure.  A TRY that was dropped stays in it as nil.  *)
parseCreateProcedureStatement ==
    \/ ProcedureHead("parseCreateProcedureStatement", "parseCreateProcedureStatement.Parameters")
    \/ At("parseCreateProcedureStatement.Parameters") /\ Continue(0, "parseCreateProcedureStatement.With", GotIfAny)
    \/ /\ At("parseCreateProcedureStatement.With")
       /\ IF Peek = "WITH" THEN Continue(2, "parseCreateProcedureStatement.Option", Top.kids)
          ELSE Continue(FirstIn(pos, {"AS"}) + 1 - pos, "parseCreateProcedureStatement.Body", Top.kids)
    \/ /\ At("parseCreateProcedureStatement.Option")
       /\ LET k == CASE Cur # "EXECUTE"                   -> 0
                     [] Cur = "EXECUTE" /\ Peek # "AS" -> 1
                     [] OTHER                             -> 3
          IN  IF Tok(pos + k + 1) = "COMMA" THEN Continue(k + 2, "parseCreateProcedureStatement.Option", Top.kids)
                                            ELSE Continue(k, "parseCreateProcedureStatement.With", Top.kids)
    \/ /\ At("parseCreateProcedureStatement.Body")
       /\ CASE Cur = "BEGIN" /\ Peek = "TRY" ->
                 Call(0, "parseCreateProcedureStatement.Block", Top.kids, "parseTryCatchStatement")
            [] Cur = "BEGIN" /\ Peek \in {"TRANSACTION", "TRAN"} ->
                 Call(0, "parseCreateProcedureStatement.Transaction", Top.kids, "parseBeginTransactionStatement")
            [] Cur = "BEGIN" /\ Peek \notin {"TRY", "TRANSACTION", "TRAN"} ->
                 Call(0, "parseCreateProcedureStatement.Block", Top.kids, "parseBeginEndBlock")
            [] Cur = "BEGIN_ATOMIC" ->
                 Call(0, "parseCreateProcedureStatement.Block", Top.kids, "parseBeginAtomicBlock")
            [] OTHER -> Continue(0, "parseCreateProcedureStatement.Statements", Top.kids)
    \/ At("parseCreateProcedureStatement.Block") /\ ReturnNew("CreateProcedure", Top.at, Got, 0)
    \/ At("parseCreateProcedureStatement.Transaction") /\ Continue(1, "parseCreateProcedureStatement.Statements", Got)
    \/ BodyStatements("parseCreateProcedureStatement.Statements", "parseCreateProcedureStatement.Statement",
                      "CreateProcedure", FALSE)

(* ALTER PROCEDURE has no options, so that the AS of EXECUTE AS begins the  *)
(* body, and no TRY or TRANSACTION; String() writes the name alone.        *)
parseAlterProcedureStatement ==
    \/ ProcedureHead("parseAlterProcedureStatement", "parseAlterProcedureStatement.Parameters")
    \/ /\ At("parseAlterProcedureStatement.Parameters")
       /\ Continue(FirstIn(pos, {"AS"}) + 1 - pos, "parseAlterProcedureStatement.Body", <<>>)
    \/ /\ At("parseAlterProcedureStatement.Body")
       /\ IF Cur = "BEGIN" THEN Call(0, "parseAlterProcedureStatement.Block", <<>>, "parseBeginEndBlock")
          ELSE Continue(0, "parseAlterProcedureStatement.Statements", <<>>)
    \/ At("parseAlterProcedureStatement.Block") /\ ReturnNew("AlterProcedure", Top.at, <<>>, 0)
    \/ BodyStatements("parseAlterProcedureStatement.Statements", "parseAlterProcedureStatement.Statement",
                      "AlterProcedure", TRUE)

(* BEGIN ATOMIC [WITH [( ... )]], then as in a block.                       *)
parseBeginAtomicBlock ==
    /\ At("parseBeginAtomicBlock")
    /\ LET body == CASE Peek # "WITH"                             -> 1
                     [] Peek = "WITH" /\ Tok(pos + 2) # "LPAREN" -> 2
                     [] OTHER                                     -> Closing(pos + 2) + 1 - pos
       IN  Continue(body, "parseBeginEndBlock.Statements", <<>>)

RoutineStep ==
    \/ parseParameterDef \/ parseParameterDefs
    \/ parseCreateViewStatement \/ parseAlterViewStatement
    \/ parseCreateFunctionStatement \/ parseAlterFunctionStatement
    \/ parseCreateTriggerStatement \/ parseAlterTriggerStatement \/ parseEnableDisableTriggerStatement
    \/ parseCreateProcedureStatement \/ parseAlterProcedureStatement \/ parseBeginAtomicBlock
=============================================================================
