----------------------------- MODULE Declarations -----------------------------
(***************************************************************************)
(* DECLARE, SET, EXEC, REVERT, RECONFIGURE, and the OPEN and CLOSE of        *)
(* cursors and keys.                                                       *)
(***************************************************************************)
EXTENDS TableDefinitions, WordRows

(* DECLARE @name TABLE ( ... ) | [AS] type [= expr] {, ...}: behind AS      *)
(* TABLE is the name of a type.                                            *)
parseVariableDef ==
    \/ /\ At("parseVariableDef")
       /\ IF Peek = "TABLE" THEN Call(1, "parseVariableDef.Table", <<>>, "parseTableTypeDefinition")
          ELSE Call(IF Peek = "AS" THEN 2 ELSE 1, "parseVariableDef.Type", <<>>, "parseDataType")
    \/ At("parseVariableDef.Table") /\ ReturnNew("VariableDef", Top.at, Got, 0)
    \/ /\ At("parseVariableDef.Type")
       /\ IF Peek = "EQ" THEN CallExpression(2, "parseVariableDef.Value", Got, LOWEST)
                         ELSE ReturnNew("VariableDef", Top.at, Got, 0)
    \/ At("parseVariableDef.Value") /\ ReturnNew("VariableDef", Top.at, GotIfAny, 0)
parseDeclareStatement ==
    \/ /\ At("parseDeclareStatement")
       /\ IF Peek = "IDENT" /\ Tok(pos + 2) = "CURSOR" THEN TailCall(1, "parseDeclareCursorStatement")
          ELSE Call(1, "parseDeclareStatement.Variable", <<>>, "parseVariableDef")
    \/ /\ At("parseDeclareStatement.Variable")
       /\ IF Peek = "COMMA" THEN Call(2, "parseDeclareStatement.Variable", Got, "parseVariableDef")
                            ELSE ReturnNew("Declare", Top.at, Got, 0)

(* name CURSOR options [FOR statement] [FOR [UPDATE [OF names]]]: whatever  *)
(* follows FOR is parsed as a SELECT.                                      *)
ForUpdateEnd ==
    LET Ends(j) == Tok(j) \in {"SEMICOLON", "EOF", "GO"} \/ Tok(j + 1) # "COMMA"
        names == {j \in (pos + 4)..(pos + Len(input) + 5) : (j - pos) % 2 = 0 /\ Ends(j)}
    IN  CASE Peek # "FOR"                                                      -> 0
          [] Peek = "FOR" /\ Tok(pos + 2) # "UPDATE"                         -> 1
          [] Peek = "FOR" /\ Tok(pos + 2) = "UPDATE" /\ Tok(pos + 3) # "OF" -> 2
          [] OTHER                                                             -> First(names) - pos
parseDeclareCursorStatement ==
    \/ /\ At("parseDeclareCursorStatement")
       /\ LET k == parseCursorOptions(pos + 2) IN
          IF Tok(pos + k) = "FOR"
          THEN Call(k + 1, "parseDeclareCursorStatement.ForSelect", <<>>, "parseSelectStatement")
          ELSE Skip(k, "parseDeclareCursorStatement.ForSelect", <<>>)
    \/ /\ At("parseDeclareCursorStatement.ForSelect")
       /\ ReturnNew("DeclareCursor", Top.at, GotIfAny, ForUpdateEnd)
-----------------------------------------------------------------------------
OnOffOptions ==
    {"NOCOUNT", "XACT_ABORT", "ANSI_NULLS", "QUOTED_IDENTIFIER", "ANSI_WARNINGS", "ARITHABORT",
     "ARITHIGNORE", "ANSI_DEFAULTS", "CONCAT_NULL_YIELDS_NULL", "NUMERIC_ROUNDABORT", "ANSI_PADDING",
     "ANSI_NULL_DFLT_ON", "CURSOR_CLOSE_ON_COMMIT", "IMPLICIT_TRANSACTIONS", "FMTONLY", "PARSEONLY",
     "FORCEPLAN", "SHOWPLAN_TEXT", "SHOWPLAN_ALL", "SHOWPLAN_XML", "NOEXEC", "REMOTE_PROC_TRANSACTIONS"}

(* What follows an option and is kept as it stands, k tokens behind SET.   *)
SetOption(k) == ReturnNew("SetOption", Top.at, <<>>, k)
parseSetTransactionIsolation ==        \* READ and REPEATABLE are no keywords
    Require(1, <<"ISOLATION", "LEVEL">>,
            \E k \in IF Tok(pos + 4) \in Texts THEN {4, 5} ELSE {4} : SetOption(k))
OffsetsEnd(j) ==                       \* OFF is no keyword
    /\ j \in (pos + 2)..(pos + Len(input) + 3)
    /\ Tok(j) \in Texts \cup {"ON", "EOF"}
    /\ \A i \in (pos + 2)..(j - 1) : Tok(i) \notin {"ON", "EOF"}
SetsOption ==
    \/ Peek = "TRANSACTION" /\ parseSetTransactionIsolation
    \/ Peek = "STATISTICS" /\ SetOption(3)
    \/ Peek \in {"DEADLOCK_PRIORITY", "CONTEXT_INFO", "LANGUAGE"} /\ SetOption(2)
    \/ Peek = "OFFSETS" /\ \E j \in (pos + 2)..(pos + Len(input) + 3) : OffsetsEnd(j) /\ SetOption(j - pos)
    \/ Peek \in OnOffOptions /\ SetOption(ListEnd(pos + 1, "COMMA") + 1 - pos)
NamedOption ==
    /\ Peek = "IDENT"
    /\ \/ SetOption(ListEnd(pos + 2, "DOT") + 1 - pos)                     \* IDENTITY_INSERT
       \/ SetOption(2)                                                     \* DATEFORMAT
       \/ CallExpression(2, "parseSetStatement.Number", <<>>, LOWEST)     \* ROWCOUNT, ...

(* SET option ..., or target = expr, where a method call on a variable      *)
(* needs no value and the operator of a compound assignment is not kept.   *)
parseSetStatement ==
    \/ At("parseSetStatement") /\ SetsOption
    \/ At("parseSetStatement") /\ NamedOption
    \/ At("parseSetStatement.Number") /\ ReturnNew("SetOption", Top.at, GotIfAny, 0)
    \/ /\ At("parseSetStatement")
       /\ Peek \notin OnOffOptions \cup
              {"TRANSACTION", "STATISTICS", "DEADLOCK_PRIORITY", "CONTEXT_INFO", "LANGUAGE", "OFFSETS"}
       /\ CASE Peek \in {"VARIABLE", "TEMPVAR"} /\ Tok(pos + 2) = "DOT" ->
                 CallExpression(1, "parseSetStatement.Method", <<>>, LOWEST)
            [] Peek \in {"VARIABLE", "TEMPVAR"} /\ Tok(pos + 2) # "DOT" ->
                 Call(1, "parseSetStatement.Variable", <<>>, "parseVariable")
            [] OTHER -> CallExpression(1, "parseSetStatement.Variable", <<>>, CALL)
    \/ /\ At("parseSetStatement.Method")
       /\ IF NodeIs(ret, {"MethodCall"}) THEN ReturnNew("Set", Top.at, Got, 0)
                                         ELSE Continue(0, "parseSetStatement.Variable", Top.kids)
    \/ /\ At("parseSetStatement.Variable")
       /\ IF Peek \in AssignmentOperators THEN CallExpression(2, "parseSetStatement.Value", Got, LOWEST)
                                          ELSE Fail(1, 0)
    \/ At("parseSetStatement.Value") /\ ReturnNew("Set", Top.at, GotIfAny, 0)
-----------------------------------------------------------------------------
(* The body of the loop over the result sets: ( name type [[NOT] NULL]      *)
(* {, ...} ); a set that is not closed is dropped.                         *)
ResultSet ==
    \/ /\ At("ResultSet")
       /\ Require(0, <<"LPAREN">>, Call(3, "ResultSet.DataType", <<>>, "parseDataType"))
    \/ /\ At("ResultSet.DataType")
       /\ LET not  == IF Peek = "NOT" THEN 1 ELSE 0
              null == IF Tok(pos + not + 1) = "NULL" THEN not + 1 ELSE not
          IN  IF Tok(pos + null + 1) = "COMMA" THEN Call(null + 3, "ResultSet.DataType", Got, "parseDataType")
              ELSE Require(null, <<"RPAREN">>, ReturnNew("ResultSet", Top.at, Got, null + 1))
parseResultSets ==
    \/ /\ At("parseResultSets")
       /\ Require(0, <<"LPAREN">>, Call(1, "parseResultSets.Set", <<>>, "ResultSet"))
    \/ /\ At("parseResultSets.Set")
       /\ IF ret # NIL /\ Peek = "COMMA" THEN Call(1, "parseResultSets.Set", Got, "ResultSet")
          ELSE ReturnExpecting("RPAREN", "ResultSets", GotIfAny, 0)

(* WITH RECOMPILE and WITH RESULT SETS, behind the latter on at `sets`.    *)
ExecWith(here, next, sets) ==
    /\ At(here)
    /\ CASE Peek = "WITH" /\ Tok(pos + 2) = "RECOMPILE" -> Continue(2, next, Top.kids)
         [] Peek = "WITH" /\ Tok(pos + 2) = "RESULT" ->
              CASE Tok(pos + 3) # "SETS"                                           -> Skip(2, sets, Top.kids)
                [] Tok(pos + 3) = "SETS" /\ Tok(pos + 4) \in {"UNDEFINED", "NONE_KW"} -> Skip(4, sets, Top.kids)
                [] OTHER                              -> Call(3, sets, Top.kids, "parseResultSets")
         [] Peek = "WITH" /\ Tok(pos + 2) \notin {"RECOMPILE", "RESULT"} -> Continue(1, next, Top.kids)
         [] OTHER -> Continue(0, next, Top.kids)
ReturnExec(kids) == ReturnNew("Exec", Top.at, kids, IF Peek = "AT" THEN 2 ELSE 0)

parseExecParameter ==
    \/ /\ At("parseExecParameter")
       /\ CallExpression(IF Cur = "VARIABLE" /\ Peek = "EQ" THEN 2 ELSE 0,
                         "parseExecParameter.Value", <<>>, LOWEST)
    \/ /\ At("parseExecParameter.Value")
       /\ ReturnNew("ExecParameter", Top.at, Got, IF Peek \in {"OUTPUT", "OUT"} THEN 1 ELSE 0)

(* EXEC ( expr ) [AT server], or EXEC [@r =] name [WITH ...] [parameters]   *)
(* [WITH ...] [AT server]: what follows the name is a parameter unless it  *)
(* is one of five words.                                                   *)
parseExecStatement ==
    \/ /\ At("parseExecStatement")
       /\ CASE Peek = "AS"     -> TailCall(1, "parseExecuteAsStatement")
            [] Peek = "LPAREN" -> CallExpression(2, "parseExecStatement.DynamicSQL", <<>>, LOWEST)
            [] OTHER -> LET name == pos + (IF Peek = "VARIABLE" /\ Tok(pos + 2) = "EQ" THEN 3 ELSE 1)
                        IN  Continue(ListEnd(name, "DOT") - pos, "parseExecStatement.With", <<>>)
    \/ At("parseExecStatement.DynamicSQL") /\ Expect("RPAREN", 0, "parseExecStatement.At", Got)
    \/ At("parseExecStatement.At") /\ ReturnExec(Top.kids)
    \/ ExecWith("parseExecStatement.With", "parseExecStatement.Parameters", "parseExecStatement.End")
    \/ At("parseExecStatement.End") /\ ReturnNew("Exec", Top.at, GotIfAny, 0)
    \/ /\ At("parseExecStatement.Parameters")
       /\ IF Peek \in {"SEMICOLON", "EOF", "END", "GO", "WITH"}
          THEN Continue(0, "parseExecStatement.WithBehind", <<>>)
          ELSE Call(1, "parseExecStatement.Parameter", <<>>, "parseExecParameter")
    \/ /\ At("parseExecStatement.Parameter")
       /\ IF Peek = "COMMA" THEN Call(2, "parseExecStatement.Parameter", Got, "parseExecParameter")
                            ELSE Continue(0, "parseExecStatement.WithBehind", Got)
    \/ ExecWith("parseExecStatement.WithBehind", "parseExecStatement.At", "parseExecStatement.ResultSets")
    \/ At("parseExecStatement.ResultSets") /\ ReturnExec(GotIfAny)

(* AS [who [= name]] [WITH COOKIE INTO @variable], where COOKIE is no        *)
(* keyword.                                                                *)
parseExecuteAsStatement ==
    /\ At("parseExecuteAsStatement")
    /\ LET who  == IF Peek \in {"USER", "LOGIN"} /\ Tok(pos + 2) = "EQ" THEN 3 ELSE 1
           with == IF Tok(pos + who + 1) = "WITH" THEN who + 2 ELSE who
       IN  \/ ReturnNew("ExecuteAs", Top.at, <<>>, with)
           \/ /\ with > who /\ Tok(pos + with) \in Texts /\ Tok(pos + with + 1) = "INTO"
              /\ ReturnNew("ExecuteAs", Top.at, <<>>, with + 2)
-----------------------------------------------------------------------------
(* REVERT [WITH [COOKIE [= expr]]], RECONFIGURE [WITH [OVERRIDE]]           *)
WithWord(k) == /\ k > 0 <=> Peek = "WITH"
               /\ k = 2 => Tok(pos + 2) = "IDENT"
parseRevertStatement ==
    \/ /\ At("parseRevertStatement")
       /\ \E k \in 0..2 :
             /\ WithWord(k)
             /\ IF k = 2 /\ Tok(pos + 3) = "EQ"
                THEN CallExpression(4, "parseRevertStatement.Cookie", <<>>, LOWEST)
                ELSE ReturnNew("Revert", Top.at, <<>>, k)
    \/ At("parseRevertStatement.Cookie") /\ ReturnNew("Revert", Top.at, GotIfAny, 0)
parseReconfigureStatement ==
    /\ At("parseReconfigureStatement")
    /\ \E k \in 0..2 : WithWord(k) /\ ReturnNew("Reconfigure", Top.at, <<>>, k)

(* OPEN and CLOSE: where a key is named the cursor is left behind the      *)
(* statement, on a token that then belongs to no statement.                *)
parseOpenSymmetricKeyStatement ==
    /\ At("parseOpenSymmetricKeyStatement")
    /\ LET past == Row(pos, <<Anything, Opt("KEY"), Anything>>)
           by   == Row(past + 1, <<Opt("BY")>>)
       IN  ReturnAt("OpenKey", CASE Tok(past) # "DECRYPTION"                     -> past
                                 [] Tok(past) = "DECRYPTION" /\ by = past + 1 -> by
                                 [] OTHER                                       -> ProtectionPast(by))
parseOpenCursorStatement ==
    /\ At("parseOpenCursorStatement")
    /\ IF Peek = "SYMMETRIC" THEN HandOn(1, "parseOpenSymmetricKeyStatement")
                             ELSE ReturnNew("OpenCursor", Top.at, <<>>, 1)
parseCloseCursorStatement ==
    /\ At("parseCloseCursorStatement")
    /\ CASE Peek = "ALL" /\ Tok(pos + 2) # "SYMMETRIC" -> ReturnNew("CloseKey", Top.at, <<>>, 2)
         [] Peek = "ALL" /\ Tok(pos + 2) = "SYMMETRIC" ->
              \E k \in IF Tok(pos + 3) \in Texts THEN {3, 4} ELSE {3} :       \* KEYS
                 ReturnNew("CloseKey", Top.at, <<>>, k)
         [] Peek = "SYMMETRIC" -> ReturnAt("CloseKey", Row(pos + 2, <<Opt("KEY"), Anything>>))
         [] OTHER -> ReturnNew("CloseCursor", Top.at, <<>>, 1)

DeclarationStep ==
    \/ parseVariableDef \/ parseDeclareStatement \/ parseDeclareCursorStatement
    \/ parseSetStatement \/ ResultSet \/ parseResultSets \/ parseExecParameter
    \/ parseExecStatement \/ parseExecuteAsStatement
    \/ parseRevertStatement \/ parseReconfigureStatement
    \/ parseOpenSymmetricKeyStatement \/ parseOpenCursorStatement \/ parseCloseCursorStatement
=============================================================================
