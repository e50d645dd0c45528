---------------------------- MODULE Conversations ----------------------------
(***************************************************************************)
(* Service broker: message types, contracts, queues and services, and the  *)
(* statements of a conversation.                                           *)
(***************************************************************************)
EXTENDS TableDefinitions, WordRows

(* MESSAGE TYPE name [AUTHORIZATION name] [VALIDATION = kind]               *)
parseCreateMessageTypeStatement ==
    /\ At("parseCreateMessageTypeStatement")
    /\ LET i == Row(pos, <<Anything, Opt("TYPE_WARNING"), Anything, OptNamed("AUTHORIZATION")>>) IN
       ReturnAt("CreateMessageType", IF Tok(i) = "VALIDATION" THEN Row(i + 1, <<Opt("EQ"), Anything>>) ELSE i)

(* CONTRACT name [AUTHORIZATION name] [( {name [SENT [BY] who] [,]} )]      *)
MessagePast(i) ==
    Row(IF Tok(i + 1) = "SENT" THEN Row(i + 2, <<Opt("BY"), Anything>>) ELSE i + 1, <<Opt("COMMA")>>)
parseCreateContractStatement ==
    /\ At("parseCreateContractStatement")
    /\ LET i == Row(pos, <<Anything, Anything, OptNamed("AUTHORIZATION")>>) IN
       ReturnAt("CreateContract", IF Tok(i) = "LPAREN" THEN ItemsEnd(i + 1, MessagePast) + 1 ELSE i)

(* QUEUE name [WITH ( pairs )]; ALTER takes what is left of the statement.  *)
parseCreateQueueStatement ==
    /\ At("parseCreateQueueStatement")
    /\ LET name == ListEnd(pos + 1, "DOT") IN
       ReturnAt("CreateQueue", IF Tok(name + 1) = "WITH" THEN PairsPast(name + 1) ELSE name)
parseAlterQueueStatement ==
    /\ At("parseAlterQueueStatement")
    /\ LET name == ListEnd(pos + 1, "DOT") IN
       ReturnAt("AlterQueue", IF Tok(name + 1) = "WITH" THEN FirstIn(name + 2, {"SEMICOLON", "GO"}) - 1 ELSE name)

(* SERVICE name [AUTHORIZATION name] [ON QUEUE name] [( names )]: without  *)
(* ON the cursor is behind the name, and a list there is not seen.         *)
parseCreateServiceStatement ==
    /\ At("parseCreateServiceStatement")
    /\ LET i     == Row(pos, <<Anything, Anything, OptNamed("AUTHORIZATION")>>)
           queue == IF Tok(i) = "ON" THEN ListEnd(Row(i + 1, <<Opt("QUEUE")>>), "DOT") ELSE i
       IN  ReturnAt("CreateService",
                IF Tok(queue + 1) = "LPAREN" THEN ItemsEnd(queue + 2, NamePast) + 1 ELSE queue)

(* MESSAGE TYPE | CONTRACT | QUEUE | SERVICE [IF EXISTS] name               *)
parseDropServiceBrokerObject ==
    /\ At("parseDropServiceBrokerObject")
    /\ LET i == IF Cur = "MESSAGE" THEN Row(pos + 1, <<Opt("TYPE_WARNING")>>) ELSE pos + 1 IN
       ReturnAt("DropObject", ListEnd(AfterIfExists(i), "DOT"))
-----------------------------------------------------------------------------
(* BEGIN DIALOG [CONVERSATION] handle [FROM SERVICE name] [TO SERVICE name] *)
(* [ON CONTRACT name] [WITH option = value {, option = value}]             *)
Side(i, word, object) == IF Tok(i) = word THEN Row(i + 1, <<Opt(object), Anything>>) ELSE i
DialogOption(i)      == Row(i, <<Anything, Opt("EQ"), Anything>>)
DialogOptionsPast(i) == ListPast(i, {"SEMICOLON", "EOF"}, DialogOption)
parseBeginDialogStatement ==
    /\ At("parseBeginDialogStatement")
    /\ LET handle   == Row(pos, <<Anything, Anything, Opt("CONVERSATION"), Anything>>)
           services == Side(Side(handle, "FROM", "SERVICE"), "TO", "SERVICE")
           contract == Side(services, "ON", "CONTRACT")
       IN  ReturnAt("BeginDialog", IF Tok(contract) = "WITH" THEN DialogOptionsPast(contract + 1) ELSE contract)

(* SEND [ON] [CONVERSATION] handle [MESSAGE TYPE name] [( expr )]           *)
parseSendOnConversationStatement ==
    LET body == "parseSendOnConversationStatement.Body" IN
    \/ /\ At("parseSendOnConversationStatement")
       /\ LET handle  == Row(pos, <<Anything, Opt("ON"), Opt("CONVERSATION"), Anything>>)
              message == Side(handle, "MESSAGE", "TYPE_WARNING")
          IN  IF Tok(message) = "LPAREN" THEN CallExpression(message + 1 - pos, body, <<>>, LOWEST)
                                         ELSE ReturnAt("Send", message)
    \/ At(body) /\ ReturnNew("Send", Top.at, GotIfAny, IF Peek = "RPAREN" THEN 1 ELSE 0)

(* RECEIVE [TOP ( expr )] {[@variable [=]] column [,]} FROM queue: the      *)
(* columns go on to the next FROM, wherever it is, over the end of the     *)
(* statement as well.  Without one there is no queue, which String()       *)
(* dereferences.                                                           *)
parseReceiveStatement ==
    LET column == "parseReceiveStatement.Column"
        past   == Row(IF Cur = "VARIABLE" THEN Row(pos + 1, <<Opt("EQ")>>) ELSE pos, <<Anything, Opt("COMMA")>>)
    IN  \/ /\ At("parseReceiveStatement")
           /\ IF Peek = "TOP" /\ Tok(pos + 2) = "LPAREN"
              THEN CallExpression(3, "parseReceiveStatement.Top", <<>>, LOWEST)
              ELSE Continue(IF Peek = "TOP" THEN 2 ELSE 1, column, <<>>)
        \/ At("parseReceiveStatement.Top") /\ Continue(IF Peek = "RPAREN" THEN 2 ELSE 1, column, GotIfAny)
        \/ At(column) /\ Cur \notin {"FROM", "EOF"} /\ Continue(past - pos, column, Top.kids)
        \/ At(column) /\ Cur = "FROM" /\ ReturnAt("Receive", ListEnd(pos + 1, "DOT"))
        \/ At(column) /\ Cur = "EOF" /\ ReturnNew("Receive", Top.at, Append(Top.kids, NIL), 0)

(* END CONVERSATION handle [WITH CLEANUP | WITH ERROR = expr [DESCRIPTION =  *)
(* expr]]: no keyword but WITH.  String() leaves the expressions out.      *)
parseEndConversationStatement ==
    LET error == "parseEndConversationStatement.Error"
        text  == "parseEndConversationStatement.Description"
    IN  \/ /\ At("parseEndConversationStatement") /\ Tok(pos + 2) # "WITH"
           /\ ReturnAt("EndConversation", pos + 1)
        \/ /\ At("parseEndConversationStatement") /\ Tok(pos + 2) = "WITH"
           /\ \E past \in {pos + 3} \cup IF Tok(pos + 3) \in Texts THEN {pos + 4} ELSE {} :
                 ReturnAt("EndConversation", past)
        \/ /\ At("parseEndConversationStatement") /\ Tok(pos + 2) = "WITH" /\ Tok(pos + 3) \in Texts
           /\ CallExpression(Row(pos + 4, <<Opt("EQ")>>) - pos, error, <<>>, LOWEST)
        \/ At(error) /\ ReturnAt("EndConversation", pos)
        \/ /\ At(error) /\ Peek = "IDENT"
           /\ CallExpression(Row(pos + 2, <<Opt("EQ")>>) - pos, text, <<>>, LOWEST)
        \/ At(text) /\ ReturnAt("EndConversation", pos)

(* GET [CONVERSATION] [GROUP] id [FROM queue] and MOVE [CONVERSATION] handle *)
(* [TO group]: here, too, String() dereferences the queue.                 *)
parseGetConversationGroupStatement ==
    /\ At("parseGetConversationGroupStatement")
    /\ LET i == Row(pos, <<Anything, Opt("CONVERSATION"), Opt("GROUP"), Anything>>) IN
       IF Tok(i) = "FROM" THEN ReturnAt("GetConversationGroup", ListEnd(i + 1, "DOT"))
                          ELSE ReturnNew("GetConversationGroup", Top.at, <<NIL>>, i - pos)
parseMoveConversationStatement ==
    /\ At("parseMoveConversationStatement")
    /\ ReturnAt("MoveConversation", Row(pos, <<Anything, Opt("CONVERSATION"), Anything, OptNamed("TO")>>))

ConversationStep ==
    \/ parseCreateMessageTypeStatement \/ parseCreateContractStatement \/ parseCreateQueueStatement
    \/ parseAlterQueueStatement \/ parseCreateServiceStatement \/ parseDropServiceBrokerObject
    \/ parseBeginDialogStatement \/ parseSendOnConversationStatement \/ parseReceiveStatement
    \/ parseEndConversationStatement \/ parseGetConversationGroupStatement \/ parseMoveConversationStatement
=============================================================================
