------------------------------ MODULE Definitions ------------------------------
(***************************************************************************)
(* Indexes, sequences, types, statistics and other objects, BULK INSERT,   *)
(* and the dispatch of CREATE and ALTER.  Words that are no keywords       *)
(* (SAMPLE, RESTART, NO, COLUMNSTORE) may be meant by any IDENT.           *)
(***************************************************************************)
EXTENDS Routines, Security, Administration, Storage, Conversations

(* INDEX name ON table [( columns )] [INCLUDE ( names )] [WITH ...] [WHERE  *)
(* expr] [ON name [( column )]] [USING ... [WITH ...]]: no closing         *)
(* parenthesis is missed.                                                  *)
IndexTail == LET group == CASE Peek # "ON"                              -> pos
                            [] Peek = "ON" /\ Tok(pos + 3) # "LPAREN" -> pos + 2
                            [] OTHER                                    -> FirstIn(pos + 4, {"RPAREN"})
             IN  IF Tok(group + 1) = "USING"
                 THEN WithOptions(FirstIn(group + 1, {"WITH", "SEMICOLON", "GO"}) - 1)
                 ELSE group
parseCreateIndexStatement ==
    \/ /\ At("parseCreateIndexStatement")
       /\ LET table == ListEnd(pos + 3, "DOT") - pos IN
          Require(1, <<"ON">>, IF Tok(pos + table + 1) = "LPAREN"
                               THEN Continue(table + 2, "parseCreateIndexStatement.Column", <<>>)
                               ELSE Continue(table, "parseCreateIndexStatement.Include", <<>>))
    \/ /\ At("parseCreateIndexStatement.Column")
       /\ LET last == IF Peek \in {"ASC", "DESC"} THEN 1 ELSE 0 IN
          CASE Cur \in {"RPAREN", "EOF"} ->
                 Continue(IF Peek = "RPAREN" THEN 1 ELSE 0, "parseCreateIndexStatement.Include", <<>>)
            [] Cur \notin {"RPAREN", "EOF"} /\ Tok(pos + last + 1) = "COMMA" ->
                 Continue(last + 2, "parseCreateIndexStatement.Column", <<>>)
            [] OTHER -> Continue(IF Tok(pos + last + 1) = "RPAREN" THEN last + 1 ELSE last,
                                 "parseCreateIndexStatement.Include", <<>>)
    \/ /\ At("parseCreateIndexStatement.Include")
       /\ IF Peek = "INCLUDE"
          THEN Require(1, <<"LPAREN">>, Continue(NamesInParentheses(pos + 1) - pos,
                                                 "parseCreateIndexStatement.Options", <<>>))
          ELSE Continue(0, "parseCreateIndexStatement.Options", <<>>)
    \/ /\ At("parseCreateIndexStatement.Options")
       /\ LET k == WithOptions(pos) - pos IN
          IF Tok(pos + k + 1) = "WHERE" THEN CallExpression(k + 2, "parseCreateIndexStatement.Where", <<>>, LOWEST)
                                        ELSE Skip(k, "parseCreateIndexStatement.Where", <<>>)
    \/ At("parseCreateIndexStatement.Where") /\ ReturnNew("CreateIndex", Top.at, GotIfAny, IndexTail - pos)

(* INDEX name ON table ( column ) [USING ...]                              *)
parseCreateXmlIndexStatement ==
    \/ /\ At("parseCreateXmlIndexStatement")
       /\ LET table == ListEnd(pos + 3, "DOT") - pos IN
          IF Tok(pos + 2) # "ON" THEN Fail(2, 1)
          ELSE Require(table, <<"LPAREN">>, Expect("RPAREN", table + 2, "parseCreateXmlIndexStatement.Using", <<>>))
    \/ /\ At("parseCreateXmlIndexStatement.Using")
       /\ ReturnNew("CreateIndex", Top.at, <<>>, IF Peek = "USING" THEN RestOfStatement ELSE 0)

(* INDEX name ON table action, where SET ( ... ) and WITH ( ... ) are read  *)
(* up to the first closing parenthesis.                                    *)
OptionList(here, separators, kind) ==
    /\ At(here)
    /\ IF Cur \in {"RPAREN", "EOF"} THEN ReturnNew(kind, Top.at, <<>>, 0)
                                    ELSE Continue(IF Peek \in separators THEN 2 ELSE 1, here, <<>>)
parseAlterIndexStatement ==
    \/ /\ At("parseAlterIndexStatement")
       /\ LET action == ListEnd(pos + 3, "DOT") + 1 - pos IN
          CASE Tok(pos + 2) # "ON" -> Fail(2, 1)
            [] Tok(pos + 2) = "ON" /\ Tok(pos + action) = "SET" ->
                 IF Tok(pos + action + 1) = "LPAREN"
                 THEN Continue(action + 2, "parseAlterIndexStatement.Set", <<>>)
                 ELSE ReturnNew("AlterIndex", Top.at, <<>>, action)
            [] Tok(pos + 2) = "ON" /\ Tok(pos + action) # "SET" /\ Tok(pos + action + 1) = "WITH" ->
                 IF Tok(pos + action + 2) = "LPAREN"
                 THEN Continue(action + 3, "parseAlterIndexStatement.With", <<>>)
                 ELSE ReturnFlawed("AlterIndex", Top.at, <<>>, action + 1, action + 2)
            [] OTHER -> ReturnNew("AlterIndex", Top.at, <<>>, action)
    \/ OptionList("parseAlterIndexStatement.Set", {"COMMA", "EQ"}, "AlterIndex")
    \/ OptionList("parseAlterIndexStatement.With", {"COMMA"}, "AlterIndex")
-----------------------------------------------------------------------------
(* DEFAULT name AS expr and CREATE_RULE name AS expr                       *)
NamedExpression(here, value, kind) ==
    \/ /\ At(here)
       /\ LET name == ListEnd(pos + 1, "DOT") - pos IN
          Require(name, <<"AS">>, CallExpression(name + 2, value, <<>>, LOWEST))
    \/ At(value) /\ ReturnNew(kind, Top.at, Got, 0)
parseCreateDefaultStatement ==
    NamedExpression("parseCreateDefaultStatement", "parseCreateDefaultStatement.Value", "CreateDefault")
parseCreateRuleStatement ==
    NamedExpression("parseCreateRuleStatement", "parseCreateRuleStatement.Condition", "CreateRule")

(* XML_SCHEMA_COLLECTION name AS text: an expression in its place is made  *)
(* text by String(), which panics on one that is broken.                   *)
parseCreateXmlSchemaCollectionStatement ==
    \/ /\ At("parseCreateXmlSchemaCollectionStatement")
       /\ LET text == ListEnd(pos + 1, "DOT") + 2 - pos IN
          Require(text - 2, <<"AS">>,
                  IF Tok(pos + text) \in {"STRING", "NSTRING"}
                  THEN ReturnNew("CreateXmlSchema", Top.at, <<>>, text)
                  ELSE CallExpression(text, "parseCreateXmlSchemaCollectionStatement.Text", <<>>, LOWEST))
    \/ /\ At("parseCreateXmlSchemaCollectionStatement.Text")
       /\ IF ret = NIL \/ Whole(Got) THEN ReturnNew("CreateXmlSchema", Top.at, GotIfAny, 0) ELSE Panic

(* TYPE name AS TABLE ( ... ) [WITH ...] | FROM type [[NOT] NULL]: with     *)
(* neither there is no type, which String() dereferences all the same.     *)
parseCreateTypeStatement ==
    \/ /\ At("parseCreateTypeStatement")
       /\ LET name == ListEnd(pos + 1, "DOT") - pos IN
          CASE Tok(pos + name + 1) = "AS" /\ Tok(pos + name + 2) = "TABLE" ->
                 Call(name + 2, "parseCreateTypeStatement.Table", <<>>, "parseTableTypeDefinition")
            [] Tok(pos + name + 1) = "AS" /\ Tok(pos + name + 2) # "TABLE" ->
                 ReturnNew("CreateType", Top.at, <<NIL>>, name + 1)
            [] Tok(pos + name + 1) = "FROM" ->
                 Call(name + 2, "parseCreateTypeStatement.BaseType", <<>>, "parseDataType")
            [] OTHER -> ReturnNew("CreateType", Top.at, <<NIL>>, name)
    \/ /\ At("parseCreateTypeStatement.Table")
       /\ ReturnNew("CreateType", Top.at, <<>>, WithOptions(pos) - pos)
    \/ /\ At("parseCreateTypeStatement.BaseType")
       /\ LET null == CASE Peek = "NOT" -> IF Tok(pos + 2) = "NULL" THEN 2 ELSE 1
                        [] Peek = "NULL" -> 1
                        [] OTHER         -> 0
          IN  ReturnNew("CreateType", Top.at, Got, null)

(* SYNONYM name FOR name: without FOR the target is nil.                   *)
parseCreateSynonymStatement ==
    /\ At("parseCreateSynonymStatement")
    /\ LET name == ListEnd(pos + 1, "DOT") - pos IN
       IF Tok(pos + name + 1) = "FOR"
       THEN ReturnNew("CreateSynonym", Top.at, <<>>, ListEnd(pos + name + 2, "DOT") - pos)
       ELSE ReturnNew("CreateSynonym", Top.at, <<NIL>>, name)

(* SCHEMA name [AUTHORIZATION name], and one token more.                   *)
parseCreateSchemaStatement ==
    At("parseCreateSchemaStatement")
        /\ ReturnNew("CreateSchema", Top.at, <<>>, IF Tok(pos + 2) = "AUTHORIZATION" THEN 4 ELSE 2)

parseAlterDatabaseStatement ==         \* DATABASE name and the rest of the statement
    At("parseAlterDatabaseStatement")
        /\ ReturnNew("AlterDatabase", Top.at, <<>>, FirstIn(pos + 2, {"SEMICOLON", "GO"}) - 1 - pos)
-----------------------------------------------------------------------------
(* SEQUENCE name {option}: a word that is no option is taken all the same  *)
(* and ends the statement.  An option is given once.                       *)
SequenceNumbers == {"MINVALUE", "MAXVALUE", "CACHE_KW"}
SequenceOption(here, next, kind) ==
    LET by   == IF Tok(pos + 2) = "BY" THEN 3 ELSE 2
        Done(k)   == ReturnNew(kind, Top.at, Top.kids, k)
        Takes(k)  == CallExpression(k, next, Top.kids, LOWEST)
    IN  \/ At(here) /\ Peek \in {"SEMICOLON", "EOF", "GO"} /\ Done(0)
        \/ At(here) /\ Peek = "INCREMENT" /\ Takes(by)
        \/ At(here) /\ Peek \in SequenceNumbers /\ Takes(2)
        \/ At(here) /\ Peek = "CYCLE" /\ Continue(1, here, Top.kids)
        \/ At(here) /\ Peek = "IDENT" /\ (Continue(2, here, Top.kids) \/ Done(1))         \* NO ...
        \/ /\ At(here) /\ Done(1)
           /\ Peek \notin SequenceNumbers \cup {"SEMICOLON", "EOF", "GO", "INCREMENT", "CYCLE", "IDENT"}
           /\ kind = "CreateSequence" => Peek \notin {"AS", "START"}
        \/ At(next) /\ Continue(0, here, GotIfAny)
StartNumber(here, next) ==             \* START or RESTART [WITH] expr
    CallExpression(IF Tok(pos + 2) = "WITH" THEN 3 ELSE 2, next, Top.kids, LOWEST)
parseCreateSequenceStatement ==
    LET here == "parseCreateSequenceStatement.Option"
        next == "parseCreateSequenceStatement.Number"
    IN  \/ /\ At("parseCreateSequenceStatement")
           /\ Continue(ListEnd(pos + 1, "DOT") - pos, here, <<>>)
        \/ SequenceOption(here, next, "CreateSequence")
        \/ At(here) /\ Peek = "AS" /\ Call(2, next, Top.kids, "parseDataType")
        \/ At(here) /\ Peek = "START" /\ StartNumber(here, next)
parseAlterSequenceStatement ==
    LET here == "parseAlterSequenceStatement.Option"
        next == "parseAlterSequenceStatement.Number"
    IN  \/ /\ At("parseAlterSequenceStatement")
           /\ Continue(ListEnd(pos + 1, "DOT") - pos, here, <<>>)
        \/ SequenceOption(here, next, "AlterSequence")
        \/ At(here) /\ Peek = "IDENT" /\ StartNumber(here, next)
-----------------------------------------------------------------------------
(* STATISTICS name [ON table] [( names )] [WITH options]; without ON the    *)
(* cursor is behind the name already.                                      *)
parseCreateStatisticsStatement ==
    \/ /\ At("parseCreateStatisticsStatement")
       /\ LET table == IF Tok(pos + 2) = "ON" THEN ListEnd(pos + 3, "DOT") ELSE pos + 2
              Last(j) == Tok(j) \in {"RPAREN", "EOF"} \/ Tok(j + 1) # "COMMA"
              names == {j \in (table + 2)..(table + Len(input) + 3) : (j - table) % 2 = 0 /\ Last(j)}
          IN  IF Tok(table + 1) = "LPAREN"
              THEN Expect("RPAREN", First(names) - pos, "parseCreateStatisticsStatement.With", <<>>)
              ELSE Continue(table - pos, "parseCreateStatisticsStatement.With", <<>>)
    \/ /\ At("parseCreateStatisticsStatement.With")
       /\ IF Peek = "WITH" THEN Continue(2, "parseStatisticsWithOptions", <<>>)
                           ELSE ReturnNew("Statistics", Top.at, <<>>, 0)
parseUpdateStatisticsStatement ==
    /\ At("parseUpdateStatisticsStatement")
    /\ LET table == ListEnd(pos + 1, "DOT") - pos
           name  == IF Tok(pos + table + 1) = "IDENT" THEN table + 1 ELSE table
       IN  IF Tok(pos + name + 1) = "WITH" THEN Continue(name + 2, "parseStatisticsWithOptions", <<>>)
                                           ELSE ReturnNew("Statistics", Top.at, <<>>, name)
parseStatisticsWithOptions ==          \* the rest of both
    /\ At("parseStatisticsWithOptions")
    /\ IF Cur \in {"SEMICOLON", "EOF", "GO"} THEN ReturnNew("Statistics", Top.at, <<>>, 0)
       ELSE \E k \in 0..2 :            \* SAMPLE n [PERCENT | ROWS]
               /\ k > 0 => Cur = "IDENT"
               /\ k = 1 => Tok(pos + 2) \notin {"PERCENT_KW", "ROWS"}
               /\ k = 2 => Tok(pos + 2) \in {"PERCENT_KW", "ROWS", "IDENT"}
               /\ IF Tok(pos + k + 1) = "COMMA" THEN Continue(k + 2, "parseStatisticsWithOptions", <<>>)
                                                ELSE ReturnNew("Statistics", Top.at, <<>>, k)

(* BULK INSERT table FROM file [WITH ( name [= value | ( ... )] {[,] ...} )] *)
parseBulkInsertStatement ==
    \/ /\ At("parseBulkInsertStatement")
       /\ LET file == ListEnd(pos + 2, "DOT") + 2 - pos IN
          CASE Peek # "INSERT" -> Fail(1, 0)
            [] Peek = "INSERT" /\ Tok(pos + file + 1) = "WITH" /\ Tok(pos + file + 2) # "LPAREN" ->
                 Require(file - 2, <<"FROM">>, ReturnFlawed("BulkInsert", Top.at, <<>>, file + 1, file + 2))
            [] Peek = "INSERT" /\ Tok(pos + file + 1) = "WITH" /\ Tok(pos + file + 2) = "LPAREN" ->
                 Require(file - 2, <<"FROM">>, Continue(file + 3, "parseBulkInsertStatement.Option", <<>>))
            [] OTHER -> Require(file - 2, <<"FROM">>, ReturnNew("BulkInsert", Top.at, <<>>, file))
    \/ /\ At("parseBulkInsertStatement.Option")
       /\ LET value == CASE Peek = "EQ"     -> 2
                         [] Peek = "LPAREN" -> Closing(pos + 1) - pos
                         [] OTHER           -> 0
              comma == IF Tok(pos + value + 1) = "COMMA" THEN 1 ELSE 0
          IN  IF Cur \in {"RPAREN", "EOF"} THEN ReturnNew("BulkInsert", Top.at, <<>>, 0)
              ELSE Continue(value + comma + 1, "parseBulkInsertStatement.Option", <<>>)
-----------------------------------------------------------------------------
(* CREATE [OR ALTER] object ...: an object that is not known is nil, and   *)
(* no error.                                                               *)
CreateFn ==
    [VIEW                  |-> "parseCreateViewStatement",
     INDEX                 |-> "parseCreateIndexStatement",
     FUNCTION              |-> "parseCreateFunctionStatement",
     DEFAULT_KW            |-> "parseCreateDefaultStatement",
     XML_SCHEMA_COLLECTION |-> "parseCreateXmlSchemaCollectionStatement",
     TRIGGER               |-> "parseCreateTriggerStatement",
     TYPE_WARNING          |-> "parseCreateTypeStatement",
     SYNONYM               |-> "parseCreateSynonymStatement",
     SEQUENCE              |-> "parseCreateSequenceStatement",
     STATISTICS            |-> "parseCreateStatisticsStatement",
     LOGIN                 |-> "parseCreateLoginStatement",
     USER                  |-> "parseCreateUserStatement",
     ROLE                  |-> "parseCreateRoleStatement",
     MASTER                |-> "parseCreateMasterKeyStatement",
     CERTIFICATE           |-> "parseCreateCertificateStatement",
     SYMMETRIC             |-> "parseCreateSymmetricKeyStatement",
     ASYMMETRIC            |-> "parseCreateAsymmetricKeyStatement",
     ASSEMBLY              |-> "parseCreateAssemblyStatement",
     PARTITION             |-> "parseCreatePartitionStatement",
     FULLTEXT              |-> "parseCreateFulltextStatement",
     RESOURCE              |-> "parseCreateResourcePoolStatement",
     WORKLOAD              |-> "parseCreateWorkloadGroupStatement",
     AVAILABILITY          |-> "parseCreateAvailabilityGroupStatement",
     MESSAGE               |-> "parseCreateMessageTypeStatement",
     CONTRACT              |-> "parseCreateContractStatement",
     QUEUE                 |-> "parseCreateQueueStatement",
     SERVICE               |-> "parseCreateServiceStatement",
     SCHEMA                |-> "parseCreateSchemaStatement",
     DATABASE              |-> "parseCreateDatabaseOrScopedCredential"]
IndexAt(k) == IF Tok(pos + k) = "INDEX" THEN HandOn(k, "parseCreateIndexStatement") ELSE ReturnNil(k)
CreateIndex(k) ==                      \* [UNIQUE] [[NON]CLUSTERED] [COLUMNSTORE | SPATIAL] INDEX
    LET object == Tok(pos + k) IN
    \/ object = "UNIQUE" /\ IndexAt(Clustered(pos + k) + 1 - pos)
    \/ /\ object \in {"CLUSTERED", "NONCLUSTERED"}
       /\ Tok(pos + k + 1) # "INDEX" => Tok(pos + k + 1) = "IDENT"
       /\ IndexAt(IF Tok(pos + k + 1) = "INDEX" THEN k + 1 ELSE k + 2)
    \/ /\ object \in {"CLUSTERED", "NONCLUSTERED"} /\ Tok(pos + k + 1) # "INDEX"
       /\ ReturnNil(k + 1)
    \/ object = "IDENT" /\ Tok(pos + k + 1) = "INDEX" /\ IndexAt(k + 1)
CreateXmlIndex(k) ==                   \* [PRIMARY] XML INDEX
    LET xml == IF Tok(pos + k) = "PRIMARY" /\ Tok(pos + k + 1) = "XML" THEN k + 1 ELSE k IN
    /\ Tok(pos + k) \in {"PRIMARY", "XML"}
    /\ IF Tok(pos + xml) = "XML" /\ Tok(pos + xml + 1) = "INDEX"
       THEN HandOn(xml + 1, "parseCreateXmlIndexStatement")
       ELSE ReturnNil(xml)
CreateNamed(k) ==                      \* words that are no keywords: APPLICATION ROLE, CREDENTIAL
    /\ Tok(pos + k) = "IDENT"
    /\ \/ Tok(pos + k + 1) = "ROLE" /\ HandOn(k + 1, "parseCreateApplicationRoleStatement")
       \/ HandOn(k, "parseCreateCredentialStatement")
       \/ ReturnNil(k)
parseCreateStatement ==
    /\ At("parseCreateStatement")
    /\ LET k == IF Peek = "OR" /\ Tok(pos + 2) = "ALTER" THEN 3 ELSE 1
           object == Tok(pos + k)
           server == object = "SERVER" /\ Tok(pos + k + 1) = "ROLE"
       IN  \/ object = "TABLE" /\ TailCall(k, "parseCreateTableStatement")
           \/ object \in {"PROCEDURE", "PROC"} /\ TailCall(k, "parseCreateProcedureStatement")
           \/ object \in DOMAIN CreateFn /\ HandOn(k, CreateFn[object])
           \/ CreateIndex(k)
           \/ CreateXmlIndex(k)
           \/ CreateNamed(k)
           \/ server /\ HandOn(k + 1, "parseCreateServerRoleStatement")
           \/ /\ object \notin DOMAIN CreateFn
                     \cup {"TABLE", "PROCEDURE", "PROC", "UNIQUE", "CLUSTERED", "NONCLUSTERED", "PRIMARY", "XML", "IDENT"}
              /\ ~ server
              /\ ReturnNil(k)

AlterFn ==
    [VIEW         |-> "parseAlterViewStatement",
     FUNCTION     |-> "parseAlterFunctionStatement",
     TRIGGER      |-> "parseAlterTriggerStatement",
     PROCEDURE    |-> "parseAlterProcedureStatement",
     PROC         |-> "parseAlterProcedureStatement",
     INDEX        |-> "parseAlterIndexStatement",
     SEQUENCE     |-> "parseAlterSequenceStatement",
     LOGIN        |-> "parseAlterLoginStatement",
     USER         |-> "parseAlterUserStatement",
     ROLE         |-> "parseAlterRoleStatement",
     ASSEMBLY     |-> "parseAlterAssemblyStatement",
     PARTITION    |-> "parseAlterPartitionStatement",
     FULLTEXT     |-> "parseAlterFulltextStatement",
     RESOURCE     |-> "parseAlterResourceStatement",
     WORKLOAD     |-> "parseAlterWorkloadGroupStatement",
     AVAILABILITY |-> "parseAlterAvailabilityGroupStatement",
     QUEUE        |-> "parseAlterQueueStatement",
     DATABASE     |-> "parseAlterDatabaseStatement"]
parseAlterStatement ==
    /\ At("parseAlterStatement")
    /\ LET role == Peek \in {"SERVER", "IDENT"} /\ Tok(pos + 2) = "ROLE" IN
       \/ Peek = "TABLE" /\ TailCall(1, "parseAlterTableStatement")
       \/ Peek \in DOMAIN AlterFn /\ HandOn(1, AlterFn[Peek])
       \/ Peek = "SERVER" /\ role /\ HandOn(2, "parseAlterServerRoleStatement")
       \/ Peek = "IDENT" /\ role /\ HandOn(2, "parseAlterApplicationRoleStatement")
       \/ /\ Peek \notin DOMAIN AlterFn \cup {"TABLE"}
          /\ role => Peek = "IDENT"
          /\ ReturnNil(1)

DefinitionStep ==
    \/ parseCreateIndexStatement \/ parseCreateXmlIndexStatement \/ parseAlterIndexStatement
    \/ parseCreateDefaultStatement \/ parseCreateRuleStatement \/ parseCreateXmlSchemaCollectionStatement
    \/ parseCreateTypeStatement \/ parseCreateSynonymStatement \/ parseCreateSchemaStatement
    \/ parseAlterDatabaseStatement \/ parseCreateSequenceStatement \/ parseAlterSequenceStatement
    \/ parseCreateStatisticsStatement \/ parseUpdateStatisticsStatement \/ parseStatisticsWithOptions
    \/ parseBulkInsertStatement \/ parseCreateStatement \/ parseAlterStatement
=============================================================================
